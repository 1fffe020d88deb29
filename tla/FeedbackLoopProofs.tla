------------------------- MODULE FeedbackLoopProofs -------------------------
(***************************************************************************)
(* Proofs about FeedbackLoop and ConversationStore, for any number of      *)
(* requests, conversations, traces, layers and runs, and transcripts and   *)
(* histories of any length.                                                *)
(***************************************************************************)
EXTENDS FeedbackLoop, FiniteSetTheorems, SequenceTheorems, WellFoundedInduction, TLAPS

----------------------------------------------------------------------------
(* Types.                                                                  *)

Row == [rating : Ratings \cup {None}, status : ReviewStatuses \cup
          {None, "candidate", "regression_added"}, badCase : BadCaseIds \cup {None}]

Operations ==
    [pc : {"idle", "append", "rate", "rating", "list", "submit", "upsert"},
     conv : Conversations \cup {None}, trace : Traces \cup {None},
     rating : Ratings \cup {None}, seen : Transcript \cup Row \cup {None},
     todo : SUBSET (Nat \X Conversations), stale : SUBSET Conversations]

Jobs ==
    [pc : {"idle", "register", "mark", "write_case", "relink", "run"},
     answer : Answers \cup {None}, bad : BadCaseIds \cup {None}, msg : Messages \cup {None},
     records : SUBSET BadCaseIds, due : SUBSET BadCaseIds]

Cases == [bad : BadCaseIds, msg : Messages]
Runs == [count : Nat, passed : BOOLEAN, unproved : SUBSET BadCaseIds]

StoreTypes ==
    /\ store \in [Conversations -> Transcript \cup {None}]
    /\ saves \in Seq(Conversations)
    /\ index \in SUBSET Conversations
    /\ serial \in [Conversations -> Transcript \cup {None}]
    /\ overlapped \in SUBSET Conversations
    /\ expired \in SUBSET Conversations

LoopTypes ==
    /\ rows \in [Answers -> Row]
    /\ registry \in [BadCaseIds -> BadCase \cup {None}]
    /\ cases \in Seq(Cases)
    /\ runs \in Seq(Runs)
    /\ accepted \in SUBSET (Answers \X Ratings)

TypeOK ==
    /\ StoreTypes /\ LoopTypes
    /\ op \in [Customers -> Operations]
    /\ job \in [Supervisors -> Jobs]

----------------------------------------------------------------------------
(* What is known of a request while it goes on.                            *)

Saved(c) == \E i \in DOMAIN saves : saves[i] = c

Acknowledged(c, trace, rating) ==
    <<<<c, trace>>, rating>> \in accepted /\ rows[<<c, trace>>] # NoRow

\* The ratings of a transcript of this conversation are those Java has stored.
Backed(c, record) ==
    record # None =>
        \A i \in DOMAIN record :
            record[i].rating # None => Acknowledged(c, record[i].trace, record[i].rating)

\* The transcript a request means to write back has only such ratings, and it
\* rates an answer as Java has acknowledged.
OpSound(o) ==
    /\ o.pc # "idle" /\ o.pc # "list" => o.conv \in Conversations /\ o.trace \in Traces
    /\ o.pc \in {"rate", "rating", "submit", "upsert"} => o.rating \in Ratings
    /\ o.pc = "append" => o.seen \in Transcript \cup {None}
    /\ o.pc = "rating" => o.seen \in Transcript
    /\ o.pc \in {"append", "rating"} => Backed(o.conv, o.seen)
    /\ o.pc \in {"rate", "rating"} => Acknowledged(o.conv, o.trace, o.rating)
    /\ o.stale \subseteq expired
    /\ \A x \in o.todo : Saved(x[2])

Cased(b) == \E i \in DOMAIN cases : cases[i].bad = b

Named(j) ==
    /\ j.answer \in Answers /\ j.bad \in {<<j.answer, l>> : l \in Layers}
    /\ j.msg \in Messages /\ rows[j.answer] # NoRow

\* What a promotion or a run goes on from is still there.
JobSound(j) ==
    /\ j.pc = "register" => Named(j)
    /\ j.pc = "mark" => Named(j) /\ registry[j.bad] # None
    /\ j.pc \in {"write_case", "relink"} =>
          j.bad \in BadCaseIds /\ j.msg \in Messages /\ registry[j.bad] # None
    /\ j.pc = "relink" => Cased(j.bad)
    /\ j.pc = "run" => j.due \subseteq j.records /\ IsFiniteSet(j.records)

OpsInv == \A t \in Customers : OpSound(op[t])
JobsInv == \A s \in Supervisors : JobSound(job[s])

----------------------------------------------------------------------------
(* What is known of the stores.                                            *)

\* The last conjunct is that a conversation is only ever missing where it has
\* expired: NeverExpiredIsListed could otherwise be undone by a prune.
ListingInv ==
    /\ \A c \in Conversations : store[c] # None => Saved(c)
    /\ \A c \in Conversations \ expired : Saved(c) => store[c] # None /\ c \in index

RatedRows == \A a \in Answers : rows[a] # NoRow => rows[a].rating \in Ratings

StoreInv == SerialTranscript /\ ListingInv

LoopInv ==
    /\ RatedRows
    /\ IsFiniteSet({b \in BadCaseIds : registry[b] # None})
    /\ PromotionsAreBacked /\ CasesAreUnique /\ PassedRunsCoverPromotions

Inv == StoreInv /\ ShownRatingsAreStored /\ LoopInv /\ OpsInv /\ JobsInv

----------------------------------------------------------------------------
(* Positions in a sequence.                                                *)

LEMMA Smallest ==
    ASSUME NEW T, T \subseteq Nat, T # {}
    PROVE  \E x \in T : \A y \in T : x <= y
<1>1. PICK x \in T : \A y \in T : <<y, x>> \notin OpToRel(<, Nat)
  BY NatLessThanWellFounded, WFMin, Zenon
<1>2. \A y \in T : ~(y < x)
  BY <1>1, Zenon DEF OpToRel
<1>3. QED
  BY <1>2

LEMMA Largest ==
    ASSUME NEW n \in Nat, NEW T, T \subseteq 1 .. n, T # {}
    PROVE  \E x \in T : \A y \in T : x >= y
<1> DEFINE U == {n - i : i \in T}
<1>1. U \subseteq Nat /\ U # {}
  <2>1. \A i \in 1 .. n : n - i \in Nat
    OBVIOUS
  <2>2. QED
    BY <2>1, Zenon
<1>2. PICK u \in U : \A v \in U : u <= v
  BY <1>1, Smallest
<1>3. PICK x \in T : u = n - x
  OBVIOUS
<1>4. ASSUME NEW y \in T PROVE x >= y
  <2>1. n - y \in U
    OBVIOUS
  <2>2. n - x <= n - y /\ x \in 1 .. n /\ y \in 1 .. n
    BY <1>2, <1>3, <2>1
  <2>3. QED
    BY <2>2
<1>5. QED
  BY <1>4

\* set_assistant_feedback finds an answer with the trace id or none.
LEMMA AnswerFound ==
    ASSUME NEW record \in Transcript, NEW trace, AnswerAt(record, trace) # 0, None \notin Transcript
    PROVE  /\ AnswerAt(record, trace) \in DOMAIN record
           /\ record[AnswerAt(record, trace)].trace = trace
<1> DEFINE I == {i \in 1 .. Len(record) : record[i].trace = trace}
<1>1. record # None
  OBVIOUS
<1>2. AnswerAt(record, trace) = IF I # {} THEN Max(I) ELSE 0
  BY <1>1 DEF AnswerAt, SelectLastInSeq
<1>3. I # {} /\ AnswerAt(record, trace) = Max(I)
  BY <1>2
<1>4. Len(record) \in Nat /\ DOMAIN record = 1 .. Len(record)
  BY DEF Transcript
<1>5. \E x \in I : \A y \in I : x >= y
  <2>1. I \subseteq 1 .. Len(record)
    OBVIOUS
  <2> HIDE DEF I
  <2>2. QED
    BY <1>3, <1>4, <2>1, Largest
<1>6. Max(I) \in I
  <2> HIDE DEF I
  <2>1. QED
    BY <1>5 DEF Max
<1>7. QED
  BY <1>3, <1>4, <1>6

\* What a save makes of the order of the conversations.
LEMMA SavesKept ==
    ASSUME NEW s \in Seq(Conversations), NEW c \in Conversations
    PROVE  \E a \in Seq(Conversations) :
              /\ a = Append(RemoveFirst(s, c), c)
              /\ \E i \in DOMAIN a : a[i] = c
              /\ \A j \in DOMAIN s : \E i \in DOMAIN a : a[i] = s[j]
              /\ \A i \in DOMAIN a : a[i] = c \/ \E j \in DOMAIN s : a[i] = s[j]
<1> SUFFICES ASSUME NEW a, a = Append(RemoveFirst(s, c), c)
             PROVE  /\ a \in Seq(Conversations)
                    /\ \E i \in DOMAIN a : a[i] = c
                    /\ \A j \in DOMAIN s : \E i \in DOMAIN a : a[i] = s[j]
                    /\ \A i \in DOMAIN a : a[i] = c \/ \E j \in DOMAIN s : a[i] = s[j]
  BY Zenon
<1>1. CASE ~\E i \in 1 .. Len(s) : s[i] = c
  <2>1. RemoveFirst(s, c) = s
    BY <1>1 DEF RemoveFirst
  <2>2. QED
    BY <2>1
<1>2. CASE \E i \in 1 .. Len(s) : s[i] = c
  <2> DEFINE I == {i \in 1 .. Len(s) : s[i] = c}
             k == Min(I)
             r == SubSeq(s, 1, k - 1) \o SubSeq(s, k + 1, Len(s))
  <2>1. RemoveFirst(s, c) = r
    BY <1>2 DEF RemoveFirst, RemoveAt, SelectInSeq
  <2>2. k \in I
    <3>1. I \subseteq Nat /\ I # {}
      BY <1>2
    <3> HIDE DEF I
    <3>2. \E x \in I : \A y \in I : x <= y
      BY <3>1, Smallest
    <3>3. QED
      BY <3>2 DEF Min
  <2>3. k \in 1 .. Len(s) /\ s[k] = c
    BY <2>2
  <2> HIDE DEF k
  <2> DEFINE before == SubSeq(s, 1, k - 1)
             after == SubSeq(s, k + 1, Len(s))
  <2>4. /\ before \in Seq(Conversations) /\ Len(before) = k - 1
        /\ \A i \in 1 .. k - 1 : before[i] = s[i]
    BY <2>3
  <2>5. /\ after \in Seq(Conversations) /\ Len(after) = Len(s) - k
        /\ \A i \in 1 .. Len(s) - k : after[i] = s[k + i]
    BY <2>3
  <2>6. r = before \o after
    OBVIOUS
  <2> HIDE DEF before, after, r
  <2>7. /\ r \in Seq(Conversations) /\ Len(r) = Len(s) - 1
        /\ \A i \in 1 .. Len(s) - 1 :
              r[i] = IF i <= k - 1 THEN before[i] ELSE after[i - (k - 1)]
    <3>1. /\ r \in Seq(Conversations) /\ Len(r) = Len(before) + Len(after)
          /\ \A i \in 1 .. Len(before) + Len(after) :
                r[i] = IF i <= Len(before) THEN before[i] ELSE after[i - Len(before)]
      BY <2>4, <2>5, <2>6, ConcatProperties
    <3>2. Len(before) + Len(after) = Len(s) - 1
      BY <2>3, <2>4, <2>5
    <3>3. QED
      BY <2>4, <3>1, <3>2
  <2>8. /\ a \in Seq(Conversations) /\ Len(a) = Len(s) /\ a[Len(s)] = c
        /\ \A i \in 1 .. Len(s) - 1 : a[i] = r[i]
    BY <2>1, <2>3, <2>7
  <2>9. \A i \in 1 .. k - 1 : i \in DOMAIN a /\ a[i] = s[i]
    <3>1. ASSUME NEW i \in 1 .. k - 1 PROVE i \in DOMAIN a /\ a[i] = s[i]
      <4>1. i \in 1 .. Len(s) - 1 /\ i <= k - 1 /\ i \in 1 .. Len(s)
        BY <2>3
      <4>2. QED
        BY <2>4, <2>7, <2>8, <4>1
    <3>2. QED
      BY <3>1
  <2>10. \A i \in k .. Len(s) - 1 : i \in DOMAIN a /\ a[i] = s[i + 1]
    <3>1. ASSUME NEW i \in k .. Len(s) - 1 PROVE i \in DOMAIN a /\ a[i] = s[i + 1]
      <4>1. i \in 1 .. Len(s) - 1 /\ ~(i <= k - 1) /\ i - (k - 1) \in 1 .. Len(s) - k
            /\ k + (i - (k - 1)) = i + 1
        BY <2>3
      <4>2. QED
        BY <2>5, <2>7, <2>8, <4>1
    <3>2. QED
      BY <3>1
  <2>11. ASSUME NEW j \in DOMAIN s PROVE \E i \in DOMAIN a : a[i] = s[j]
    <3>1. CASE j < k
      BY <2>3, <2>9, <3>1
    <3>2. CASE j = k
      BY <2>3, <2>8, <3>2
    <3>3. CASE j > k
      <4>1. j - 1 \in k .. Len(s) - 1 /\ (j - 1) + 1 = j
        BY <2>3, <3>3
      <4>2. QED
        BY <2>10, <4>1
    <3>4. QED
      BY <2>3, <3>1, <3>2, <3>3
  <2>12. ASSUME NEW i \in DOMAIN a PROVE a[i] = c \/ \E j \in DOMAIN s : a[i] = s[j]
    <3>1. i \in 1 .. Len(s)
      BY <2>8
    <3>2. CASE i < k
      BY <2>3, <2>9, <3>1, <3>2
    <3>3. CASE i >= k /\ i # Len(s)
      <4>1. i \in k .. Len(s) - 1 /\ i + 1 \in DOMAIN s
        BY <2>3, <3>1, <3>3
      <4>2. QED
        BY <2>10, <4>1
    <3>4. CASE i = Len(s)
      BY <2>8, <3>4
    <3>5. QED
      BY <2>3, <3>1, <3>2, <3>3, <3>4
  <2>13. \E i \in DOMAIN a : a[i] = c
    BY <2>3, <2>8
  <2>14. QED
    BY <2>8, <2>11, <2>12, <2>13
<1>3. QED
  BY <1>1, <1>2

----------------------------------------------------------------------------
(* Transcripts.                                                            *)

\* append_exchange keeps the ratings that are there and adds none.
LEMMA ExtendedKeeps ==
    ASSUME NEW record \in Transcript \cup {None}, NEW trace \in Traces
    PROVE  /\ Extended(record, trace) \in Transcript
           /\ \A i \in DOMAIN Extended(record, trace) :
                 Extended(record, trace)[i].rating # None =>
                    /\ record # None
                    /\ \E j \in DOMAIN record : record[j] = Extended(record, trace)[i]
<1> DEFINE base == IF record = None THEN <<>> ELSE record
           new == [trace |-> trace, rating |-> None]
           all == base \o <<new>>
           first == IF Len(all) > MaxExchanges THEN Len(all) - MaxExchanges + 1 ELSE 1
           e == SubSeq(all, first, Len(all))
<1>1. Extended(record, trace) = e
  BY DEF Extended, Newest
<1>2. base \in Seq(Exchange) /\ <<new>> \in Seq(Exchange)
  BY DEF Transcript, Exchange
<1>3. Len(<<new>>) = 1 /\ <<new>>[1] = new
  OBVIOUS
<1>4. base # <<>> => record # None /\ base = record
  OBVIOUS
<1> HIDE DEF base
<1>5. /\ all \in Seq(Exchange) /\ Len(all) = Len(base) + 1
      /\ \A i \in 1 .. Len(base) + 1 : all[i] = IF i <= Len(base) THEN base[i] ELSE <<new>>[i - Len(base)]
  BY <1>2, <1>3, ConcatProperties
<1>6. Len(base) \in Nat
  BY <1>2
<1>7. \A i \in DOMAIN all : all[i] = new \/ (i \in DOMAIN base /\ all[i] = base[i])
  BY <1>2, <1>3, <1>5, <1>6
<1> HIDE DEF all
<1>8. first \in Nat \ {0} /\ Len(all) \in Nat /\ first <= Len(all)
  BY <1>5, <1>6, ConversationAssumption
<1> HIDE DEF first
<1>9. \A i \in first .. Len(all) : all[i] \in Exchange
  BY <1>5, <1>8
<1>10. /\ e \in Seq(Exchange) /\ Len(e) = Len(all) - first + 1
       /\ \A i \in 1 .. Len(all) - first + 1 : e[i] = all[first + i - 1]
  BY <1>8, <1>9, SubSeqProperties
<1> HIDE DEF e
<1>11. ASSUME NEW i \in DOMAIN e, e[i].rating # None
       PROVE  record # None /\ \E j \in DOMAIN record : record[j] = e[i]
  <2>1. i \in 1 .. Len(all) - first + 1 /\ first + i - 1 \in DOMAIN all
    BY <1>5, <1>8, <1>10
  <2>2. PICK j \in DOMAIN all : e[i] = all[j]
    BY <1>10, <2>1
  <2>3. j \in DOMAIN base /\ e[i] = base[j]
    BY <1>7, <1>11, <2>2
  <2>4. QED
    BY <1>2, <1>4, <2>3
<1>12. QED
  BY <1>1, <1>10, <1>11 DEF Transcript

\* set_assistant_feedback rates that answer and leaves the others alone.
LEMMA RatedKeeps ==
    ASSUME NEW record \in Transcript, NEW trace \in Traces, NEW rating \in Ratings
    PROVE  /\ Rated(record, trace, rating) \in Transcript
           /\ \A i \in DOMAIN Rated(record, trace, rating) :
                 /\ i \in DOMAIN record
                 /\ \/ Rated(record, trace, rating)[i] = record[i]
                    \/ /\ Rated(record, trace, rating)[i].trace = trace
                       /\ Rated(record, trace, rating)[i].rating = rating
<1> DEFINE k == AnswerAt(record, trace)
           e == [record EXCEPT ![k].rating = rating]
<1>1. CASE k = 0
  BY <1>1 DEF Rated
<1>2. CASE k # 0
  <2>1. Rated(record, trace, rating) = e
    BY <1>2 DEF Rated
  <2>2. k \in DOMAIN record /\ record[k].trace = trace
    BY <1>2, AnswerFound, ConversationAssumption
  <2> HIDE DEF k
  <2>3. record[k] \in Exchange
    BY <2>2 DEF Transcript
  <2>4. PICK x \in Exchange : x = [record[k] EXCEPT !.rating = rating]
    BY <2>3 DEF Exchange
  <2>5. x.trace = trace /\ x.rating = rating
    BY <2>2, <2>3, <2>4 DEF Exchange
  <2>6. e = [record EXCEPT ![k] = x]
    BY <2>4
  <2>7. e \in Seq(Exchange) /\ DOMAIN e = DOMAIN record
    BY <2>2, <2>6 DEF Transcript
  <2>8. \A i \in DOMAIN record : e[i] = IF i = k THEN x ELSE record[i]
    BY <2>2, <2>6 DEF Transcript
  <2> HIDE DEF e
  <2>9. QED
    BY <2>1, <2>5, <2>7, <2>8 DEF Transcript
<1>3. QED
  BY <1>1, <1>2

----------------------------------------------------------------------------
(* What is known stays known while the stores grow.                        *)

RowsKept == \A a \in Answers : rows[a] # NoRow => rows'[a] # NoRow
SavesGrow == \A c \in Conversations : Saved(c) => Saved(c)'

LEMMA AcknowledgedKept ==
    ASSUME LoopTypes, accepted \subseteq accepted', RowsKept,
           NEW c, NEW trace, NEW rating, Acknowledged(c, trace, rating)
    PROVE  Acknowledged(c, trace, rating)'
<1>1. <<c, trace>> \in Answers
  BY DEF Acknowledged, LoopTypes
<1>2. QED
  BY <1>1 DEF Acknowledged, RowsKept

LEMMA BackedKept ==
    ASSUME LoopTypes, accepted \subseteq accepted', RowsKept,
           NEW c, NEW record, Backed(c, record)
    PROVE  Backed(c, record)'
<1>1. ASSUME record # None, NEW i \in DOMAIN record, record[i].rating # None
      PROVE  Acknowledged(c, record[i].trace, record[i].rating)'
  <2>1. Acknowledged(c, record[i].trace, record[i].rating)
    BY <1>1 DEF Backed
  <2>2. QED
    BY <2>1, AcknowledgedKept
<1>2. QED
  BY <1>1 DEF Backed

LEMMA OpKept ==
    ASSUME LoopTypes, accepted \subseteq accepted', RowsKept, SavesGrow,
           expired \subseteq expired', NEW o \in Operations, OpSound(o)
    PROVE  OpSound(o)'
<1>1. o.pc \in {"append", "rating"} => Backed(o.conv, o.seen)'
  BY BackedKept DEF OpSound
<1>2. o.pc \in {"rate", "rating"} => Acknowledged(o.conv, o.trace, o.rating)'
  BY AcknowledgedKept DEF OpSound
<1>3. \A x \in o.todo : Saved(x[2])'
  <2>1. \A x \in o.todo : x[2] \in Conversations /\ Saved(x[2])
    BY DEF OpSound, Operations
  <2>2. QED
    BY <2>1 DEF SavesGrow
<1>4. QED
  BY <1>1, <1>2, <1>3 DEF OpSound

----------------------------------------------------------------------------
(* One request moves.                                                      *)

LEMMA NoOpSound == NoOp \in Operations /\ OpSound(NoOp)
BY DEF NoOp, Operations, OpSound

LEMMA OpsFrame ==
    ASSUME TypeOK, OpsInv, accepted \subseteq accepted', RowsKept, SavesGrow,
           expired \subseteq expired', op' = op
    PROVE  OpsInv'
<1>1. ASSUME NEW t \in Customers PROVE OpSound(op[t])'
  <2>1. PICK o \in Operations : o = op[t]
    BY DEF TypeOK
  <2>2. OpSound(o)'
    BY <2>1, OpKept DEF OpsInv, TypeOK
  <2>3. op'[t] = o
    BY <2>1
  <2>4. QED
    BY <2>2, <2>3 DEF OpSound, Backed, Acknowledged, Saved
<1>2. QED
  BY <1>1 DEF OpsInv

LEMMA OpMoves ==
    ASSUME TypeOK, OpsInv, NEW t \in Customers, NEW o \in Operations,
           op' = [op EXCEPT ![t] = o], OpSound(o)',
           accepted \subseteq accepted', RowsKept, SavesGrow, expired \subseteq expired'
    PROVE  op' \in [Customers -> Operations] /\ OpsInv'
<1>1. op' \in [Customers -> Operations]
  BY DEF TypeOK
<1>2. ASSUME NEW u \in Customers PROVE OpSound(op[u])'
  <2>1. PICK q \in Operations : q = IF u = t THEN o ELSE op[u]
    BY DEF TypeOK
  <2>2. OpSound(q)'
    <3>1. CASE u = t
      <4>1. q = o
        BY <2>1, <3>1
      <4>2. QED
        BY <4>1
    <3>2. CASE u # t
      <4>1. q = op[u]
        BY <2>1, <3>2
      <4>2. QED
        BY <4>1, OpKept DEF OpsInv, TypeOK
    <3>3. QED
      BY <3>1, <3>2
  <2>3. op'[u] = q
    BY <2>1 DEF TypeOK
  <2>4. QED
    BY <2>2, <2>3 DEF OpSound, Backed, Acknowledged, Saved
<1>3. QED
  BY <1>1, <1>2 DEF OpsInv

\* A step of a customer's request that changes no store.
LEMMA OpOnly ==
    ASSUME TypeOK, Inv, NEW t \in Customers, NEW o \in Operations,
           op' = [op EXCEPT ![t] = o], OpSound(o),
           UNCHANGED <<store, saves, index, serial, overlapped, expired, feedbackVars>>
    PROVE  TypeOK' /\ Inv'
<1>1. accepted \subseteq accepted' /\ RowsKept /\ SavesGrow /\ expired \subseteq expired'
  BY DEF RowsKept, SavesGrow, Saved, feedbackVars
<1>2. OpSound(o)'
  BY <1>1, OpKept DEF TypeOK
<1>3. op' \in [Customers -> Operations] /\ OpsInv'
  BY <1>1, <1>2, OpMoves DEF Inv
<1>4. TypeOK'
  BY <1>3 DEF TypeOK, StoreTypes, LoopTypes, feedbackVars
<1>5. StoreInv' /\ ShownRatingsAreStored' /\ LoopInv'
  <2>1. StoreInv'
    BY DEF Inv, StoreInv, SerialTranscript, ListingInv, Saved
  <2>2. ShownRatingsAreStored'
    BY DEF Inv, ShownRatingsAreStored, feedbackVars
  <2>3. RatedRows' /\ IsFiniteSet({b \in BadCaseIds : registry[b] # None})'
    BY DEF Inv, LoopInv, RatedRows, feedbackVars
  <2>4. PromotionsAreBacked' /\ CasesAreUnique' /\ PassedRunsCoverPromotions'
    BY DEF Inv, LoopInv, PromotionsAreBacked, CasesAreUnique, PassedRunsCoverPromotions, feedbackVars
  <2>5. QED
    BY <2>1, <2>2, <2>3, <2>4 DEF LoopInv
<1>6. JobsInv'
  BY DEF Inv, JobsInv, JobSound, Named, Cased, feedbackVars
<1>7. QED
  BY <1>3, <1>4, <1>5, <1>6 DEF Inv

\* A request ends.
LEMMA OpEnds ==
    ASSUME TypeOK, Inv, NEW t \in Customers, op' = [op EXCEPT ![t] = NoOp],
           UNCHANGED <<store, saves, index, serial, overlapped, expired, feedbackVars>>
    PROVE  TypeOK' /\ Inv'
<1>1. PICK o \in Operations : o = NoOp /\ OpSound(o)
  BY NoOpSound
<1>2. QED
  BY <1>1, OpOnly

LEMMA AppendReadInv ==
    ASSUME TypeOK, Inv, NEW t \in Customers, AppendRead(t), UNCHANGED feedbackVars
    PROVE  TypeOK' /\ Inv'
<1>1. PICK c \in Conversations, tr \in Traces :
        op' = [op EXCEPT ![t] = [NoOp EXCEPT !.pc = "append", !.conv = c, !.trace = tr, !.seen = store[c]]]
  BY DEF AppendRead
<1>2. store[c] \in Transcript \cup {None} /\ Backed(c, store[c])
  BY DEF TypeOK, StoreTypes, Inv, ShownRatingsAreStored, Backed, Acknowledged
<1>3. [NoOp EXCEPT !.pc = "append", !.conv = c, !.trace = tr, !.seen = store[c]] \in Operations
  BY <1>2 DEF NoOp, Operations
<1>4. PICK o \in Operations :
        /\ op' = [op EXCEPT ![t] = o]
        /\ o.pc = "append" /\ o.conv = c /\ o.trace = tr /\ o.seen = store[c]
        /\ o.todo = {} /\ o.stale = {}
  BY <1>1, <1>3 DEF NoOp
<1>5. Backed(o.conv, o.seen)
  BY <1>2, <1>4
<1>6. OpSound(o)
  BY <1>2, <1>4, <1>5 DEF OpSound
<1>7. QED
  BY <1>4, <1>6, OpOnly DEF AppendRead

LEMMA RateReadInv ==
    ASSUME TypeOK, Inv, NEW t \in Customers, RateRead(t), UNCHANGED feedbackVars
    PROVE  TypeOK' /\ Inv'
<1>1. PICK q \in Operations : q = op[t] /\ OpSound(q) /\ q.pc = "rate"
  BY DEF TypeOK, Inv, OpsInv, RateRead
<1>2. q.conv \in Conversations /\ q.trace \in Traces /\ q.rating \in Ratings
      /\ Acknowledged(q.conv, q.trace, q.rating)
  BY <1>1 DEF OpSound
<1> DEFINE record == store[q.conv]
<1>3. record \in Transcript \cup {None} /\ Backed(q.conv, record)
  BY <1>2 DEF TypeOK, StoreTypes, Inv, ShownRatingsAreStored, Backed, Acknowledged
<1>4. CASE AnswerAt(record, q.trace) = 0
  <2>1. op' = [op EXCEPT ![t] = NoOp]
    BY <1>1, <1>4 DEF RateRead
  <2>2. QED
    BY <2>1, OpEnds DEF RateRead
<1>5. CASE AnswerAt(record, q.trace) # 0
  <2>1. record \in Transcript
    BY <1>3, <1>5 DEF AnswerAt
  <2>2. op' = [op EXCEPT ![t] = [q EXCEPT !.pc = "rating", !.seen = record]]
    BY <1>1, <1>5 DEF RateRead
  <2>3. [q EXCEPT !.pc = "rating", !.seen = record] \in Operations
    BY <2>1 DEF Operations
  <2>4. PICK o \in Operations :
          /\ op' = [op EXCEPT ![t] = o]
          /\ o.pc = "rating" /\ o.conv = q.conv /\ o.trace = q.trace /\ o.rating = q.rating
          /\ o.seen = record /\ o.todo = q.todo /\ o.stale = q.stale
    BY <2>2, <2>3 DEF Operations
  <2>5. Backed(o.conv, o.seen) /\ Acknowledged(o.conv, o.trace, o.rating)
    BY <1>2, <1>3, <2>4
  <2>6. OpSound(o)
    BY <1>1, <1>2, <2>1, <2>4, <2>5 DEF OpSound
  <2>7. QED
    BY <2>4, <2>6, OpOnly DEF RateRead
<1>6. QED
  BY <1>4, <1>5

LEMMA StoreFailsInv ==
    ASSUME TypeOK, Inv, NEW t \in Customers, StoreFails(t), UNCHANGED feedbackVars
    PROVE  TypeOK' /\ Inv'
BY OpEnds DEF StoreFails

LEMMA ListIdsInv ==
    ASSUME TypeOK, Inv, NEW t \in Customers, ListIds(t), UNCHANGED feedbackVars
    PROVE  TypeOK' /\ Inv'
<1>1. PICK last \in DOMAIN saves :
        op' = [op EXCEPT ![t] = [NoOp EXCEPT !.pc = "list",
                 !.todo = {<<i, saves[i]>> : i \in {j \in last..Len(saves) : saves[j] \in index}}]]
  BY DEF ListIds
<1>2. saves \in Seq(Conversations)
  BY DEF TypeOK, StoreTypes
<1>3. PICK todo : todo = {<<i, saves[i]>> : i \in {j \in last..Len(saves) : saves[j] \in index}}
  OBVIOUS
<1>4. ASSUME NEW x \in todo PROVE x \in Nat \X Conversations /\ Saved(x[2])
  <2>1. PICK i \in last..Len(saves) : x = <<i, saves[i]>>
    BY <1>3
  <2>2. i \in DOMAIN saves /\ i \in Nat
    BY <1>1, <1>2
  <2>3. saves[i] \in Conversations
    BY <1>2, <2>2
  <2>4. QED
    BY <2>1, <2>2, <2>3 DEF Saved
<1>5. op' = [op EXCEPT ![t] = [NoOp EXCEPT !.pc = "list", !.todo = todo]]
  BY <1>1, <1>3
<1>6. [NoOp EXCEPT !.pc = "list", !.todo = todo] \in Operations
  BY <1>4 DEF NoOp, Operations
<1>7. PICK o \in Operations :
        /\ op' = [op EXCEPT ![t] = o] /\ o.pc = "list" /\ o.todo = todo /\ o.stale = {}
  BY <1>5, <1>6 DEF NoOp
<1>8. OpSound(o)
  BY <1>4, <1>7 DEF OpSound
<1>9. QED
  BY <1>7, <1>8, OpOnly DEF ListIds

LEMMA ListGetInv ==
    ASSUME TypeOK, Inv, NEW t \in Customers, ListGet(t), UNCHANGED feedbackVars
    PROVE  TypeOK' /\ Inv'
<1>1. PICK q \in Operations : q = op[t] /\ OpSound(q) /\ q.pc = "list"
  BY DEF TypeOK, Inv, OpsInv, ListGet
<1>2. PICK x \in q.todo :
        op' = [op EXCEPT ![t].todo = @ \ {x},
                         ![t].stale = IF store[x[2]] = None THEN @ \cup {x[2]} ELSE @]
  BY <1>1 DEF ListGet
<1>3. PICK stale : stale = IF store[x[2]] = None THEN q.stale \cup {x[2]} ELSE q.stale
  OBVIOUS
<1>4. x[2] \in Conversations /\ Saved(x[2])
  BY <1>1 DEF OpSound, Operations
\* A conversation that was saved and is gone has expired.
<1>5. store[x[2]] = None => x[2] \in expired
  BY <1>4 DEF Inv, StoreInv, ListingInv
<1>6. stale \subseteq expired /\ stale \subseteq Conversations
  BY <1>1, <1>3, <1>4, <1>5 DEF OpSound, Operations
<1>7. op' = [op EXCEPT ![t] = [q EXCEPT !.todo = q.todo \ {x}, !.stale = stale]]
  BY <1>1, <1>2, <1>3
<1>8. [q EXCEPT !.todo = q.todo \ {x}, !.stale = stale] \in Operations
  BY <1>6 DEF Operations
<1>9. PICK o \in Operations :
        /\ op' = [op EXCEPT ![t] = o] /\ o.pc = "list"
        /\ o.todo = q.todo \ {x} /\ o.stale = stale
  BY <1>1, <1>7, <1>8 DEF Operations
<1>10. OpSound(o)
  BY <1>1, <1>6, <1>9 DEF OpSound
<1>11. QED
  BY <1>9, <1>10, OpOnly DEF ListGet

\* The stores of the feedback loop and its jobs are left alone.
LEMMA LoopFrame ==
    ASSUME Inv, UNCHANGED feedbackVars
    PROVE  LoopInv' /\ JobsInv'
<1>1. RatedRows' /\ IsFiniteSet({b \in BadCaseIds : registry[b] # None})'
  BY DEF Inv, LoopInv, RatedRows, feedbackVars
<1>2. PromotionsAreBacked' /\ CasesAreUnique' /\ PassedRunsCoverPromotions'
  BY DEF Inv, LoopInv, PromotionsAreBacked, CasesAreUnique, PassedRunsCoverPromotions, feedbackVars
<1>3. JobsInv'
  BY DEF Inv, JobsInv, JobSound, Named, Cased, feedbackVars
<1>4. QED
  BY <1>1, <1>2, <1>3 DEF LoopInv

LEMMA ListPruneInv ==
    ASSUME TypeOK, Inv, NEW t \in Customers, ListPrune(t), UNCHANGED feedbackVars
    PROVE  TypeOK' /\ Inv'
<1>1. PICK stale \in SUBSET Conversations : stale = op[t].stale /\ stale \subseteq expired
  BY DEF TypeOK, Operations, Inv, OpsInv, OpSound
<1>2. index' = index \ stale /\ op' = [op EXCEPT ![t] = NoOp]
      /\ UNCHANGED <<store, saves, serial, overlapped, expired>>
  BY <1>1 DEF ListPrune
<1>3. accepted \subseteq accepted' /\ RowsKept /\ SavesGrow /\ expired \subseteq expired'
  BY <1>2 DEF RowsKept, SavesGrow, Saved, feedbackVars
<1>4. PICK o \in Operations : o = NoOp /\ OpSound(o)
  BY NoOpSound
<1>5. OpSound(o)'
  BY <1>3, <1>4, OpKept DEF TypeOK
<1>6. op' \in [Customers -> Operations] /\ OpsInv'
  BY <1>2, <1>3, <1>4, <1>5, OpMoves DEF Inv
<1>7. TypeOK'
  BY <1>1, <1>2, <1>6 DEF TypeOK, StoreTypes, LoopTypes, feedbackVars
<1>8. StoreInv'
  BY <1>1, <1>2 DEF Inv, StoreInv, SerialTranscript, ListingInv, Saved
<1>9. ShownRatingsAreStored'
  BY <1>2 DEF Inv, ShownRatingsAreStored, feedbackVars
<1>10. QED
  BY <1>6, <1>7, <1>8, <1>9, LoopFrame DEF Inv

LEMMA FindAnswerInv ==
    ASSUME TypeOK, Inv, NEW t \in Customers, FindAnswer(t)
    PROVE  TypeOK' /\ Inv'
<1>1. PICK c \in Conversations, tr \in Traces, r \in Ratings :
        op' = [op EXCEPT ![t] = [NoOp EXCEPT !.pc = "submit", !.conv = c, !.trace = tr, !.rating = r]]
  BY DEF FindAnswer
<1>2. [NoOp EXCEPT !.pc = "submit", !.conv = c, !.trace = tr, !.rating = r] \in Operations
  BY DEF NoOp, Operations
<1>3. PICK o \in Operations :
        /\ op' = [op EXCEPT ![t] = o]
        /\ o.pc = "submit" /\ o.conv = c /\ o.trace = tr /\ o.rating = r
        /\ o.todo = {} /\ o.stale = {}
  BY <1>1, <1>2 DEF NoOp
<1>4. OpSound(o)
  BY <1>3 DEF OpSound
<1>5. QED
  BY <1>3, <1>4, OpOnly DEF FindAnswer

LEMMA UpsertSelectInv ==
    ASSUME TypeOK, Inv, NEW t \in Customers, UpsertSelect(t)
    PROVE  TypeOK' /\ Inv'
<1>1. PICK q \in Operations : q = op[t] /\ OpSound(q) /\ q.pc = "submit"
  BY DEF TypeOK, Inv, OpsInv, UpsertSelect
<1>2. q.conv \in Conversations /\ q.trace \in Traces /\ q.rating \in Ratings
  BY <1>1 DEF OpSound
<1>3. PICK row \in Row : row = rows[<<q.conv, q.trace>>]
  BY <1>2 DEF TypeOK, LoopTypes, Answers
<1>4. op' = [op EXCEPT ![t] = [q EXCEPT !.pc = "upsert", !.seen = row]]
  BY <1>1, <1>3 DEF UpsertSelect
<1>5. [q EXCEPT !.pc = "upsert", !.seen = row] \in Operations
  BY DEF Operations
<1>6. PICK o \in Operations :
        /\ op' = [op EXCEPT ![t] = o]
        /\ o.pc = "upsert" /\ o.conv = q.conv /\ o.trace = q.trace /\ o.rating = q.rating
        /\ o.todo = q.todo /\ o.stale = q.stale
  BY <1>4, <1>5 DEF Operations
<1>7. OpSound(o)
  BY <1>1, <1>2, <1>6 DEF OpSound
<1>8. QED
  BY <1>6, <1>7, OpOnly DEF UpsertSelect

LEMMA SubmitFailsInv ==
    ASSUME TypeOK, Inv, NEW t \in Customers, SubmitFails(t)
    PROVE  TypeOK' /\ Inv'
BY OpEnds DEF SubmitFails

----------------------------------------------------------------------------
(* A transcript is saved, or expires.                                      *)

LEMMA SaveInv ==
    ASSUME TypeOK, Inv, NEW t \in Customers, NEW c \in Conversations, c = op[t].conv,
           NEW record \in Transcript, NEW effect \in Transcript \cup {None},
           Save(t, record, effect), Backed(c, record),
           c \notin overlapped /\ store[c] = op[t].seen => record = effect,
           UNCHANGED feedbackVars
    PROVE  TypeOK' /\ Inv'
<1>1. /\ store' = [store EXCEPT ![c] = record]
      /\ saves' = Append(RemoveFirst(saves, c), c)
      /\ index' = index \cup {c}
      /\ serial' = [serial EXCEPT ![c] = effect]
      /\ overlapped' = IF store[c] = op[t].seen THEN overlapped ELSE overlapped \cup {c}
      /\ op' = [op EXCEPT ![t] = NoOp]
      /\ expired' = expired
  BY DEF Save
<1>2. /\ saves' \in Seq(Conversations)
      /\ \E i \in DOMAIN saves' : saves'[i] = c
      /\ \A j \in DOMAIN saves : \E i \in DOMAIN saves' : saves'[i] = saves[j]
      /\ \A i \in DOMAIN saves' : saves'[i] = c \/ \E j \in DOMAIN saves : saves'[i] = saves[j]
  <2>1. PICK before \in Seq(Conversations) : before = saves
    BY DEF TypeOK, StoreTypes
  <2>2. PICK after \in Seq(Conversations) :
          /\ after = Append(RemoveFirst(before, c), c)
          /\ \E i \in DOMAIN after : after[i] = c
          /\ \A j \in DOMAIN before : \E i \in DOMAIN after : after[i] = before[j]
          /\ \A i \in DOMAIN after : after[i] = c \/ \E j \in DOMAIN before : after[i] = before[j]
    BY SavesKept, Zenon
  <2>3. saves' = after
    BY <1>1, <2>1, <2>2, Zenon
  <2>4. \E i \in DOMAIN saves' : saves'[i] = c
    BY <2>2, <2>3
  <2>5. \A j \in DOMAIN saves : \E i \in DOMAIN saves' : saves'[i] = saves[j]
    BY <2>1, <2>2, <2>3
  <2>6. \A i \in DOMAIN saves' : saves'[i] = c \/ \E j \in DOMAIN saves : saves'[i] = saves[j]
    BY <2>1, <2>2, <2>3
  <2>7. QED
    BY <2>2, <2>3, <2>4, <2>5, <2>6
<1>3. \A d \in Conversations : Saved(d)' <=> (d = c \/ Saved(d))
  BY <1>2 DEF Saved
<1>4. accepted \subseteq accepted' /\ RowsKept /\ SavesGrow /\ expired \subseteq expired'
  BY <1>1, <1>3 DEF RowsKept, SavesGrow, feedbackVars
<1>5. op' \in [Customers -> Operations] /\ OpsInv'
  <2>1. PICK o \in Operations : o = NoOp /\ OpSound(o)
    BY NoOpSound
  <2>2. OpSound(o)'
    BY <1>4, <2>1, OpKept DEF TypeOK
  <2>3. QED
    BY <1>1, <1>4, <2>1, <2>2, OpMoves DEF Inv
<1>6. TypeOK'
  <2>1. StoreTypes'
    BY <1>1, <1>2 DEF TypeOK, StoreTypes
  <2>2. LoopTypes' /\ job' \in [Supervisors -> Jobs]
    BY DEF TypeOK, LoopTypes, feedbackVars
  <2>3. QED
    BY <1>5, <2>1, <2>2 DEF TypeOK
<1>7. \A d \in Conversations :
        /\ store'[d] = IF d = c THEN record ELSE store[d]
        /\ serial'[d] = IF d = c THEN effect ELSE serial[d]
  BY <1>1 DEF TypeOK, StoreTypes
<1>8. SerialTranscript'
  <2>1. ASSUME NEW d \in Conversations, d \notin overlapped' PROVE store'[d] = serial'[d]
    <3>1. CASE d = c
      BY <1>1, <1>7, <2>1, <3>1
    <3>2. CASE d # c
      BY <1>1, <1>7, <2>1, <3>2 DEF Inv, StoreInv, SerialTranscript
    <3>3. QED
      BY <3>1, <3>2
  <2>2. QED
    BY <2>1 DEF SerialTranscript
<1>9. ListingInv'
  <2>1. record # None
    BY ConversationAssumption
  <2>2. QED
    BY <1>1, <1>3, <1>7, <2>1 DEF Inv, StoreInv, ListingInv
<1>10. ShownRatingsAreStored'
  <2>1. ASSUME NEW d \in Conversations PROVE Backed(d, store'[d])
    <3>1. CASE d = c
      BY <1>7, <3>1
    <3>2. CASE d # c
      BY <1>7, <3>2 DEF Inv, ShownRatingsAreStored, Backed, Acknowledged
    <3>3. QED
      BY <3>1, <3>2
  <2>2. rows' = rows /\ accepted' = accepted
    BY DEF feedbackVars
  <2>3. QED
    BY <2>1, <2>2 DEF ShownRatingsAreStored, Backed, Acknowledged
<1>11. QED
  BY <1>5, <1>6, <1>8, <1>9, <1>10, LoopFrame DEF Inv, StoreInv

LEMMA AppendSaveInv ==
    ASSUME TypeOK, Inv, NEW t \in Customers, AppendSave(t), UNCHANGED feedbackVars
    PROVE  TypeOK' /\ Inv'
<1>1. PICK q \in Operations : q = op[t] /\ OpSound(q) /\ q.pc = "append"
  BY DEF TypeOK, Inv, OpsInv, AppendSave
<1>2. /\ q.conv \in Conversations /\ q.trace \in Traces /\ q.seen \in Transcript \cup {None}
      /\ Backed(q.conv, q.seen)
  BY <1>1 DEF OpSound
<1>3. PICK record \in Transcript :
        /\ record = Extended(q.seen, q.trace)
        /\ \A i \in DOMAIN record : record[i].rating # None =>
              q.seen # None /\ \E j \in DOMAIN q.seen : q.seen[j] = record[i]
  <2>1. PICK seen \in Transcript \cup {None}, trace \in Traces : seen = q.seen /\ trace = q.trace
    BY <1>2
  <2>2. PICK record \in Transcript :
          /\ record = Extended(seen, trace)
          /\ \A i \in DOMAIN record : record[i].rating # None =>
                seen # None /\ \E j \in DOMAIN seen : seen[j] = record[i]
    BY ExtendedKeeps, Zenon
  <2>3. QED
    BY <2>1, <2>2
<1>4. PICK effect \in Transcript : effect = Extended(serial[q.conv], q.trace)
  BY <1>2, ExtendedKeeps DEF TypeOK, StoreTypes
<1>5. Save(t, record, effect)
  BY <1>1, <1>3, <1>4 DEF AppendSave
<1>6. Backed(q.conv, record)
  <2>1. ASSUME NEW i \in DOMAIN record, record[i].rating # None
        PROVE  q.seen # None /\ \E j \in DOMAIN q.seen : q.seen[j] = record[i]
    BY <1>3, <2>1
  <2>2. QED
    BY <1>2, <2>1 DEF Backed
<1>7. q.conv \notin overlapped /\ store[q.conv] = op[t].seen => record = effect
  BY <1>1, <1>2, <1>3, <1>4 DEF Inv, StoreInv, SerialTranscript
<1>8. QED
  BY <1>1, <1>2, <1>5, <1>6, <1>7, SaveInv

LEMMA RateSaveInv ==
    ASSUME TypeOK, Inv, NEW t \in Customers, RateSave(t), UNCHANGED feedbackVars
    PROVE  TypeOK' /\ Inv'
<1>1. PICK q \in Operations : q = op[t] /\ OpSound(q) /\ q.pc = "rating"
  BY DEF TypeOK, Inv, OpsInv, RateSave
<1>2. /\ q.conv \in Conversations /\ q.trace \in Traces /\ q.rating \in Ratings
      /\ q.seen \in Transcript /\ Backed(q.conv, q.seen)
      /\ Acknowledged(q.conv, q.trace, q.rating)
  BY <1>1 DEF OpSound
<1>3. PICK record \in Transcript : record = Rated(q.seen, q.trace, q.rating)
  BY <1>2, RatedKeeps
<1>4. PICK effect \in Transcript \cup {None} : effect = Rated(serial[q.conv], q.trace, q.rating)
  <2>1. CASE serial[q.conv] \in Transcript
    BY <1>2, <2>1, RatedKeeps
  <2>2. CASE serial[q.conv] = None
    <3>1. Rated(serial[q.conv], q.trace, q.rating) = None
      BY <2>2 DEF Rated, AnswerAt
    <3>2. QED
      BY <3>1
  <2>3. QED
    BY <1>2, <2>1, <2>2 DEF TypeOK, StoreTypes
<1>5. Save(t, record, effect)
  BY <1>1, <1>3, <1>4 DEF RateSave
<1>6. Backed(q.conv, record)
  <2>1. ASSUME NEW i \in DOMAIN record, record[i].rating # None
        PROVE  Acknowledged(q.conv, record[i].trace, record[i].rating)
    <3>1. /\ i \in DOMAIN q.seen
          /\ \/ record[i] = q.seen[i]
             \/ record[i].trace = q.trace /\ record[i].rating = q.rating
      BY <1>2, <1>3, <2>1, RatedKeeps
    <3>2. CASE record[i] = q.seen[i]
      <4>1. q.seen # None
        BY <1>2, ConversationAssumption
      <4>2. QED
        BY <1>2, <2>1, <3>1, <3>2, <4>1 DEF Backed
    <3>3. CASE record[i].trace = q.trace /\ record[i].rating = q.rating
      BY <1>2, <3>3
    <3>4. QED
      BY <3>1, <3>2, <3>3
  <2>2. QED
    BY <2>1 DEF Backed
<1>7. q.conv \notin overlapped /\ store[q.conv] = op[t].seen => record = effect
  BY <1>1, <1>2, <1>3, <1>4 DEF Inv, StoreInv, SerialTranscript
<1>8. QED
  BY <1>1, <1>2, <1>5, <1>6, <1>7, SaveInv

LEMMA ExpireInv ==
    ASSUME TypeOK, Inv, Expire, UNCHANGED feedbackVars
    PROVE  TypeOK' /\ Inv'
<1>1. PICK i \in DOMAIN saves :
        /\ store[saves[i]] # None
        /\ \A j \in DOMAIN saves : store[saves[j]] # None => j >= i
        /\ Gone(saves[i])
        /\ index' = IF \E j \in DOMAIN saves : j > i /\ store[saves[j]] # None THEN index ELSE {}
  BY DEF Expire
<1>2. PICK c \in Conversations : c = saves[i]
  BY DEF TypeOK, StoreTypes
<1>3. /\ store' = [store EXCEPT ![c] = None]
      /\ serial' = [serial EXCEPT ![c] = None]
      /\ overlapped' = overlapped \ {c}
      /\ expired' = expired \cup {c}
      /\ saves' = saves /\ op' = op
  BY <1>1, <1>2 DEF Expire, Gone
<1>4. accepted \subseteq accepted' /\ RowsKept /\ SavesGrow /\ expired \subseteq expired'
  BY <1>3 DEF RowsKept, SavesGrow, Saved, feedbackVars
<1>5. OpsInv'
  BY <1>3, <1>4, OpsFrame DEF Inv
<1>6. TypeOK'
  <2>1. StoreTypes'
    BY <1>1, <1>3 DEF TypeOK, StoreTypes
  <2>2. LoopTypes' /\ job' \in [Supervisors -> Jobs] /\ op' \in [Customers -> Operations]
    BY <1>3 DEF TypeOK, LoopTypes, feedbackVars
  <2>3. QED
    BY <2>1, <2>2 DEF TypeOK
<1>7. \A d \in Conversations :
        /\ store'[d] = IF d = c THEN None ELSE store[d]
        /\ serial'[d] = IF d = c THEN None ELSE serial[d]
  BY <1>3 DEF TypeOK, StoreTypes
<1>8. SerialTranscript'
  BY <1>3, <1>7 DEF Inv, StoreInv, SerialTranscript
<1>9. ListingInv'
  <2>1. ASSUME NEW d \in Conversations, d \notin expired', Saved(d)
        PROVE  store'[d] # None /\ d \in index'
    <3>1. d # c /\ store[d] # None /\ d \in index
      BY <1>3, <2>1 DEF Inv, StoreInv, ListingInv
    <3>2. PICK j \in DOMAIN saves : saves[j] = d
      BY <2>1 DEF Saved
    <3>3. j >= i /\ j # i
      BY <1>1, <1>2, <3>1, <3>2
    <3>4. i \in Nat /\ j \in Nat
      BY DEF TypeOK, StoreTypes
    <3>5. j > i
      BY <3>3, <3>4
    <3>6. QED
      BY <1>1, <1>7, <3>1, <3>2, <3>5
  <2>2. \A d \in Conversations : Saved(d)' <=> Saved(d)
    BY <1>3 DEF Saved
  <2>3. QED
    BY <1>7, <2>1, <2>2 DEF Inv, StoreInv, ListingInv
<1>10. ShownRatingsAreStored'
  <2>1. rows' = rows /\ accepted' = accepted
    BY DEF feedbackVars
  <2>2. QED
    BY <1>7, <2>1 DEF Inv, ShownRatingsAreStored
<1>11. QED
  BY <1>5, <1>6, <1>8, <1>9, <1>10, LoopFrame DEF Inv, StoreInv

----------------------------------------------------------------------------
(* One promotion, review or regression run moves.                          *)

RegistryKept == \A b \in BadCaseIds : registry[b] # None => registry'[b] # None
CasesKept == \A b \in BadCaseIds : Cased(b) => Cased(b)'

LEMMA NoJobSound == NoJob \in Jobs /\ JobSound(NoJob)
BY DEF NoJob, Jobs, JobSound

LEMMA JobKept ==
    ASSUME RowsKept, RegistryKept, CasesKept, NEW j \in Jobs, JobSound(j)
    PROVE  JobSound(j)'
<1>1. Named(j) => Named(j)'
  BY DEF Named, RowsKept
<1>2. j.pc \in {"mark", "write_case", "relink"} => j.bad \in BadCaseIds /\ registry'[j.bad] # None
  <2>1. j.pc = "mark" => j.bad \in BadCaseIds
    BY DEF JobSound, Named, BadCaseIds
  <2>2. QED
    BY <2>1 DEF JobSound, RegistryKept
<1>3. j.pc = "relink" => Cased(j.bad)'
  BY <1>2 DEF JobSound, CasesKept
<1>4. QED
  BY <1>1, <1>2, <1>3 DEF JobSound

LEMMA JobMoves ==
    ASSUME TypeOK, JobsInv, NEW s \in Supervisors, NEW j \in Jobs,
           job' = [job EXCEPT ![s] = j], JobSound(j)', RowsKept, RegistryKept, CasesKept
    PROVE  job' \in [Supervisors -> Jobs] /\ JobsInv'
<1>1. job' \in [Supervisors -> Jobs]
  BY DEF TypeOK
<1>2. ASSUME NEW u \in Supervisors PROVE JobSound(job[u])'
  <2>1. PICK q \in Jobs : q = IF u = s THEN j ELSE job[u]
    BY DEF TypeOK
  <2>2. JobSound(q)'
    <3>1. CASE u = s
      <4>1. q = j
        BY <2>1, <3>1
      <4>2. QED
        BY <4>1
    <3>2. CASE u # s
      <4>1. q = job[u]
        BY <2>1, <3>2
      <4>2. QED
        BY <4>1, JobKept DEF JobsInv
    <3>3. QED
      BY <3>1, <3>2
  <2>3. job'[u] = q
    BY <2>1 DEF TypeOK
  <2>4. QED
    BY <2>2, <2>3 DEF JobSound, Named, Cased
<1>3. QED
  BY <1>1, <1>2 DEF JobsInv

LEMMA JobsFrame ==
    ASSUME TypeOK, JobsInv, RowsKept, RegistryKept, CasesKept, job' = job
    PROVE  JobsInv'
<1>1. ASSUME NEW u \in Supervisors PROVE JobSound(job[u])'
  <2>1. PICK q \in Jobs : q = job[u]
    BY DEF TypeOK
  <2>2. JobSound(q)'
    BY <2>1, JobKept DEF JobsInv
  <2>3. job'[u] = q
    BY <2>1
  <2>4. QED
    BY <2>2, <2>3 DEF JobSound, Named, Cased
<1>2. QED
  BY <1>1 DEF JobsInv

LEMMA ShownKept ==
    ASSUME LoopTypes, ShownRatingsAreStored, accepted \subseteq accepted', RowsKept, store' = store
    PROVE  ShownRatingsAreStored'
<1>1. \A c \in Conversations : Backed(c, store[c])
  BY DEF ShownRatingsAreStored, Backed, Acknowledged
<1>2. ASSUME NEW c \in Conversations PROVE Backed(c, store[c])'
  <2>1. PICK record : record = store[c]
    OBVIOUS
  <2>2. Backed(c, record)'
    BY <1>1, <2>1, BackedKept
  <2>3. QED
    BY <2>1, <2>2 DEF Backed, Acknowledged
<1>3. QED
  BY <1>2 DEF ShownRatingsAreStored, Backed, Acknowledged

\* The stores of the conversations and the customers' requests are left alone.
LEMMA StoreFrame ==
    ASSUME TypeOK, Inv, UNCHANGED storeVars, RowsKept, accepted' = accepted
    PROVE  /\ StoreTypes' /\ op' \in [Customers -> Operations]
           /\ StoreInv' /\ ShownRatingsAreStored' /\ OpsInv'
<1>1. SavesGrow /\ expired \subseteq expired' /\ op' = op /\ store' = store
  BY DEF SavesGrow, Saved, storeVars
<1>2. OpsInv'
  BY <1>1, OpsFrame DEF Inv
<1>3. ShownRatingsAreStored'
  BY <1>1, ShownKept DEF Inv, TypeOK
<1>4. StoreInv'
  BY DEF Inv, StoreInv, SerialTranscript, ListingInv, Saved, storeVars
<1>5. QED
  BY <1>1, <1>2, <1>3, <1>4 DEF TypeOK, StoreTypes, storeVars

\* A step of a supervisor's request that changes no store.
LEMMA JobOnly ==
    ASSUME TypeOK, Inv, NEW s \in Supervisors, NEW j \in Jobs,
           job' = [job EXCEPT ![s] = j], JobSound(j),
           UNCHANGED <<storeVars, rows, registry, cases, runs, accepted>>
    PROVE  TypeOK' /\ Inv'
<1>1. RowsKept /\ RegistryKept /\ CasesKept
  BY DEF RowsKept, RegistryKept, CasesKept, Cased
<1>2. JobSound(j)'
  BY <1>1, JobKept
<1>3. job' \in [Supervisors -> Jobs] /\ JobsInv'
  BY <1>1, <1>2, JobMoves DEF Inv
<1>4. LoopTypes'
  BY DEF TypeOK, LoopTypes
<1>5. LoopInv'
  <2>1. RatedRows' /\ IsFiniteSet({b \in BadCaseIds : registry[b] # None})'
    BY DEF Inv, LoopInv, RatedRows
  <2>2. PromotionsAreBacked' /\ CasesAreUnique' /\ PassedRunsCoverPromotions'
    BY DEF Inv, LoopInv, PromotionsAreBacked, CasesAreUnique, PassedRunsCoverPromotions
  <2>3. QED
    BY <2>1, <2>2 DEF LoopInv
<1>6. QED
  BY <1>1, <1>3, <1>4, <1>5, StoreFrame DEF TypeOK, Inv

\* A request ends.
LEMMA JobEnds ==
    ASSUME TypeOK, Inv, NEW s \in Supervisors, job' = [job EXCEPT ![s] = NoJob],
           UNCHANGED <<storeVars, rows, registry, cases, runs, accepted>>
    PROVE  TypeOK' /\ Inv'
<1>1. PICK j \in Jobs : j = NoJob /\ JobSound(j)
  BY NoJobSound
<1>2. QED
  BY <1>1, JobOnly

LEMMA JobFailsInv ==
    ASSUME TypeOK, Inv, NEW s \in Supervisors, JobFails(s)
    PROVE  TypeOK' /\ Inv'
BY JobEnds DEF JobFails

----------------------------------------------------------------------------
(* A row is written.                                                       *)

\* Only its review columns change, or its bad case becomes one that is registered.
LEMMA RowWritten ==
    ASSUME TypeOK, Inv, NEW a \in Answers, NEW row \in Row, rows' = [rows EXCEPT ![a] = row],
           row # NoRow, row.rating \in Ratings,
           \/ row.badCase = rows[a].badCase
           \/ row.badCase \in {<<a, l>> : l \in Layers} /\ registry[row.badCase] # None,
           UNCHANGED <<registry, cases, runs>>
    PROVE  /\ rows' \in [Answers -> Row] /\ LoopInv'
           /\ RowsKept /\ RegistryKept /\ CasesKept
<1>1. rows \in [Answers -> Row] /\ rows' \in [Answers -> Row]
  BY DEF TypeOK, LoopTypes
<1>2. \A b \in Answers : rows'[b] = IF b = a THEN row ELSE rows[b]
  BY <1>1
<1>3. RatedRows' /\ RowsKept
  BY <1>2 DEF Inv, LoopInv, RatedRows, RowsKept
<1>4. RegistryKept /\ CasesKept
  BY DEF RegistryKept, CasesKept, Cased
<1>5. PromotionsAreBacked'
  <2>1. ASSUME NEW b \in Answers, rows'[b].badCase # None
        PROVE  rows'[b].badCase \in {<<b, l>> : l \in Layers} /\ registry[rows'[b].badCase] # None
    <3>1. CASE b = a
      BY <1>2, <2>1, <3>1 DEF Inv, LoopInv, PromotionsAreBacked
    <3>2. CASE b # a
      BY <1>2, <2>1, <3>2 DEF Inv, LoopInv, PromotionsAreBacked
    <3>3. QED
      BY <3>1, <3>2
  <2>2. QED
    BY <2>1 DEF Inv, LoopInv, PromotionsAreBacked
<1>6. CasesAreUnique' /\ PassedRunsCoverPromotions'
  BY DEF Inv, LoopInv, CasesAreUnique, PassedRunsCoverPromotions
<1>7. IsFiniteSet({b \in BadCaseIds : registry[b] # None})'
  BY DEF Inv, LoopInv
<1>8. QED
  BY <1>1, <1>3, <1>4, <1>5, <1>6, <1>7 DEF LoopInv

LEMMA UpsertWriteInv ==
    ASSUME TypeOK, Inv, NEW t \in Customers, UpsertWrite(t)
    PROVE  TypeOK' /\ Inv'
<1>1. PICK q \in Operations : q = op[t] /\ OpSound(q) /\ q.pc = "upsert"
  BY DEF TypeOK, Inv, OpsInv, UpsertWrite
<1>2. q.conv \in Conversations /\ q.trace \in Traces /\ q.rating \in Ratings
  BY <1>1 DEF OpSound
<1>3. PICK a \in Answers : a = <<q.conv, q.trace>>
  BY <1>2 DEF Answers
<1>4. CASE q.seen = NoRow /\ rows[a] # NoRow
  BY <1>1, <1>3, <1>4, OpEnds DEF UpsertWrite, feedbackVars
<1>5. CASE ~(q.seen = NoRow /\ rows[a] # NoRow)
  <2>1. PICK old \in Row : old = rows[a]
    BY DEF TypeOK, LoopTypes
  <2>2. PICK row \in Row :
          /\ rows' = [rows EXCEPT ![a] = row]
          /\ row.rating = q.rating /\ row.badCase = old.badCase
    <3>1. CASE q.seen = NoRow
      <4>1. rows' = [rows EXCEPT ![a] = [NoRow EXCEPT !.rating = q.rating, !.status = "candidate"]]
        BY <1>1, <1>3, <1>5, <3>1 DEF UpsertWrite
      <4>2. PICK row : row = [NoRow EXCEPT !.rating = q.rating, !.status = "candidate"]
        OBVIOUS
      <4>3. row \in Row /\ row.rating = q.rating /\ row.badCase = None
        BY <1>2, <4>2 DEF NoRow, Row
      <4>4. old.badCase = None
        BY <1>5, <2>1, <3>1 DEF NoRow
      <4>5. QED
        BY <4>1, <4>2, <4>3, <4>4
    <3>2. CASE q.seen # NoRow
      <4>1. rows' = [rows EXCEPT ![a] = [old EXCEPT !.rating = q.rating]]
        BY <1>1, <1>3, <1>5, <2>1, <3>2 DEF UpsertWrite
      <4>2. [old EXCEPT !.rating = q.rating] \in Row
        BY <1>2 DEF Row
      <4>3. PICK row \in Row : row = [old EXCEPT !.rating = q.rating]
        BY <4>2
      <4>4. row.rating = q.rating /\ row.badCase = old.badCase
        BY <4>3 DEF Row
      <4>5. QED
        BY <4>1, <4>3, <4>4
    <3>3. QED
      BY <3>1, <3>2
  <2>3. accepted' = accepted \cup {<<a, q.rating>>}
    BY <1>1, <1>3, <1>5 DEF UpsertWrite
  <2>4. /\ UNCHANGED <<store, saves, index, serial, overlapped, expired>>
        /\ UNCHANGED <<registry, cases, runs, job>>
    BY DEF UpsertWrite
  <2>5. row # NoRow
    BY <1>2, <2>2, ConversationAssumption DEF NoRow
  <2>6. /\ rows' \in [Answers -> Row] /\ LoopInv'
        /\ RowsKept /\ RegistryKept /\ CasesKept
    BY <1>2, <2>1, <2>2, <2>4, <2>5, RowWritten
  <2>7. SavesGrow /\ expired \subseteq expired' /\ accepted \subseteq accepted'
    BY <2>3, <2>4 DEF SavesGrow, Saved
  <2>8. Acknowledged(q.conv, q.trace, q.rating)'
    <3>1. rows'[a] # NoRow /\ <<a, q.rating>> \in accepted'
      BY <2>2, <2>3, <2>5 DEF TypeOK, LoopTypes
    <3>2. QED
      BY <1>3, <3>1 DEF Acknowledged
  <2>9. PICK o \in Operations : op' = [op EXCEPT ![t] = o] /\ OpSound(o)'
    <3>1. CASE op' = [op EXCEPT ![t].pc = "rate", ![t].seen = None]
      <4>1. op' = [op EXCEPT ![t] = [q EXCEPT !.pc = "rate", !.seen = None]]
        BY <1>1, <3>1
      <4>2. [q EXCEPT !.pc = "rate", !.seen = None] \in Operations
        BY DEF Operations
      <4>3. PICK o \in Operations :
              /\ op' = [op EXCEPT ![t] = o]
              /\ o.pc = "rate" /\ o.conv = q.conv /\ o.trace = q.trace /\ o.rating = q.rating
              /\ o.todo = q.todo /\ o.stale = q.stale
        BY <4>1, <4>2 DEF Operations
      <4>4. Acknowledged(o.conv, o.trace, o.rating)'
        BY <2>8, <4>3
      <4>5. OpSound(q)'
        BY <1>1, <2>6, <2>7, OpKept DEF TypeOK
      <4>6. OpSound(o)'
        BY <1>2, <4>3, <4>4, <4>5 DEF OpSound
      <4>7. QED
        BY <4>3, <4>6
    <3>2. CASE op' = [op EXCEPT ![t] = NoOp]
      <4>1. PICK o \in Operations : o = NoOp /\ OpSound(o)
        BY NoOpSound
      <4>2. OpSound(o)'
        BY <2>6, <2>7, <4>1, OpKept DEF TypeOK
      <4>3. QED
        BY <3>2, <4>1, <4>2
    <3>3. QED
      BY <3>1, <3>2 DEF UpsertWrite
  <2>10. op' \in [Customers -> Operations] /\ OpsInv'
    BY <2>6, <2>7, <2>9, OpMoves DEF Inv
  <2>11. TypeOK'
    <3>1. StoreTypes'
      BY <2>4 DEF TypeOK, StoreTypes
    <3>2. LoopTypes'
      BY <1>2, <2>3, <2>4, <2>6 DEF TypeOK, LoopTypes
    <3>3. QED
      BY <2>4, <2>10, <3>1, <3>2 DEF TypeOK
  <2>12. StoreInv'
    BY <2>4 DEF Inv, StoreInv, SerialTranscript, ListingInv, Saved
  <2>13. ShownRatingsAreStored'
    BY <2>4, <2>6, <2>7, ShownKept DEF TypeOK, Inv
  <2>14. JobsInv'
    BY <2>4, <2>6, JobsFrame DEF Inv
  <2>15. QED
    BY <2>6, <2>10, <2>11, <2>12, <2>13, <2>14 DEF Inv
<1>6. QED
  BY <1>4, <1>5

LEMMA ReviewInv ==
    ASSUME TypeOK, Inv, NEW s \in Supervisors, Review(s)
    PROVE  TypeOK' /\ Inv'
<1>1. PICK a \in Answers, status \in ReviewStatuses :
        rows[a] # NoRow /\ rows' = [rows EXCEPT ![a].status = status]
  BY DEF Review
<1>2. PICK old \in Row : old = rows[a] /\ old.rating \in Ratings
  BY <1>1 DEF TypeOK, LoopTypes, Inv, LoopInv, RatedRows
<1>3. [old EXCEPT !.status = status] \in Row
  BY DEF Row
<1>4. PICK row \in Row :
        /\ rows' = [rows EXCEPT ![a] = row]
        /\ row.rating = old.rating /\ row.badCase = old.badCase
  BY <1>1, <1>2, <1>3 DEF Row
<1>5. row # NoRow
  BY <1>2, <1>4, ConversationAssumption DEF NoRow
<1>6. UNCHANGED <<storeVars, registry, cases, runs, job, accepted>>
  BY DEF Review
<1>7. /\ rows' \in [Answers -> Row] /\ LoopInv'
      /\ RowsKept /\ RegistryKept /\ CasesKept
  BY <1>2, <1>4, <1>5, <1>6, RowWritten
<1>8. JobsInv'
  BY <1>6, <1>7, JobsFrame DEF Inv
<1>9. LoopTypes' /\ job' \in [Supervisors -> Jobs]
  BY <1>6, <1>7 DEF TypeOK, LoopTypes
<1>10. QED
  BY <1>6, <1>7, <1>8, <1>9, StoreFrame DEF TypeOK, Inv

LEMMA MarkPromotedInv ==
    ASSUME TypeOK, Inv, NEW s \in Supervisors, MarkPromoted(s)
    PROVE  TypeOK' /\ Inv'
<1>1. PICK q \in Jobs : q = job[s] /\ JobSound(q) /\ q.pc = "mark"
  BY DEF TypeOK, Inv, JobsInv, MarkPromoted
<1>2. Named(q) /\ registry[q.bad] # None
  BY <1>1 DEF JobSound
<1>3. PICK a \in Answers : a = q.answer /\ rows[a] # NoRow
  BY <1>2 DEF Named
<1>4. q.bad \in {<<a, l>> : l \in Layers} /\ q.bad \in BadCaseIds /\ q.msg \in Messages
  BY <1>2, <1>3 DEF Named, BadCaseIds
<1>5. PICK old \in Row : old = rows[a] /\ old.rating \in Ratings
  BY <1>3 DEF TypeOK, LoopTypes, Inv, LoopInv, RatedRows
<1>6. rows' = [rows EXCEPT ![a] = [old EXCEPT !.status = "regression_added", !.badCase = q.bad]]
  BY <1>1, <1>3, <1>5 DEF MarkPromoted
<1>7. [old EXCEPT !.status = "regression_added", !.badCase = q.bad] \in Row
  BY <1>4 DEF Row
<1>8. PICK row \in Row :
        /\ rows' = [rows EXCEPT ![a] = row]
        /\ row.rating = old.rating /\ row.badCase = q.bad
  BY <1>6, <1>7 DEF Row
<1>9. row # NoRow
  BY <1>5, <1>8, ConversationAssumption DEF NoRow
<1>10. UNCHANGED <<storeVars, registry, cases, runs, accepted>>
  BY DEF MarkPromoted
<1>11. /\ rows' \in [Answers -> Row] /\ LoopInv'
       /\ RowsKept /\ RegistryKept /\ CasesKept
  BY <1>2, <1>4, <1>5, <1>8, <1>9, <1>10, RowWritten
<1>12. PICK j \in Jobs : job' = [job EXCEPT ![s] = j] /\ JobSound(j)'
  <2>1. CASE job' = [job EXCEPT ![s].pc = "write_case"]
    <3>1. job' = [job EXCEPT ![s] = [q EXCEPT !.pc = "write_case"]]
      BY <1>1, <2>1
    <3>2. [q EXCEPT !.pc = "write_case"] \in Jobs
      BY DEF Jobs
    <3>3. PICK j \in Jobs :
            /\ job' = [job EXCEPT ![s] = j]
            /\ j.pc = "write_case" /\ j.bad = q.bad /\ j.msg = q.msg
      BY <3>1, <3>2 DEF Jobs
    <3>4. JobSound(j)
      BY <1>2, <1>4, <3>3 DEF JobSound
    <3>5. QED
      BY <1>11, <3>3, <3>4, JobKept
  <2>2. CASE job' = [job EXCEPT ![s] = NoJob]
    <3>1. PICK j \in Jobs : j = NoJob /\ JobSound(j)
      BY NoJobSound
    <3>2. QED
      BY <1>11, <2>2, <3>1, JobKept
  <2>3. QED
    BY <2>1, <2>2 DEF MarkPromoted
<1>13. job' \in [Supervisors -> Jobs] /\ JobsInv'
  BY <1>11, <1>12, JobMoves DEF Inv
<1>14. LoopTypes'
  BY <1>10, <1>11 DEF TypeOK, LoopTypes
<1>15. QED
  BY <1>10, <1>11, <1>13, <1>14, StoreFrame DEF TypeOK, Inv

----------------------------------------------------------------------------
(* A promotion.                                                            *)

LEMMA LoadContextInv ==
    ASSUME TypeOK, Inv, NEW s \in Supervisors, LoadContext(s)
    PROVE  TypeOK' /\ Inv'
<1>1. PICK a \in Answers, layer \in Layers, m \in Messages :
        /\ rows[a] # NoRow
        /\ job' = [job EXCEPT ![s] =
              IF /\ rows[a].status = "regression_added"
                 /\ rows[a].badCase # None
                 /\ registry[rows[a].badCase] # None
              THEN [NoJob EXCEPT !.pc = "write_case", !.answer = a, !.bad = rows[a].badCase,
                                 !.msg = registry[rows[a].badCase].msg]
              ELSE [NoJob EXCEPT !.pc = "register", !.answer = a,
                                 !.bad = <<a, layer>>, !.msg = m]]
  BY DEF LoadContext
<1>2. UNCHANGED <<storeVars, rows, registry, cases, runs, accepted>>
  BY DEF LoadContext
<1>3. CASE /\ rows[a].status = "regression_added"
           /\ rows[a].badCase # None
           /\ registry[rows[a].badCase] # None
  <2>1. PICK b \in BadCaseIds : b = rows[a].badCase /\ registry[b] # None
    BY <1>3 DEF TypeOK, LoopTypes, Row
  <2>2. registry[b].msg \in Messages
    BY <2>1 DEF TypeOK, LoopTypes, BadCase
  <2>3. job' = [job EXCEPT ![s] =
            [NoJob EXCEPT !.pc = "write_case", !.answer = a, !.bad = b, !.msg = registry[b].msg]]
    BY <1>1, <1>3, <2>1
  <2>4. [NoJob EXCEPT !.pc = "write_case", !.answer = a, !.bad = b, !.msg = registry[b].msg] \in Jobs
    BY <2>2 DEF NoJob, Jobs
  <2>5. PICK j \in Jobs :
          /\ job' = [job EXCEPT ![s] = j]
          /\ j.pc = "write_case" /\ j.bad = b /\ j.msg = registry[b].msg
    BY <2>3, <2>4 DEF NoJob
  <2>6. JobSound(j)
    BY <2>1, <2>2, <2>5 DEF JobSound
  <2>7. QED
    BY <1>2, <2>5, <2>6, JobOnly
<1>4. CASE ~(/\ rows[a].status = "regression_added"
             /\ rows[a].badCase # None
             /\ registry[rows[a].badCase] # None)
  <2>1. PICK b \in BadCaseIds : b = <<a, layer>>
    BY DEF BadCaseIds
  <2>2. job' = [job EXCEPT ![s] =
            [NoJob EXCEPT !.pc = "register", !.answer = a, !.bad = b, !.msg = m]]
    BY <1>1, <1>4, <2>1
  <2>3. [NoJob EXCEPT !.pc = "register", !.answer = a, !.bad = b, !.msg = m] \in Jobs
    BY DEF NoJob, Jobs
  <2>4. PICK j \in Jobs :
          /\ job' = [job EXCEPT ![s] = j]
          /\ j.pc = "register" /\ j.answer = a /\ j.bad = b /\ j.msg = m
    BY <2>2, <2>3 DEF NoJob
  <2>5. Named(j)
    BY <1>1, <2>1, <2>4 DEF Named
  <2>6. JobSound(j)
    BY <2>4, <2>5 DEF JobSound
  <2>7. QED
    BY <1>2, <2>4, <2>6, JobOnly
<1>5. QED
  BY <1>3, <1>4

\* A record of the registry is written; those already there stay.
LEMMA RecordWritten ==
    ASSUME TypeOK, Inv, NEW b \in BadCaseIds, NEW record \in BadCase,
           registry' = [registry EXCEPT ![b] = record],
           record.regressionCase = "written" =>
              Cased(b) \/ (registry[b] # None /\ registry[b].regressionCase = "written"),
           UNCHANGED <<rows, cases, runs>>
    PROVE  /\ registry' \in [BadCaseIds -> BadCase \cup {None}] /\ LoopInv'
           /\ RowsKept /\ RegistryKept /\ CasesKept
<1>1. registry' \in [BadCaseIds -> BadCase \cup {None}]
  BY DEF TypeOK, LoopTypes
<1>2. \A d \in BadCaseIds : registry'[d] = IF d = b THEN record ELSE registry[d]
  BY DEF TypeOK, LoopTypes
<1>3. record # None
  BY LoopAssumption
<1>4. RegistryKept /\ RowsKept /\ CasesKept
  BY <1>2, <1>3 DEF RegistryKept, RowsKept, CasesKept, Cased
<1>5. IsFiniteSet({d \in BadCaseIds : registry[d] # None})'
  <2>1. PICK held : held = {d \in BadCaseIds : registry[d] # None}
    OBVIOUS
  <2>2. IsFiniteSet(held)
    BY <2>1 DEF Inv, LoopInv
  <2>3. IsFiniteSet(held \cup {b})
    BY <2>2, FS_AddElement
  <2>4. {d \in BadCaseIds : registry'[d] # None} = held \cup {b}
    BY <1>2, <1>3, <2>1
  <2>5. QED
    BY <2>3, <2>4
<1>6. PromotionsAreBacked'
  <2>1. ASSUME NEW a \in Answers, rows[a].badCase # None
        PROVE  rows[a].badCase \in {<<a, l>> : l \in Layers} /\ registry'[rows[a].badCase] # None
    <3>1. /\ rows[a].badCase \in {<<a, l>> : l \in Layers}
          /\ rows[a].badCase \in BadCaseIds /\ registry[rows[a].badCase] # None
      BY <2>1 DEF Inv, LoopInv, PromotionsAreBacked, BadCaseIds
    <3>2. QED
      BY <1>4, <3>1 DEF RegistryKept
  <2>2. ASSUME NEW d \in BadCaseIds, registry'[d] # None, registry'[d].regressionCase = "written"
        PROVE  \E i \in DOMAIN cases : cases[i].bad = d
    BY <1>2, <2>2 DEF Inv, LoopInv, PromotionsAreBacked, Cased
  <2>3. QED
    BY <2>1, <2>2 DEF PromotionsAreBacked
<1>7. RatedRows' /\ CasesAreUnique' /\ PassedRunsCoverPromotions'
  BY DEF Inv, LoopInv, RatedRows, CasesAreUnique, PassedRunsCoverPromotions
<1>8. QED
  BY <1>1, <1>4, <1>5, <1>6, <1>7 DEF LoopInv

LEMMA RegisterInv ==
    ASSUME TypeOK, Inv, NEW s \in Supervisors, Register(s)
    PROVE  TypeOK' /\ Inv'
<1>1. PICK q \in Jobs : q = job[s] /\ JobSound(q) /\ q.pc = "register"
  BY DEF TypeOK, Inv, JobsInv, Register
<1>2. Named(q) /\ q.bad \in BadCaseIds /\ q.msg \in Messages
  BY <1>1 DEF JobSound, Named, BadCaseIds
<1>3. PICK stored \in BadCase :
        /\ stored = IF registry[q.bad] = None THEN [msg |-> q.msg, regressionCase |-> "draft"]
                    ELSE registry[q.bad]
        /\ stored.regressionCase = "written" =>
              registry[q.bad] # None /\ registry[q.bad].regressionCase = "written"
  <2>1. CASE registry[q.bad] = None
    <3>1. [msg |-> q.msg, regressionCase |-> "draft"] \in BadCase
      BY <1>2 DEF BadCase
    <3>2. QED
      BY <2>1, <3>1
  <2>2. CASE registry[q.bad] # None
    BY <1>2, <2>2 DEF TypeOK, LoopTypes
  <2>3. QED
    BY <2>1, <2>2
<1>4. /\ registry' = [registry EXCEPT ![q.bad] = stored]
      /\ job' = [job EXCEPT ![s] = [q EXCEPT !.pc = "mark", !.msg = stored.msg]]
      /\ UNCHANGED <<storeVars, rows, cases, runs, accepted>>
  BY <1>1, <1>3 DEF Register
<1>5. /\ registry' \in [BadCaseIds -> BadCase \cup {None}] /\ LoopInv'
      /\ RowsKept /\ RegistryKept /\ CasesKept
  BY <1>2, <1>3, <1>4, RecordWritten
<1>6. stored.msg \in Messages
  BY DEF BadCase
<1>7. [q EXCEPT !.pc = "mark", !.msg = stored.msg] \in Jobs
  BY <1>6 DEF Jobs
<1>8. PICK j \in Jobs :
        /\ job' = [job EXCEPT ![s] = j]
        /\ j.pc = "mark" /\ j.answer = q.answer /\ j.bad = q.bad /\ j.msg = stored.msg
  BY <1>4, <1>7 DEF Jobs
<1>9. registry'[j.bad] # None
  BY <1>2, <1>4, <1>8, LoopAssumption DEF TypeOK, LoopTypes
<1>10. Named(j)'
  BY <1>2, <1>4, <1>6, <1>8 DEF Named
<1>11. JobSound(j)'
  BY <1>8, <1>9, <1>10 DEF JobSound
<1>12. job' \in [Supervisors -> Jobs] /\ JobsInv'
  BY <1>5, <1>8, <1>11, JobMoves DEF Inv
<1>13. LoopTypes'
  BY <1>4, <1>5 DEF TypeOK, LoopTypes
<1>14. QED
  BY <1>4, <1>5, <1>12, <1>13, StoreFrame DEF TypeOK, Inv

LEMMA RelinkInv ==
    ASSUME TypeOK, Inv, NEW s \in Supervisors, Relink(s)
    PROVE  TypeOK' /\ Inv'
<1>1. PICK q \in Jobs : q = job[s] /\ JobSound(q) /\ q.pc = "relink"
  BY DEF TypeOK, Inv, JobsInv, Relink
<1>2. q.bad \in BadCaseIds /\ registry[q.bad] # None /\ Cased(q.bad)
  BY <1>1 DEF JobSound
<1>3. PICK old \in BadCase : old = registry[q.bad]
  BY <1>2 DEF TypeOK, LoopTypes
<1>4. [old EXCEPT !.regressionCase = "written"] \in BadCase
  BY DEF BadCase
<1>5. PICK record \in BadCase : record = [old EXCEPT !.regressionCase = "written"]
  BY <1>4
<1>6. registry' = [registry EXCEPT ![q.bad] = record]
  BY <1>1, <1>3, <1>5 DEF Relink
<1>7. UNCHANGED <<storeVars, rows, cases, runs, accepted>> /\ job' = [job EXCEPT ![s] = NoJob]
  BY DEF Relink
<1>8. /\ registry' \in [BadCaseIds -> BadCase \cup {None}] /\ LoopInv'
      /\ RowsKept /\ RegistryKept /\ CasesKept
  BY <1>2, <1>6, <1>7, RecordWritten
<1>9. PICK j \in Jobs : j = NoJob /\ JobSound(j)
  BY NoJobSound
<1>10. JobSound(j)'
  BY <1>8, <1>9, JobKept
<1>11. job' \in [Supervisors -> Jobs] /\ JobsInv'
  BY <1>7, <1>8, <1>9, <1>10, JobMoves DEF Inv
<1>12. LoopTypes'
  BY <1>7, <1>8 DEF TypeOK, LoopTypes
<1>13. QED
  BY <1>7, <1>8, <1>11, <1>12, StoreFrame DEF TypeOK, Inv

LEMMA WriteCaseInv ==
    ASSUME TypeOK, Inv, NEW s \in Supervisors, WriteCase(s)
    PROVE  TypeOK' /\ Inv'
<1>1. PICK q \in Jobs : q = job[s] /\ JobSound(q) /\ q.pc = "write_case"
  BY DEF TypeOK, Inv, JobsInv, WriteCase
<1>2. q.bad \in BadCaseIds /\ q.msg \in Messages /\ registry[q.bad] # None
  BY <1>1 DEF JobSound
<1>3. UNCHANGED <<storeVars, rows, registry, runs, accepted>>
  BY DEF WriteCase
<1>4. CASE \E i \in DOMAIN cases : cases[i].bad = q.bad \/ cases[i].msg = q.msg
  <2>1. job' = [job EXCEPT ![s] = NoJob] /\ cases' = cases
    BY <1>1, <1>4 DEF WriteCase
  <2>2. QED
    BY <1>3, <2>1, JobEnds
<1>5. CASE ~\E i \in DOMAIN cases : cases[i].bad = q.bad \/ cases[i].msg = q.msg
  <2>1. PICK case \in Cases : case = [bad |-> q.bad, msg |-> q.msg]
    BY <1>2 DEF Cases
  <2>2. case.bad = q.bad /\ case.msg = q.msg
    BY <2>1
  <2>3. cases' = Append(cases, case) /\ job' = [job EXCEPT ![s] = [q EXCEPT !.pc = "relink"]]
    BY <1>1, <1>5, <2>1 DEF WriteCase
  <2>4. cases \in Seq(Cases)
    BY DEF TypeOK, LoopTypes
  <2>5. /\ cases' \in Seq(Cases) /\ Len(cases') = Len(cases) + 1
        /\ \A i \in DOMAIN cases : i \in DOMAIN cases' /\ cases'[i] = cases[i]
        /\ \A i \in DOMAIN cases' : i \in DOMAIN cases \/ i = Len(cases) + 1
        /\ Len(cases) + 1 \in DOMAIN cases' /\ cases'[Len(cases) + 1] = case
    BY <2>3, <2>4
  <2>6. RowsKept /\ RegistryKept
    BY <1>3 DEF RowsKept, RegistryKept
  <2>7. CasesKept /\ Cased(q.bad)'
    BY <2>2, <2>5 DEF CasesKept, Cased
  <2>8. CasesAreUnique'
    <3>1. ASSUME NEW i \in DOMAIN cases', NEW k \in DOMAIN cases', i # k
          PROVE  cases'[i].bad # cases'[k].bad /\ cases'[i].msg # cases'[k].msg
      <4>1. CASE i \in DOMAIN cases /\ k \in DOMAIN cases
        BY <2>5, <3>1, <4>1 DEF Inv, LoopInv, CasesAreUnique
      <4>2. CASE i \in DOMAIN cases /\ k = Len(cases) + 1
        BY <1>5, <2>2, <2>5, <4>2
      <4>3. CASE i = Len(cases) + 1 /\ k \in DOMAIN cases
        BY <1>5, <2>2, <2>5, <4>3
      <4>4. QED
        BY <2>5, <3>1, <4>1, <4>2, <4>3
    <3>2. QED
      BY <3>1 DEF CasesAreUnique
  <2>9. PromotionsAreBacked'
    <3>1. ASSUME NEW b \in BadCaseIds, registry[b] # None, registry[b].regressionCase = "written"
          PROVE  Cased(b)'
      BY <2>7, <3>1 DEF Inv, LoopInv, PromotionsAreBacked, CasesKept, Cased
    <3>2. QED
      BY <1>3, <3>1 DEF Inv, LoopInv, PromotionsAreBacked, Cased
  <2>10. RatedRows' /\ IsFiniteSet({b \in BadCaseIds : registry[b] # None})' /\ PassedRunsCoverPromotions'
    BY <1>3 DEF Inv, LoopInv, RatedRows, PassedRunsCoverPromotions
  <2>11. [q EXCEPT !.pc = "relink"] \in Jobs
    BY DEF Jobs
  <2>12. PICK j \in Jobs :
           job' = [job EXCEPT ![s] = j] /\ j.pc = "relink" /\ j.bad = q.bad /\ j.msg = q.msg
    BY <2>3, <2>11 DEF Jobs
  <2>13. Cased(j.bad)' /\ registry'[j.bad] # None
    BY <1>2, <1>3, <2>7, <2>12 DEF Cased
  <2>14. JobSound(j)'
    BY <1>2, <2>12, <2>13 DEF JobSound
  <2>15. job' \in [Supervisors -> Jobs] /\ JobsInv'
    BY <2>6, <2>7, <2>12, <2>14, JobMoves DEF Inv
  <2>16. LoopTypes'
    BY <1>3, <2>5 DEF TypeOK, LoopTypes
  <2>17. QED
    BY <1>3, <2>6, <2>8, <2>9, <2>10, <2>15, <2>16, StoreFrame DEF TypeOK, Inv, LoopInv
<1>6. QED
  BY <1>4, <1>5

----------------------------------------------------------------------------
(* The regression run.                                                     *)

LEMMA StartRunInv ==
    ASSUME TypeOK, Inv, NEW s \in Supervisors, StartRun(s)
    PROVE  TypeOK' /\ Inv'
<1>1. PICK held \in SUBSET BadCaseIds : held = {b \in BadCaseIds : registry[b] # None}
  OBVIOUS
<1>2. PICK due : due = {rows[a].badCase : a \in Answers} \ {None}
  OBVIOUS
\* Every bad case a row names is in the registry: nothing is due that is not replayed.
<1>3. due \subseteq held
  BY <1>1, <1>2 DEF Inv, LoopInv, PromotionsAreBacked, BadCaseIds
<1>4. IsFiniteSet(held)
  BY <1>1 DEF Inv, LoopInv
<1>5. job' = [job EXCEPT ![s] = [NoJob EXCEPT !.pc = "run", !.records = held, !.due = due]]
  BY <1>1, <1>2 DEF StartRun
<1>6. [NoJob EXCEPT !.pc = "run", !.records = held, !.due = due] \in Jobs
  BY <1>3 DEF NoJob, Jobs
<1>7. PICK j \in Jobs :
        job' = [job EXCEPT ![s] = j] /\ j.pc = "run" /\ j.records = held /\ j.due = due
  BY <1>5, <1>6 DEF NoJob
<1>8. JobSound(j)
  BY <1>3, <1>4, <1>7 DEF JobSound
<1>9. QED
  BY <1>7, <1>8, JobOnly DEF StartRun

\* The history keeps its newest MaxRuns - 1 runs and takes one more.
LEMMA HistoryKept ==
    ASSUME runs \in Seq(Runs), Len(runs) <= MaxRuns, NEW run \in Runs
    PROVE  \E after \in Seq(Runs) :
              /\ after = Append(SubSeq(runs, IF Len(runs) > MaxRuns - 1
                                             THEN Len(runs) - MaxRuns + 2 ELSE 1, Len(runs)), run)
              /\ Len(after) <= MaxRuns
              /\ \A i \in DOMAIN after : after[i] = run \/ \E k \in DOMAIN runs : after[i] = runs[k]
<1> SUFFICES ASSUME NEW after,
                    after = Append(SubSeq(runs, IF Len(runs) > MaxRuns - 1
                                                THEN Len(runs) - MaxRuns + 2 ELSE 1, Len(runs)), run)
             PROVE  /\ after \in Seq(Runs) /\ Len(after) <= MaxRuns
                    /\ \A i \in DOMAIN after :
                          after[i] = run \/ \E k \in DOMAIN runs : after[i] = runs[k]
  BY Zenon
<1> DEFINE first == IF Len(runs) > MaxRuns - 1 THEN Len(runs) - MaxRuns + 2 ELSE 1
           kept == SubSeq(runs, first, Len(runs))
<1>1. /\ first \in Nat \ {0} /\ Len(runs) \in Nat /\ first <= Len(runs) + 1
      /\ Len(runs) - first + 1 <= MaxRuns - 1
  BY LoopAssumption
<1>2. after = Append(kept, run)
  OBVIOUS
<1> HIDE DEF first
<1>3. \A i \in first .. Len(runs) : i \in DOMAIN runs /\ runs[i] \in Runs
  BY <1>1
<1>4. /\ kept \in Seq(Runs) /\ Len(kept) = Len(runs) - first + 1
      /\ \A i \in 1 .. Len(runs) - first + 1 : kept[i] = runs[first + i - 1]
  <2>1. CASE first <= Len(runs)
    BY <1>1, <1>3, <2>1, SubSeqProperties
  <2>2. CASE first = Len(runs) + 1
    <3>1. kept = <<>>
      BY <1>1, <2>2
    <3>2. QED
      BY <1>1, <2>2, <3>1
  <2>3. QED
    BY <1>1, <2>1, <2>2
<1> HIDE DEF kept
<1>5. /\ after \in Seq(Runs) /\ Len(after) = Len(kept) + 1
      /\ \A i \in DOMAIN after : (i \in DOMAIN kept /\ after[i] = kept[i]) \/ after[i] = run
  <2>1. kept \in Seq(Runs)
    BY <1>4
  <2>2. /\ Append(kept, run) \in Seq(Runs) /\ Len(Append(kept, run)) = Len(kept) + 1
        /\ \A i \in 1 .. Len(kept) : Append(kept, run)[i] = kept[i]
        /\ Append(kept, run)[Len(kept) + 1] = run
    BY <2>1, AppendProperties
  <2>3. DOMAIN kept = 1 .. Len(kept) /\ Len(kept) \in Nat
    BY <2>1
  <2>4. after \in Seq(Runs) /\ Len(after) = Len(kept) + 1
    BY <1>2, <2>2
  <2>5. ASSUME NEW i \in DOMAIN after
        PROVE  (i \in DOMAIN kept /\ after[i] = kept[i]) \/ after[i] = run
    <3>1. i \in 1 .. Len(kept) + 1
      BY <2>4
    <3>2. CASE i = Len(kept) + 1
      BY <1>2, <2>2, <3>2
    <3>3. CASE i \in 1 .. Len(kept)
      BY <1>2, <2>2, <2>3, <3>3
    <3>4. \A n \in Nat : \A x \in 1 .. n + 1 : x = n + 1 \/ x \in 1 .. n
      OBVIOUS
    <3>5. QED
      BY <2>3, <3>1, <3>2, <3>3, <3>4, Zenon
  <2>6. QED
    BY <2>4, <2>5
<1>6. Len(after) <= MaxRuns
  BY <1>1, <1>4, <1>5, LoopAssumption
<1>7. ASSUME NEW i \in DOMAIN kept PROVE \E k \in DOMAIN runs : kept[i] = runs[k]
  <2>1. i \in 1 .. Len(runs) - first + 1 /\ first + i - 1 \in first .. Len(runs)
    BY <1>1, <1>4
  <2>2. QED
    BY <1>3, <1>4, <2>1
<1>8. QED
  BY <1>5, <1>6, <1>7

LEMMA EndRunInv ==
    ASSUME TypeOK, Inv, NEW s \in Supervisors, EndRun(s)
    PROVE  TypeOK' /\ Inv'
<1>1. PICK q \in Jobs : q = job[s] /\ JobSound(q) /\ q.pc = "run"
  BY DEF TypeOK, Inv, JobsInv, EndRun
<1>2. q.due \subseteq q.records /\ IsFiniteSet(q.records) /\ q.records \in SUBSET BadCaseIds
  BY <1>1 DEF JobSound, Jobs
<1>3. PICK passing, run :
        /\ passing \in SUBSET q.records
        /\ run = [count |-> Cardinality(q.records),
                  passed |-> q.records # {} /\ passing = q.records,
                  unproved |-> q.due \ passing]
        /\ runs' = Append(SubSeq(runs, IF Len(runs) > MaxRuns - 1
                                       THEN Len(runs) - MaxRuns + 2 ELSE 1, Len(runs)), run)
  BY <1>1 DEF EndRun
<1>4. UNCHANGED <<storeVars, rows, registry, cases, accepted>> /\ job' = [job EXCEPT ![s] = NoJob]
  BY DEF EndRun
<1>5. Cardinality(q.records) \in Nat
  BY <1>2, FS_CardinalityType
<1>6. run \in Runs
  BY <1>2, <1>3, <1>5 DEF Runs
<1>7. run.passed => run.count > 0 /\ run.unproved = {}
  <2>1. q.records # {} => Cardinality(q.records) # 0
    BY <1>2, FS_EmptySet
  <2>2. run.count = Cardinality(q.records) /\ run.unproved = q.due \ passing
    BY <1>3
  <2>3. run.passed => q.records # {} /\ passing = q.records
    BY <1>3
  <2>4. QED
    BY <1>2, <1>5, <2>1, <2>2, <2>3
<1>8. /\ runs' \in Seq(Runs) /\ Len(runs') <= MaxRuns
      /\ \A i \in DOMAIN runs' : runs'[i] = run \/ \E k \in DOMAIN runs : runs'[i] = runs[k]
  <2>1. runs \in Seq(Runs) /\ Len(runs) <= MaxRuns
    BY DEF TypeOK, LoopTypes, Inv, LoopInv, PassedRunsCoverPromotions
  <2>2. PICK after \in Seq(Runs) :
          /\ after = Append(SubSeq(runs, IF Len(runs) > MaxRuns - 1
                                         THEN Len(runs) - MaxRuns + 2 ELSE 1, Len(runs)), run)
          /\ Len(after) <= MaxRuns
          /\ \A i \in DOMAIN after : after[i] = run \/ \E k \in DOMAIN runs : after[i] = runs[k]
    BY <1>6, <2>1, HistoryKept, Zenon
  <2>3. runs' = after
    BY <1>3, <2>2, Zenon
  <2>4. QED
    BY <2>2, <2>3
<1>9. PassedRunsCoverPromotions'
  BY <1>7, <1>8 DEF Inv, LoopInv, PassedRunsCoverPromotions
<1>10. RowsKept /\ RegistryKept /\ CasesKept
  BY <1>4 DEF RowsKept, RegistryKept, CasesKept, Cased
<1>11. LoopInv'
  <2>1. RatedRows' /\ IsFiniteSet({b \in BadCaseIds : registry[b] # None})'
    BY <1>4 DEF Inv, LoopInv, RatedRows
  <2>2. PromotionsAreBacked' /\ CasesAreUnique'
    BY <1>4 DEF Inv, LoopInv, PromotionsAreBacked, CasesAreUnique
  <2>3. QED
    BY <1>9, <2>1, <2>2 DEF LoopInv
<1>12. PICK j \in Jobs : j = NoJob /\ JobSound(j)
  BY NoJobSound
<1>13. JobSound(j)'
  BY <1>10, <1>12, JobKept
<1>14. job' \in [Supervisors -> Jobs] /\ JobsInv'
  BY <1>4, <1>10, <1>12, <1>13, JobMoves DEF Inv
<1>15. LoopTypes'
  BY <1>4, <1>8 DEF TypeOK, LoopTypes
<1>16. QED
  BY <1>4, <1>10, <1>11, <1>14, <1>15, StoreFrame DEF TypeOK, Inv

----------------------------------------------------------------------------
(* Every reachable state.                                                  *)

LEMMA InitInv == Init => TypeOK /\ Inv
<1> SUFFICES ASSUME Init PROVE TypeOK /\ Inv
  OBVIOUS
<1> USE DEF Init, StoreInit
<1>1. StoreTypes
  BY DEF StoreTypes
<1>2. LoopTypes
  <2>1. NoRow \in Row
    BY DEF NoRow, Row
  <2>2. QED
    BY <2>1 DEF LoopTypes
<1>3. op \in [Customers -> Operations] /\ OpsInv
  BY NoOpSound DEF OpsInv
<1>4. job \in [Supervisors -> Jobs] /\ JobsInv
  BY NoJobSound DEF JobsInv
<1>5. StoreInv /\ ShownRatingsAreStored
  BY DEF StoreInv, SerialTranscript, ListingInv, ShownRatingsAreStored, Saved
<1>6. LoopInv
  <2>1. {b \in BadCaseIds : registry[b] # None} = {}
    OBVIOUS
  <2>2. IsFiniteSet({b \in BadCaseIds : registry[b] # None})
    BY <2>1, FS_EmptySet
  <2>3. RatedRows /\ PromotionsAreBacked
    BY DEF RatedRows, PromotionsAreBacked, NoRow
  <2>4. CasesAreUnique /\ PassedRunsCoverPromotions
    BY LoopAssumption DEF CasesAreUnique, PassedRunsCoverPromotions
  <2>5. QED
    BY <2>2, <2>3, <2>4 DEF LoopInv
<1>7. QED
  BY <1>1, <1>2, <1>3, <1>4, <1>5, <1>6 DEF TypeOK, Inv

LEMMA StepInv == TypeOK /\ Inv /\ [Next]_vars => TypeOK' /\ Inv'
<1> SUFFICES ASSUME TypeOK, Inv, [Next]_vars PROVE TypeOK' /\ Inv'
  OBVIOUS
<1>1. CASE UNCHANGED vars
  <2>1. UNCHANGED <<storeVars, rows, registry, cases, runs, job, accepted>>
    BY <1>1 DEF vars, feedbackVars
  <2>2. RowsKept /\ RegistryKept /\ CasesKept
    BY <2>1 DEF RowsKept, RegistryKept, CasesKept, Cased
  <2>3. LoopTypes' /\ job' \in [Supervisors -> Jobs]
    BY <2>1 DEF TypeOK, LoopTypes
  <2>4. LoopInv' /\ JobsInv'
    BY <2>1, LoopFrame DEF feedbackVars
  <2>5. QED
    BY <2>1, <2>2, <2>3, <2>4, StoreFrame DEF TypeOK, Inv
<1>2. ASSUME NEW t \in Customers, CustomerStep(t) PROVE TypeOK' /\ Inv'
  BY <1>2, AppendReadInv, AppendSaveInv, RateReadInv, RateSaveInv, ListIdsInv, ListGetInv,
     ListPruneInv, StoreFailsInv DEF CustomerStep, StoreStep
<1>3. ASSUME NEW t \in Customers,
             FindAnswer(t) \/ UpsertSelect(t) \/ UpsertWrite(t) \/ SubmitFails(t)
      PROVE  TypeOK' /\ Inv'
  BY <1>3, FindAnswerInv, UpsertSelectInv, UpsertWriteInv, SubmitFailsInv
<1>4. ASSUME NEW s \in Supervisors,
             \/ Review(s) \/ LoadContext(s) \/ Register(s) \/ MarkPromoted(s) \/ WriteCase(s)
             \/ Relink(s) \/ JobFails(s) \/ StartRun(s) \/ EndRun(s)
      PROVE  TypeOK' /\ Inv'
  BY <1>4, ReviewInv, LoadContextInv, RegisterInv, MarkPromotedInv, WriteCaseInv, RelinkInv,
     JobFailsInv, StartRunInv, EndRunInv
<1>5. CASE Expire /\ UNCHANGED feedbackVars
  BY <1>5, ExpireInv
<1>6. QED
  BY <1>1, <1>2, <1>3, <1>4, <1>5 DEF Next

\* Every reachable state is well typed and satisfies the inductive invariant.
THEOREM Invariance == Spec => [](TypeOK /\ Inv)
BY InitInv, StepInv, PTL DEF Spec

\* Every variable keeps its type: the transcripts stay sequences of answers with
\* a known rating, the index and the registry hold known ids only, and every
\* request is in a stage of its operation.
THEOREM TypeCorrect == Spec => []TypeOK
BY Invariance, PTL

\* append_exchange and set_assistant_feedback write back a copy, yet a transcript
\* not saved over something unread is what its saves add up to one by one.
THEOREM TranscriptsAreSerial == Spec => []SerialTranscript
<1>1. Inv => SerialTranscript
  BY DEF Inv, StoreInv
<1>2. QED
  BY <1>1, Invariance, PTL

\* list_recent prunes on what it saw earlier, yet a conversation that never
\* expired stays in the sorted set as long as its record is there.
THEOREM ListedUntilExpired == Spec => []NeverExpiredIsListed
<1>1. Inv => NeverExpiredIsListed
  BY DEF Inv, StoreInv, ListingInv, NeverExpiredIsListed
<1>2. QED
  BY <1>1, Invariance, PTL

\* submit_feedback copies into the transcript only what Java acknowledged: a
\* rating shown beside an answer was stored for that answer.
THEOREM RatingsAreStored == Spec => []ShownRatingsAreStored
<1>1. Inv => ShownRatingsAreStored
  BY DEF Inv
<1>2. QED
  BY <1>1, Invariance, PTL

\* A promotion stopped after any of its steps leaves no row without its bad case
\* in the registry and no bad case linked to a case that was never written.
THEOREM PromotionsStayBacked == Spec => []PromotionsAreBacked
<1>1. Inv => PromotionsAreBacked
  BY DEF Inv, LoopInv
<1>2. QED
  BY <1>1, Invariance, PTL

\* Promotions retried and run side by side never write two cases for one bad
\* case or two cases with one message.
THEOREM CasesStayUnique == Spec => []CasesAreUnique
<1>1. Inv => CasesAreUnique
  BY DEF Inv, LoopInv
<1>2. QED
  BY <1>1, Invariance, PTL

\* A regression run that says it passed replayed and passed every bad case a
\* row named when it began, and the history stays within MAX_STORED_RUNS.
THEOREM PassedRunsCover == Spec => []PassedRunsCoverPromotions
<1>1. Inv => PassedRunsCoverPromotions
  BY DEF Inv, LoopInv
<1>2. QED
  BY <1>1, Invariance, PTL
=============================================================================
