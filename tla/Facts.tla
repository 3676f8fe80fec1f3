------------------------------- MODULE Facts -------------------------------
(***************************************************************************)
(* What the proofs share: facts about numbers and sequences, then facts    *)
(* about the messages and about compaction, for every history.             *)
(***************************************************************************)
EXTENDS History, SequencesExt, SequenceTheorems, FiniteSetTheorems, TLAPS

-----------------------------------------------------------------------------
(* Numbers.  The provers have no induction that takes a predicate; finite  *)
(* sets are well founded, and induction over a set follows.                *)

(* A set of naturals that is not empty has a least element.  *)
LEMMA Least ==
    ASSUME NEW S \in SUBSET Nat, S # {}
    PROVE  \E n \in S : \A m \in S : n <= m
<1> DEFINE R == StrictSubsetOrdering(Nat)
           F == FiniteSubsetsOf(Nat)
           T == {1 .. n : n \in S}
<1>1. IsWellFoundedOn(R, F)
  BY FS_StrictSubsetOrderingWellFounded
<1>2. T \subseteq F /\ T # {}
  <2>1. \A n \in S : IsFiniteSet(1 .. n) /\ 1 .. n \in SUBSET Nat
    BY FS_Interval
  <2> QED
    BY <2>1 DEF FiniteSubsetsOf
<1>3. \E x \in T : \A y \in T : ~(<<y, x>> \in R)
  <2> HIDE DEF R, F, T
  <2> QED
    BY <1>1, <1>2, WFMin
<1>4. PICK n \in S : \A m \in S : ~(<<1 .. m, 1 .. n>> \in R)
  BY <1>3
<1>5. ASSUME NEW m \in S, m < n
      PROVE  <<1 .. m, 1 .. n>> \in R
  <2>1. 1 .. m \subseteq 1 .. n /\ n \in 1 .. n /\ n \notin 1 .. m
    BY <1>5
  <2>2. 1 .. m \in SUBSET Nat /\ 1 .. n \in SUBSET Nat
    OBVIOUS
  <2> QED
    BY <2>1, <2>2 DEF StrictSubsetOrdering
<1> HIDE DEF R, F, T
<1>6. \A m \in S : ~(m < n)
  BY <1>4, <1>5
<1>7. \A m \in S : n <= m
  BY <1>6
<1> QED
  BY <1>7

(* Peano's induction, over a set.  *)
LEMMA InductionOverASet ==
    ASSUME NEW S, 0 \in S, \A n \in Nat : n \in S => n + 1 \in S
    PROVE  Nat \subseteq S
<1> SUFFICES ASSUME Nat \ S # {}
             PROVE  FALSE
  OBVIOUS
<1>1. PICK n \in Nat \ S : \A m \in Nat \ S : n <= m
  <2> DEFINE M == Nat \ S
  <2>1. M \in SUBSET Nat /\ M # {}
    OBVIOUS
  <2> HIDE DEF M
  <2>2. \E n \in M : \A m \in M : n <= m
    BY <2>1, Least
  <2> QED
    BY <2>2 DEF M
<1>2. n # 0 /\ n - 1 \in Nat
  OBVIOUS
<1>3. n - 1 \in S
  BY <1>1, <1>2
<1> QED
  BY <1>2, <1>3

-----------------------------------------------------------------------------
(* One sequence after the other.                                           *)

\* A function on 1..k that joins the first k sequences.
IsJoining(f, ss, k) ==
    f = [i \in 1 .. k |-> IF i = 1 THEN ss[1] ELSE f[i - 1] \o ss[i]]

Joinable(ss) == {k \in Nat : \E f : IsJoining(f, ss, k)}

LEMMA JoiningGrows ==
    ASSUME NEW ss, NEW k \in Nat, k \in Joinable(ss)
    PROVE  k + 1 \in Joinable(ss)
<1>1. PICK f : IsJoining(f, ss, k)
  BY DEF Joinable
<1> DEFINE last == IF k = 0 THEN ss[1] ELSE f[k] \o ss[k + 1]
           next == [i \in 1 .. (k + 1) |-> IF i = k + 1 THEN last ELSE f[i]]
<1>2. \A i \in 1 .. k : f[i] = IF i = 1 THEN ss[1] ELSE f[i - 1] \o ss[i]
  BY <1>1 DEF IsJoining
<1>3. /\ \A i \in 1 .. k : next[i] = f[i]
      /\ next[k + 1] = IF k = 0 THEN ss[1] ELSE f[k] \o ss[k + 1]
  <2>1. k + 1 \in 1 .. (k + 1) /\ \A i \in 1 .. k : i \in 1 .. (k + 1) /\ i # k + 1
    OBVIOUS
  <2> QED
    BY <2>1
<1>4. next = [i \in 1 .. (k + 1) |-> next[i]]
  OBVIOUS
<1> HIDE DEF next, last
<1>5. ASSUME NEW i \in 1 .. (k + 1)
      PROVE  next[i] = IF i = 1 THEN ss[1] ELSE next[i - 1] \o ss[i]
  <2>1. CASE i = k + 1
    <3>1. i = 1 <=> k = 0
      BY <2>1
    <3>2. i # 1 => i - 1 = k /\ k \in 1 .. k
      BY <2>1
    <3> QED
      BY <1>3, <2>1, <3>1, <3>2
  <2>2. CASE i \in 1 .. k
    <3>1. i # 1 => i - 1 \in 1 .. k
      BY <2>2
    <3> QED
      BY <1>2, <1>3, <2>2, <3>1
  <2> QED
    BY <2>1, <2>2
<1>6. IsJoining(next, ss, k + 1)
  BY <1>4, <1>5 DEF IsJoining
<1> QED
  BY <1>6 DEF Joinable

LEMMA FlattenIs ==
    ASSUME NEW S, NEW ss \in Seq(Seq(S))
    PROVE  /\ Len(ss) = 0 => FlattenSeq(ss) = <<>>
           /\ Len(ss) # 0 => \E f : IsJoining(f, ss, Len(ss)) /\ FlattenSeq(ss) = f[Len(ss)]
<1>1. CASE Len(ss) = 0
  <2>1. ss = <<>>
    BY <1>1
  <2> QED
    BY <1>1, <2>1 DEF FlattenSeq
<1>2. CASE Len(ss) # 0
  <2>1. 0 \in Joinable(ss)
    <3> DEFINE f == [i \in 1 .. 0 |-> ss]
    <3>1. IsJoining(f, ss, 0)
      BY DEF IsJoining
    <3> QED
      BY <3>1 DEF Joinable
  <2>2. Nat \subseteq Joinable(ss)
    BY <2>1, JoiningGrows, InductionOverASet
  <2>3. \E f : IsJoining(f, ss, Len(ss))
    BY <2>2 DEF Joinable
  <2> DEFINE joined == CHOOSE f : IsJoining(f, ss, Len(ss))
  <2>4. IsJoining(joined, ss, Len(ss))
    BY <2>3
  <2> DEFINE made == CHOOSE f : f = [i \in 1 .. Len(ss) |->
                        IF i = 1 THEN ss[i] ELSE f[i - 1] \o ss[i]]
  <2>5. FlattenSeq(ss) = made[Len(ss)]
    BY <1>2 DEF FlattenSeq
  <2>6. \A f : IsJoining(f, ss, Len(ss)) <=>
             f = [i \in 1 .. Len(ss) |-> IF i = 1 THEN ss[i] ELSE f[i - 1] \o ss[i]]
    <3> TAKE f
    <3>1. [i \in 1 .. Len(ss) |-> IF i = 1 THEN ss[1] ELSE f[i - 1] \o ss[i]]
              = [i \in 1 .. Len(ss) |-> IF i = 1 THEN ss[i] ELSE f[i - 1] \o ss[i]]
      OBVIOUS
    <3> QED
      BY <3>1 DEF IsJoining
  <2>7. IsJoining(made, ss, Len(ss))
    BY <2>4, <2>6
  <2> QED
    BY <1>2, <2>5, <2>7
<1> QED
  BY <1>1, <1>2

(* Joining one sequence more adds it at the end.                           *)
LEMMA FlattenAppends ==
    ASSUME NEW S, NEW ss \in Seq(Seq(S)), NEW s \in Seq(S)
    PROVE  FlattenSeq(Append(ss, s)) = FlattenSeq(ss) \o s
<1> DEFINE n == Len(ss)
           more == Append(ss, s)
<1>1. /\ n \in Nat /\ more \in Seq(Seq(S)) /\ Len(more) = n + 1 /\ more[n + 1] = s
      /\ \A i \in 1 .. n : more[i] = ss[i]
  OBVIOUS
<1> HIDE DEF more
<1>2. PICK g : IsJoining(g, more, n + 1) /\ FlattenSeq(more) = g[n + 1]
  <2>1. Len(more) # 0
    BY <1>1
  <2> QED
    BY <1>1, <2>1, FlattenIs
<1>3. \A i \in 1 .. (n + 1) : g[i] = IF i = 1 THEN more[1] ELSE g[i - 1] \o more[i]
  BY <1>2 DEF IsJoining
<1>4. CASE n = 0
  <2>1. FlattenSeq(ss) = <<>>
    BY <1>4, FlattenIs
  <2>3. n + 1 = 1 /\ 1 \in 1 .. (n + 1)
    BY <1>1, <1>4
  <2>4. g[n + 1] = s
    BY <1>1, <1>3, <2>3
  <2>2. <<>> \o s = s
    OBVIOUS
  <2> QED
    BY <1>2, <2>1, <2>2, <2>4 DEF more
<1>5. CASE n # 0
  <2>1. PICK f : IsJoining(f, ss, n) /\ FlattenSeq(ss) = f[n]
    BY <1>5, FlattenIs
  <2>2. \A i \in 1 .. n : f[i] = IF i = 1 THEN ss[1] ELSE f[i - 1] \o ss[i]
    BY <2>1 DEF IsJoining
  <2> DEFINE Same == {k \in Nat : k + 1 <= n => f[k + 1] = g[k + 1]}
  <2>3. 0 \in Same
    <3>1. 1 \in 1 .. n /\ 1 \in 1 .. (n + 1)
      BY <1>1, <1>5
    <3> QED
      BY <1>1, <1>3, <2>2, <3>1
  <2>4. ASSUME NEW k \in Nat, k \in Same
        PROVE  k + 1 \in Same
    <3> SUFFICES ASSUME (k + 1) + 1 <= n
                 PROVE  f[(k + 1) + 1] = g[(k + 1) + 1]
      OBVIOUS
    <3>1. /\ (k + 1) + 1 \in 1 .. n /\ (k + 1) + 1 \in 1 .. (n + 1) /\ (k + 1) + 1 # 1
          /\ ((k + 1) + 1) - 1 = k + 1
      BY <1>1
    <3>2. f[k + 1] = g[k + 1]
      BY <1>1, <2>4
    <3>3. /\ f[(k + 1) + 1] = f[k + 1] \o ss[(k + 1) + 1]
          /\ g[(k + 1) + 1] = g[k + 1] \o more[(k + 1) + 1]
      BY <1>3, <2>2, <3>1
    <3> QED
      BY <1>1, <3>1, <3>2, <3>3
  <2> HIDE DEF Same
  <2>5. Nat \subseteq Same
    BY <2>3, <2>4, InductionOverASet
  <2>6. n - 1 \in Nat /\ (n - 1) + 1 = n
    BY <1>1, <1>5
  <2>7. f[n] = g[n]
    <3>1. n - 1 \in Same
      BY <2>5, <2>6
    <3>2. (n - 1) + 1 <= n => f[(n - 1) + 1] = g[(n - 1) + 1]
      BY <3>1 DEF Same
    <3> QED
      BY <1>1, <2>6, <3>2
  <2>8. n + 1 \in 1 .. (n + 1) /\ n + 1 # 1 /\ (n + 1) - 1 = n
    BY <1>1, <1>5
  <2>9. g[n + 1] = g[n] \o s
    BY <1>1, <1>3, <2>8
  <2> QED
    BY <1>2, <2>1, <2>7, <2>9 DEF more
<1> QED
  BY <1>4, <1>5

LEMMA FlattenType ==
    ASSUME NEW S, NEW ss \in Seq(Seq(S))
    PROVE  FlattenSeq(ss) \in Seq(S)
<1> DEFINE n == Len(ss)
<1>1. n \in Nat
  OBVIOUS
<1>2. CASE n = 0
  <2>1. FlattenSeq(ss) = <<>>
    BY <1>2, FlattenIs
  <2> QED
    BY <2>1
<1>3. CASE n # 0
  <2>1. PICK f : IsJoining(f, ss, n) /\ FlattenSeq(ss) = f[n]
    BY <1>3, FlattenIs
  <2>2. \A i \in 1 .. n : f[i] = IF i = 1 THEN ss[1] ELSE f[i - 1] \o ss[i]
    BY <2>1 DEF IsJoining
  <2> DEFINE Typed == {k \in Nat : k + 1 <= n => f[k + 1] \in Seq(S)}
  <2>3. 0 \in Typed
    <3>1. 1 \in 1 .. n /\ ss[1] \in Seq(S)
      BY <1>1, <1>3
    <3> QED
      BY <2>2, <3>1
  <2>4. ASSUME NEW k \in Nat, k \in Typed
        PROVE  k + 1 \in Typed
    <3> SUFFICES ASSUME (k + 1) + 1 <= n
                 PROVE  f[(k + 1) + 1] \in Seq(S)
      OBVIOUS
    <3>1. (k + 1) + 1 \in 1 .. n /\ (k + 1) + 1 # 1 /\ ((k + 1) + 1) - 1 = k + 1
      BY <1>1
    <3>2. f[k + 1] \in Seq(S) /\ ss[(k + 1) + 1] \in Seq(S)
      BY <1>1, <2>4, <3>1
    <3>3. f[(k + 1) + 1] = f[k + 1] \o ss[(k + 1) + 1]
      BY <2>2, <3>1
    <3> QED
      BY <3>2, <3>3
  <2> HIDE DEF Typed
  <2>5. Nat \subseteq Typed
    BY <2>3, <2>4, InductionOverASet
  <2>6. n - 1 \in Nat /\ (n - 1) + 1 = n
    BY <1>1, <1>3
  <2>7. n - 1 \in Typed
    BY <2>5, <2>6
  <2>8. (n - 1) + 1 <= n => f[(n - 1) + 1] \in Seq(S)
    BY <2>7 DEF Typed
  <2> QED
    BY <1>1, <2>1, <2>6, <2>8
<1> QED
  BY <1>2, <1>3

(* Another last element.                                                   *)
LEMMA LastReplaced ==
    ASSUME NEW S, NEW ls \in Seq(S), ls # <<>>, NEW l \in S,
           NEW es, es = [ls EXCEPT ![Len(ls)] = l]
    PROVE  /\ es \in Seq(S) /\ es # <<>> /\ Len(es) = Len(ls) /\ es[Len(es)] = l
           /\ \A i \in 1..Len(ls) : i # Len(ls) => es[i] = ls[i]
<1>1. Len(ls) \in 1..Len(ls)
  OBVIOUS
<1> QED
  BY <1>1

-----------------------------------------------------------------------------
(* The messages.                                                           *)

\* A message of results makes no calls: messages have one role.
OneRole(ms) == \A i \in 1 .. Len(ms) :
                 ms[i].answers # {} => ms[i].role = "user" /\ ms[i].uses = {}

\* What every context of the loop satisfies.
Paired(ms) == OneRole(ms) /\ NoOrphanResults(ms)

-----------------------------------------------------------------------------

(* The messages the loop builds are messages, and what they hold.          *)
LEMMA MessageTypes ==
    ASSUME NEW Ids
    PROVE  /\ UserMessage \in Message(Ids)
           /\ Marker \in Message(Ids)
           /\ UserMessage.answers = {} /\ UserMessage.uses = {}
           /\ Marker.answers = {} /\ Marker.uses = {}
           /\ \A ids \in SUBSET Ids :
                /\ ResultsMessage(ids) \in Message(Ids)
                /\ ResultsMessage(ids).answers = ids
                /\ ResultsMessage(ids).uses = {}
                /\ ResultsMessage(ids).role = "user"
                /\ ResultsMessage(ids) # UserMessage
           /\ \A ids \in SUBSET Ids, body \in Bodies, discarded \in BOOLEAN :
                /\ AssistantMessage(ids, body, discarded) \in Message(Ids)
                /\ AssistantMessage(ids, body, discarded).uses = ids
                /\ AssistantMessage(ids, body, discarded).answers = {}
    BY DEF UserMessage, Marker, ResultsMessage, AssistantMessage, Message, Bodies

(* Appending to a paired history: a message that answers nothing, or the    *)
(* answers to calls of the last message.                                   *)
LEMMA PairedAppend ==
    ASSUME NEW Ids, NEW ms \in Seq(Message(Ids)), Paired(ms),
           NEW m \in Message(Ids),
           m.answers # {} =>
             /\ m.role = "user" /\ m.uses = {}
             /\ Len(ms) > 0 /\ m.answers \subseteq ms[Len(ms)].uses
    PROVE  Paired(Append(ms, m))
    BY DEF Paired, OneRole, NoOrphanResults

(* In a paired history two messages of results are never adjacent, so the   *)
(* tail of a compaction starts at the cut or one message later, and at the *)
(* cut when the history does not end in results.                           *)
LEMMA TailStartIsNear ==
    ASSUME NEW Ids, NEW ms \in Seq(Message(Ids)), Paired(ms),
           NEW keep \in Nat \ {0}, CanCompact(ms, keep)
    PROVE  /\ IsTailStart(ms, keep, TailStart(ms, keep))
           /\ TailStart(ms, keep) \in 3 .. Len(ms) + 1
           /\ ms[Len(ms)].answers = {} => TailStart(ms, keep) <= Len(ms)
<1> DEFINE cut == Len(ms) - keep + 1
<1>1. cut \in 3 .. Len(ms)
  BY DEF CanCompact, HEAD
<1>2. \E t \in 1 .. (Len(ms) + 1) : IsTailStart(ms, keep, t)
  <2>1. CASE ~StartsWithToolResult(ms[cut])
    BY <1>1, <2>1 DEF IsTailStart
  <2>2. CASE StartsWithToolResult(ms[cut])
    <3>1. ms[cut].uses = {}
      BY <1>1, <2>2 DEF Paired, OneRole, StartsWithToolResult
    <3>2. cut + 1 <= Len(ms) => ms[cut + 1].answers = {}
      BY <1>1, <3>1 DEF Paired, NoOrphanResults
    <3>3. IsTailStart(ms, keep, cut + 1)
      BY <1>1, <2>2, <3>2 DEF IsTailStart, StartsWithToolResult
    <3> QED BY <1>1, <3>3
  <2> QED BY <2>1, <2>2
<1>3. IsTailStart(ms, keep, TailStart(ms, keep))
  BY <1>2 DEF TailStart
<1>4. TailStart(ms, keep) \in cut .. Len(ms) + 1
  BY <1>3 DEF IsTailStart
<1>5. ASSUME ms[Len(ms)].answers = {}
      PROVE  TailStart(ms, keep) <= Len(ms)
  <2>1. SUFFICES ASSUME TailStart(ms, keep) = Len(ms) + 1 PROVE FALSE
    BY <1>1, <1>4
  <2>2. StartsWithToolResult(ms[Len(ms)])
    BY <1>1, <1>3, <2>1 DEF IsTailStart
  <2> QED BY <1>5, <2>2 DEF StartsWithToolResult
<1> QED BY <1>1, <1>3, <1>4, <1>5

(* What compaction leaves, element by element.                             *)
LEMMA CompactedShape ==
    ASSUME NEW Ids, NEW ms \in Seq(Message(Ids)), Paired(ms),
           NEW keep \in Nat \ {0}, CanCompact(ms, keep)
    PROVE  LET small == Compacted(ms, keep)
               from == TailStart(ms, keep)
           IN  /\ small \in Seq(Message(Ids))
               /\ Len(small) = Len(ms) - from + 3
               /\ small[1] = ms[1] /\ small[2] = Marker
               /\ \A i \in 3 .. Len(small) : small[i] = ms[from + i - 3]
<1> DEFINE from == TailStart(ms, keep)
           tail == SubSeq(ms, from, Len(ms))
           start == <<ms[HEAD], Marker>>
<1>1. from \in 3 .. Len(ms) + 1 /\ Len(ms) >= 4
  BY TailStartIsNear DEF CanCompact, HEAD
<1>2. /\ tail \in Seq(Message(Ids))
      /\ Len(tail) = Len(ms) - from + 1
      /\ \A i \in 1 .. Len(tail) : tail[i] = ms[from + i - 1]
  <2>1. \A i \in from .. Len(ms) : ms[i] \in Message(Ids)
    BY <1>1
  <2>2. from \in Int /\ Len(ms) \in Int
    BY <1>1
  <2> HIDE DEF from
  <2>3. /\ SubSeq(ms, from, Len(ms)) \in Seq(Message(Ids))
        /\ Len(SubSeq(ms, from, Len(ms))) = IF from <= Len(ms) THEN Len(ms) - from + 1 ELSE 0
        /\ \A i \in 1 .. Len(ms) - from + 1 : SubSeq(ms, from, Len(ms))[i] = ms[from + i - 1]
    BY <2>1, <2>2, SubSeqProperties
  <2> QED BY <1>1, <2>3
<1>3. start \in Seq(Message(Ids)) /\ Len(start) = 2
      /\ start[1] = ms[1] /\ start[2] = Marker
  <2>1. ms[1] \in Message(Ids) /\ Marker \in Message(Ids)
    BY <1>1, MessageTypes
  <2> QED BY <2>1 DEF HEAD
<1>4. Compacted(ms, keep) = start \o tail
  BY DEF Compacted
<1> HIDE DEF start, tail, from
<1>5. /\ start \o tail \in Seq(Message(Ids))
      /\ Len(start \o tail) = Len(start) + Len(tail)
      /\ \A i \in 1 .. Len(start) + Len(tail) : (start \o tail)[i] =
            IF i <= Len(start) THEN start[i] ELSE tail[i - Len(start)]
  BY <1>2, <1>3, ConcatProperties
<1>6. Len(start \o tail) = Len(ms) - from + 3
  BY <1>1, <1>2, <1>3, <1>5
<1>7. (start \o tail)[1] = ms[1] /\ (start \o tail)[2] = Marker
  BY <1>1, <1>2, <1>3, <1>5
<1>8. \A i \in 3 .. Len(start \o tail) : (start \o tail)[i] = ms[from + i - 3]
  <2>1. TAKE i \in 3 .. Len(start \o tail)
  <2>2. i \in 1 .. Len(start) + Len(tail) /\ ~(i <= Len(start))
        /\ i - Len(start) = i - 2 /\ i - 2 \in 1 .. Len(tail)
    BY <1>1, <1>2, <1>3, <1>6, <2>1
  <2>3. (start \o tail)[i] = tail[i - 2]
    BY <1>5, <2>2
  <2>4. tail[i - 2] = ms[from + (i - 2) - 1]
    BY <1>2, <2>2
  <2> QED BY <1>1, <2>1, <2>3, <2>4
<1> QED BY <1>4, <1>5, <1>6, <1>7, <1>8 DEF from

(* Compaction never separates a call from its result: the history it leaves *)
(* is paired, whatever its length and whatever it keeps, and it ends as it *)
(* did unless it ended in results.                                         *)
THEOREM CompactionKeepsPaired ==
    ASSUME NEW Ids, NEW ms \in Seq(Message(Ids)), Paired(ms),
           NEW keep \in Nat \ {0}, CanCompact(ms, keep)
    PROVE  LET small == Compacted(ms, keep)
           IN  /\ small \in Seq(Message(Ids))
               /\ Paired(small)
               /\ Len(small) >= 2 /\ Len(small) <= Len(ms)
               /\ ms[Len(ms)].answers = {} => small[Len(small)] = ms[Len(ms)]
<1> DEFINE from == TailStart(ms, keep)
           small == Compacted(ms, keep)
<1>1. /\ from \in 3 .. Len(ms) + 1
      /\ from <= Len(ms) => ms[from].answers = {}
      /\ ms[Len(ms)].answers = {} => from <= Len(ms)
  <2>1. /\ from \in 3 .. Len(ms) + 1
        /\ IsTailStart(ms, keep, from)
        /\ ms[Len(ms)].answers = {} => from <= Len(ms)
    BY TailStartIsNear
  <2>2. from <= Len(ms) => ms[from].answers = {}
    BY <2>1 DEF IsTailStart, StartsWithToolResult, Paired, OneRole
  <2> QED BY <2>1, <2>2
<1>2. /\ small \in Seq(Message(Ids))
      /\ Len(small) = Len(ms) - from + 3
      /\ small[1] = ms[1] /\ small[2] = Marker
      /\ \A i \in 3 .. Len(small) : small[i] = ms[from + i - 3]
  BY CompactedShape
<1> HIDE DEF from, small
<1>3. Len(small) >= 2 /\ Len(small) < Len(ms) + 1
  BY <1>1, <1>2
<1>4. OneRole(small)
  <2>1. SUFFICES ASSUME NEW i \in 1 .. Len(small), small[i].answers # {}
                 PROVE  small[i].role = "user" /\ small[i].uses = {}
    BY DEF OneRole
  <2>2. i = 1 \/ i \in 3 .. Len(small)
    BY <1>2, <2>1, MessageTypes
  <2>3. PICK j \in 1 .. Len(ms) : small[i] = ms[j]
    BY <1>1, <1>2, <1>3, <2>2, SMTT(30)
  <2> QED BY <2>1, <2>3 DEF Paired, OneRole
<1>5. NoOrphanResults(small)
  <2>1. SUFFICES ASSUME NEW i \in 1 .. Len(small), small[i].answers # {}
                 PROVE  i > 1 /\ small[i].answers \subseteq small[i - 1].uses
    BY DEF NoOrphanResults
  <2>2. i # 1
    BY <1>1, <1>2, <2>1 DEF Paired, NoOrphanResults
  <2>3. i # 2
    BY <1>2, <2>1, MessageTypes
  <2>4. i # 3
    BY <1>1, <1>2, <2>1
  <2>5. i - 1 \in 3 .. Len(small) /\ i \in 3 .. Len(small)
    BY <2>1, <2>2, <2>3, <2>4, <1>2, <1>1
  <2>6. small[i] = ms[from + i - 3] /\ small[i - 1] = ms[from + i - 4]
    <3>1. small[i] = ms[from + i - 3] /\ small[i - 1] = ms[from + (i - 1) - 3]
      BY <1>2, <2>5
    <3>2. from + (i - 1) - 3 = from + i - 4
      BY <1>1, <2>5
    <3> QED BY <3>1, <3>2
  <2>7. from + i - 3 \in 1 .. Len(ms) /\ (from + i - 3) - 1 = from + i - 4
    BY <1>1, <1>2, <2>5, SMTT(30)
  <2>8. ms[from + i - 3].answers \subseteq ms[(from + i - 3) - 1].uses
    BY <2>1, <2>6, <2>7 DEF Paired, NoOrphanResults
  <2> QED BY <2>5, <2>6, <2>7, <2>8
<1>6. ASSUME ms[Len(ms)].answers = {}
      PROVE  small[Len(small)] = ms[Len(ms)]
  <2>1. Len(small) \in 3 .. Len(small) /\ from + Len(small) - 3 = Len(ms)
    BY <1>1, <1>2, <1>6
  <2> QED BY <1>2, <2>1
<1> QED BY <1>2, <1>3, <1>4, <1>5, <1>6 DEF small, Paired

-----------------------------------------------------------------------------
(* Calls and their answers in a record that grows at its end.              *)

\* Only the last message may have calls without answers.
ClosedButLast(js) ==
    \A i \in 1 .. Len(js) : js[i].uses # {} => CallIsAnswered(js, i) \/ i = Len(js)

(* Saying something after every call was answered.                         *)
LEMMA ClosedAppend ==
    ASSUME NEW Ids, NEW js \in Seq(Message(Ids)), AllCallsAnswered(js),
           NEW m \in Message(Ids)
    PROVE  /\ ClosedButLast(Append(js, m))
           /\ m.uses = {} => AllCallsAnswered(Append(js, m))
    BY DEF ClosedButLast, AllCallsAnswered, CallIsAnswered

(* Answering the calls of the last message closes the record.              *)
LEMMA AnswersClose ==
    ASSUME NEW Ids, NEW js \in Seq(Message(Ids)), ClosedButLast(js), Len(js) > 0,
           NEW m \in Message(Ids), m.uses = {}, m.answers = js[Len(js)].uses
    PROVE  AllCallsAnswered(Append(js, m))
    BY DEF ClosedButLast, AllCallsAnswered, CallIsAnswered

(* A record whose last message calls nothing is closed.                    *)
LEMMA ClosedAtTheEnd ==
    ASSUME NEW Ids, NEW js \in Seq(Message(Ids)), ClosedButLast(js),
           Len(js) > 0 => js[Len(js)].uses = {}
    PROVE  AllCallsAnswered(js)
    BY DEF ClosedButLast, AllCallsAnswered

(* Any number of user messages may follow a paired context and a closed     *)
(* record.                                                                 *)
LEMMA UserMessagesFollow ==
    ASSUME NEW Ids, NEW ms \in Seq(Message(Ids)), NEW n \in Nat,
           NEW said, said = [i \in 1 .. n |-> UserMessage]
    PROVE  /\ ms \o said \in Seq(Message(Ids))
           /\ Len(ms \o said) = Len(ms) + n
           /\ Paired(ms) => Paired(ms \o said)
           /\ AllCallsAnswered(ms) => AllCallsAnswered(ms \o said)
<1>1. said \in Seq(Message(Ids)) /\ Len(said) = n
      /\ \A i \in 1 .. n : said[i] = UserMessage
  BY MessageTypes
<1>2. /\ ms \o said \in Seq(Message(Ids))
      /\ Len(ms \o said) = Len(ms) + n
      /\ \A i \in 1 .. Len(ms) + n : (ms \o said)[i] =
            IF i <= Len(ms) THEN ms[i] ELSE UserMessage
  BY <1>1, ConcatProperties
<1> DEFINE both == ms \o said
<1> HIDE DEF both
<1>3. Paired(ms) => Paired(both)
  BY <1>2, MessageTypes DEF both, Paired, OneRole, NoOrphanResults
<1>4. AllCallsAnswered(ms) => AllCallsAnswered(both)
  BY <1>2, MessageTypes DEF both, AllCallsAnswered, CallIsAnswered
<1> QED BY <1>2, <1>3, <1>4 DEF both

-----------------------------------------------------------------------------
(* A context against the record it comes from.                             *)

\* The record abridged: its first message, the marker, and its end.
Abridged(rec, from) == <<rec[1], Marker>> \o SubSeq(rec, from, Len(rec))

\* The context is the record itself, or the record abridged.
View(ms, rec) ==
    \/ ms = rec
    \/ \E from \in 2 .. Len(rec) + 1 : ms = Abridged(rec, from)

\* The record abridged, message by message.
IsAbridged(ms, rec, from) ==
    /\ Len(ms) = Len(rec) - from + 3
    /\ ms[1] = rec[1] /\ ms[2] = Marker
    /\ \A i \in 3 .. Len(ms) : ms[i] = rec[from + i - 3]

LEMMA AbridgedShape ==
    ASSUME NEW S, Marker \in S, NEW rec \in Seq(S), NEW from \in 2 .. Len(rec) + 1
    PROVE  Abridged(rec, from) \in Seq(S) /\ IsAbridged(Abridged(rec, from), rec, from)
<1> DEFINE start == <<rec[1], Marker>>
           tail == SubSeq(rec, from, Len(rec))
<1>1. start \in Seq(S) /\ Len(start) = 2 /\ start[1] = rec[1] /\ start[2] = Marker
  <2>1. rec[1] \in S
    OBVIOUS
  <2> QED BY <2>1
<1>2. /\ tail \in Seq(S) /\ Len(tail) = Len(rec) - from + 1
      /\ \A i \in 1 .. Len(rec) - from + 1 : tail[i] = rec[from + i - 1]
  <2>1. from \in Int /\ Len(rec) \in Int /\ \A i \in from .. Len(rec) : rec[i] \in S
    OBVIOUS
  <2>2. from <= Len(rec) \/ Len(rec) - from + 1 = 0
    OBVIOUS
  <2> QED BY <2>1, <2>2, SubSeqProperties
<1>3. Abridged(rec, from) = start \o tail
  BY DEF Abridged
<1> HIDE DEF start, tail
<1>4. /\ start \o tail \in Seq(S) /\ Len(start \o tail) = Len(start) + Len(tail)
      /\ \A i \in 1 .. Len(start) + Len(tail) : (start \o tail)[i] =
            IF i <= Len(start) THEN start[i] ELSE tail[i - Len(start)]
  BY <1>1, <1>2, ConcatProperties
<1>5. \A i \in 3 .. Len(start \o tail) : (start \o tail)[i] = rec[from + i - 3]
  <2>1. TAKE i \in 3 .. Len(start \o tail)
  <2>2. (start \o tail)[i] = tail[i - 2] /\ i - 2 \in 1 .. Len(rec) - from + 1
    BY <1>1, <1>2, <1>4
  <2>3. tail[i - 2] = rec[from + (i - 2) - 1] /\ from + (i - 2) - 1 = from + i - 3
    BY <1>2, <2>2
  <2> QED BY <2>2, <2>3
<1>6. (start \o tail)[1] = rec[1] /\ (start \o tail)[2] = Marker
  BY <1>1, <1>2, <1>4
<1>7. Len(start \o tail) = Len(rec) - from + 3
  BY <1>1, <1>2, <1>4
<1> QED BY <1>3, <1>4, <1>5, <1>6, <1>7 DEF IsAbridged

LEMMA AbridgedIs ==
    ASSUME NEW S, Marker \in S, NEW rec \in Seq(S), NEW from \in 2 .. Len(rec) + 1,
           NEW ms \in Seq(S), IsAbridged(ms, rec, from)
    PROVE  ms = Abridged(rec, from)
<1> DEFINE x == Abridged(rec, from)
<1>1. x \in Seq(S) /\ IsAbridged(x, rec, from)
  BY AbridgedShape
<1> HIDE DEF x
<1>2. Len(ms) = Len(x) /\ \A i \in 1 .. Len(ms) : ms[i] = x[i]
  <2>1. ASSUME NEW i \in 1 .. Len(ms) PROVE i = 1 \/ i = 2 \/ i \in 3 .. Len(ms)
    OBVIOUS
  <2> QED BY <1>1, <2>1 DEF IsAbridged
<1>3. ms = x
  BY <1>1, <1>2, SeqEqual
<1> QED BY <1>3 DEF x

(* A context that is a view of the record is one still when the same is     *)
(* said on both sides.                                                     *)
LEMMA ViewGrows ==
    ASSUME NEW S, Marker \in S, NEW ms \in Seq(S), NEW rec \in Seq(S), NEW s \in Seq(S),
           View(ms, rec)
    PROVE  View(ms \o s, rec \o s)
<1>1. CASE ms = rec
  BY <1>1 DEF View
<1>2. ASSUME NEW from \in 2 .. Len(rec) + 1, ms = Abridged(rec, from)
      PROVE  View(ms \o s, rec \o s)
  <2> DEFINE m2 == ms \o s
             r2 == rec \o s
  <2>1. IsAbridged(ms, rec, from)
    BY <1>2, AbridgedShape
  <2>2. /\ m2 \in Seq(S) /\ Len(m2) = Len(ms) + Len(s)
        /\ \A i \in 1 .. Len(ms) + Len(s) :
             m2[i] = IF i <= Len(ms) THEN ms[i] ELSE s[i - Len(ms)]
    BY ConcatProperties
  <2>3. /\ r2 \in Seq(S) /\ Len(r2) = Len(rec) + Len(s)
        /\ \A i \in 1 .. Len(rec) + Len(s) :
             r2[i] = IF i <= Len(rec) THEN rec[i] ELSE s[i - Len(rec)]
    BY ConcatProperties
  <2> HIDE DEF m2, r2
  <2>4. Len(m2) = Len(r2) - from + 3 /\ from \in 2 .. Len(r2) + 1
    BY <2>1, <2>2, <2>3 DEF IsAbridged
  <2>5. m2[1] = r2[1] /\ m2[2] = Marker
    <3>1. Len(ms) >= 2 /\ Len(rec) >= 1
      BY <2>1 DEF IsAbridged
    <3>2. m2[1] = ms[1] /\ m2[2] = ms[2] /\ r2[1] = rec[1]
      <4>1. /\ 1 \in 1 .. Len(ms) + Len(s) /\ 2 \in 1 .. Len(ms) + Len(s)
            /\ 1 \in 1 .. Len(rec) + Len(s)
        BY <3>1
      <4>2. m2[1] = ms[1] /\ m2[2] = ms[2]
        BY <2>2, <3>1, <4>1
      <4>3. r2[1] = rec[1]
        BY <2>3, <3>1, <4>1
      <4> QED BY <4>2, <4>3
    <3> QED BY <2>1, <3>2 DEF IsAbridged
  <2>6. ASSUME NEW i \in 3 .. Len(m2) PROVE m2[i] = r2[from + i - 3]
    <3>1. CASE i <= Len(ms)
      <4>1. m2[i] = rec[from + i - 3]
        BY <2>1, <2>2, <2>6, <3>1 DEF IsAbridged
      <4>2. from + i - 3 \in 1 .. Len(rec)
        BY <2>1, <2>2, <2>6, <3>1 DEF IsAbridged
      <4>3. \A j \in 1 .. Len(rec) : j \in 1 .. Len(rec) + Len(s) /\ j <= Len(rec)
        OBVIOUS
      <4>4. \A j \in 1 .. Len(rec) : r2[j] = rec[j]
        BY <2>3, <4>3
      <4>5. r2[from + i - 3] = rec[from + i - 3]
        BY <4>2, <4>4
      <4> QED BY <4>1, <4>5
    <3>2. CASE ~(i <= Len(ms))
      <4>1. m2[i] = s[i - Len(ms)]
        BY <2>2, <2>6, <3>2
      <4>2. /\ from + i - 3 \in 1 .. Len(rec) + Len(s) /\ ~(from + i - 3 <= Len(rec))
            /\ from + i - 3 - Len(rec) = i - Len(ms)
        BY <2>1, <2>2, <2>6, <3>2 DEF IsAbridged
      <4>3. \A j \in 1 .. Len(rec) + Len(s) :
               ~(j <= Len(rec)) => r2[j] = s[j - Len(rec)]
        BY <2>3
      <4>4. r2[from + i - 3] = s[from + i - 3 - Len(rec)]
        BY <4>2, <4>3
      <4> QED BY <4>1, <4>2, <4>4
    <3> QED BY <3>1, <3>2
  <2>7. m2 = Abridged(r2, from)
    BY <2>2, <2>3, <2>4, <2>5, <2>6, AbridgedIs DEF IsAbridged
  <2> QED BY <2>4, <2>7 DEF View, m2, r2
<1> QED BY <1>1, <1>2 DEF View

(* The compacted form of a view is a view: compacting twice forgets only    *)
(* more of the middle.                                                     *)
LEMMA ViewShrinks ==
    ASSUME NEW Ids, NEW ms \in Seq(Message(Ids)), NEW rec \in Seq(Message(Ids)),
           Paired(ms), NEW keep \in Nat \ {0}, CanCompact(ms, keep), View(ms, rec)
    PROVE  View(Compacted(ms, keep), rec)
<1> DEFINE t == TailStart(ms, keep)
           small == Compacted(ms, keep)
<1>1. /\ t \in 3 .. Len(ms) + 1 /\ Len(ms) >= 4
      /\ small \in Seq(Message(Ids)) /\ IsAbridged(small, ms, t)
      /\ Marker \in Message(Ids)
  BY TailStartIsNear, CompactedShape, MessageTypes DEF IsAbridged, CanCompact, HEAD
<1> HIDE DEF t, small
<1>2. CASE ms = rec
  <2>1. t \in 2 .. Len(rec) + 1 /\ small = Abridged(rec, t)
    BY <1>1, <1>2, AbridgedIs
  <2> QED BY <2>1 DEF View, small
<1>3. ASSUME NEW from \in 2 .. Len(rec) + 1, ms = Abridged(rec, from)
      PROVE  View(small, rec)
  <2> DEFINE later == from + t - 3
  <2>1. IsAbridged(ms, rec, from)
    BY <1>1, <1>3, AbridgedShape
  <2>2. later \in 2 .. Len(rec) + 1
    BY <1>1, <2>1 DEF IsAbridged
  <2>3. Len(small) = Len(rec) - later + 3
    BY <1>1, <2>1 DEF IsAbridged
  <2>4. small[1] = rec[1] /\ small[2] = Marker
    BY <1>1, <2>1 DEF IsAbridged
  <2>5. ASSUME NEW i \in 3 .. Len(small) PROVE small[i] = rec[later + i - 3]
    <3>1. small[i] = ms[t + i - 3] /\ t + i - 3 \in 3 .. Len(ms)
      BY <1>1, <2>5 DEF IsAbridged
    <3>2. ms[t + i - 3] = rec[from + (t + i - 3) - 3]
      BY <2>1, <3>1 DEF IsAbridged
    <3>3. from + (t + i - 3) - 3 = later + i - 3
      BY <1>1, <2>5
    <3> QED BY <3>1, <3>2, <3>3
  <2>6. IsAbridged(small, rec, later)
    BY <2>3, <2>4, <2>5 DEF IsAbridged
  <2>7. small = Abridged(rec, later)
    BY <1>1, <2>2, <2>6, AbridgedIs
  <2> QED BY <2>2, <2>7 DEF View
<1> QED BY <1>2, <1>3 DEF View, small

-----------------------------------------------------------------------------
(* The prompts of a record.                                                *)

Prompts(rec) == {i \in 1 .. Len(rec) : rec[i] = UserMessage}

LEMMA PromptsAreFinite ==
    ASSUME NEW S, NEW rec \in Seq(S)
    PROVE  IsFiniteSet(Prompts(rec)) /\ Cardinality(Prompts(rec)) \in Nat
<1>1. IsFiniteSet(1 .. Len(rec)) /\ Prompts(rec) \in SUBSET (1 .. Len(rec))
  BY FS_Interval DEF Prompts
<1> QED BY <1>1, FS_Subset, FS_CardinalityType

(* Words that are not the user's add no prompt.                            *)
LEMMA OtherWordsAddNone ==
    ASSUME NEW S, NEW rec \in Seq(S), NEW s \in Seq(S),
           \A i \in 1 .. Len(s) : s[i] # UserMessage
    PROVE  Prompts(rec \o s) = Prompts(rec)
<1> DEFINE both == rec \o s
<1>1. /\ Len(both) = Len(rec) + Len(s)
      /\ \A i \in 1 .. Len(rec) + Len(s) :
           both[i] = IF i <= Len(rec) THEN rec[i] ELSE s[i - Len(rec)]
  BY ConcatProperties
<1> HIDE DEF both
<1>2. ASSUME NEW i \in 1 .. Len(both), both[i] = UserMessage
      PROVE  i \in 1 .. Len(rec) /\ rec[i] = UserMessage
  <2>1. i <= Len(rec) \/ i - Len(rec) \in 1 .. Len(s)
    BY <1>1
  <2> QED BY <1>1, <1>2, <2>1
<1>3. ASSUME NEW i \in 1 .. Len(rec)
      PROVE  i \in 1 .. Len(both) /\ both[i] = rec[i]
  BY <1>1
<1>4. Prompts(both) = Prompts(rec)
  BY <1>2, <1>3 DEF Prompts
<1> QED BY <1>4 DEF both

(* Each prompt adds one.                                                   *)
LEMMA PromptsAdd ==
    ASSUME NEW S, NEW rec \in Seq(S), NEW n \in Nat, NEW s \in Seq(S),
           Len(s) = n, \A i \in 1 .. n : s[i] = UserMessage
    PROVE  Cardinality(Prompts(rec \o s)) = Cardinality(Prompts(rec)) + n
<1> DEFINE both == rec \o s
           new == Len(rec) + 1 .. Len(rec) + n
<1>1. /\ Len(both) = Len(rec) + n
      /\ \A i \in 1 .. Len(rec) + n :
           both[i] = IF i <= Len(rec) THEN rec[i] ELSE s[i - Len(rec)]
  BY ConcatProperties
<1> HIDE DEF both
<1>2. Prompts(both) = Prompts(rec) \cup new
  <2>1. ASSUME NEW i \in 1 .. Len(rec) + n
        PROVE  both[i] = UserMessage <=> i \in Prompts(rec) \/ i \in new
    <3>1. CASE i <= Len(rec)
      BY <1>1, <2>1, <3>1 DEF Prompts
    <3>2. CASE ~(i <= Len(rec))
      <4>1. i - Len(rec) \in 1 .. n /\ i \in new
        BY <2>1, <3>2
      <4> QED BY <1>1, <2>1, <3>2, <4>1
    <3> QED BY <3>1, <3>2
  <2>2. Prompts(rec) \subseteq 1 .. Len(rec) + n /\ new \subseteq 1 .. Len(rec) + n
    BY DEF Prompts
  <2>3. Prompts(both) = {i \in 1 .. Len(rec) + n : both[i] = UserMessage}
    BY <1>1 DEF Prompts
  <2> HIDE DEF new
  <2> QED BY <2>1, <2>2, <2>3
<1>3. IsFiniteSet(new) /\ Cardinality(new) = n
  <2>1. Len(rec) + 1 \in Int /\ Len(rec) + n \in Int
    OBVIOUS
  <2>2. Cardinality(new) = IF Len(rec) + 1 > Len(rec) + n THEN 0
                           ELSE (Len(rec) + n) - (Len(rec) + 1) + 1
    BY <2>1, FS_Interval
  <2>3. IsFiniteSet(new)
    BY <2>1, FS_Interval
  <2> HIDE DEF new
  <2> QED BY <2>2, <2>3
<1>4. Prompts(rec) \cap new = {}
  BY DEF Prompts
<1>5. IsFiniteSet(Prompts(rec)) /\ Cardinality(Prompts(rec)) \in Nat
  BY PromptsAreFinite
<1> HIDE DEF new
<1>6. Cardinality(Prompts(both)) = Cardinality(Prompts(rec)) + n - Cardinality(Prompts(rec) \cap new)
  BY <1>2, <1>3, <1>5, FS_Union
<1>7. Cardinality({}) = 0
  BY FS_EmptySet
<1>8. Cardinality(Prompts(both)) = Cardinality(Prompts(rec)) + n
  <2> DEFINE c == Cardinality(Prompts(rec))
  <2>1. c \in Nat /\ c + n - 0 = c + n
    BY <1>5
  <2> QED BY <1>4, <1>6, <1>7, <2>1
<1> QED BY <1>8 DEF both
=============================================================================
