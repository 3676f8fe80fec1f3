---------------------------- MODULE RepairProofs ----------------------------
(***************************************************************************)
(* What the repair and the compaction of a history promise, for histories  *)
(* of any length over any calls, and any number of messages kept.          *)
(***************************************************************************)
EXTENDS MCHistory, Facts

\* A history as it can be stored.
Recorded(ms) == ms \in Seq(Recordable)

LEMMA RecordableIs ==
    ASSUME NEW m \in Recordable
    PROVE  /\ m \in Message(CallIds) /\ ~IsEmpty(m)
           /\ m.role \in {"user", "assistant"}
           /\ m.uses \in SUBSET CallIds /\ m.answers \in SUBSET CallIds
           /\ m.role = "assistant" => m.answers = {}
           /\ m.role = "user" => m.uses = {}
  BY DEF Recordable, Message

LEMMA HistoryIsRecorded == Spec => []Recorded(hist)
<1>1. Init => Recorded(hist)
  BY DEF Init, Recorded
<1>2. Recorded(hist) /\ [Next]_hist => Recorded(hist)'
  BY DEF Recorded, Next, Extend
<1> QED
  BY <1>1, <1>2, PTL DEF Spec

-----------------------------------------------------------------------------
(* Compaction.                                                             *)

(* Wherever results are, the tail of a compaction starts somewhere.        *)
LEMMA TailStartIs ==
    ASSUME NEW S, NEW ms \in Seq(S), NEW keep \in Nat, CanCompact(ms, keep)
    PROVE  /\ IsTailStart(ms, keep, TailStart(ms, keep))
           /\ TailStart(ms, keep) \in (Len(ms) - keep + 1) .. (Len(ms) + 1)
           /\ Len(ms) - keep + 1 >= 4
<1> DEFINE cut == Len(ms) - keep + 1
           Starts == {u \in cut .. (Len(ms) + 1) : u <= Len(ms) => ~StartsWithToolResult(ms[u])}
<1>1. cut >= 4 /\ cut \in Int /\ cut <= Len(ms) + 1 /\ Len(ms) \in Nat
  BY DEF CanCompact, HEAD
<1>2. Starts \in SUBSET Nat /\ Len(ms) + 1 \in Starts
  BY <1>1
<1>3. PICK t \in Starts : \A u \in Starts : t <= u
  <2> HIDE DEF Starts
  <2> QED
    BY <1>2, Least
<1>4. \A u \in cut .. (t - 1) : StartsWithToolResult(ms[u])
  BY <1>1, <1>3
<1>5. IsTailStart(ms, keep, t) /\ t \in 1 .. (Len(ms) + 1)
  BY <1>1, <1>3, <1>4 DEF IsTailStart
<1>6. IsTailStart(ms, keep, TailStart(ms, keep))
  BY <1>5 DEF TailStart
<1> QED
  BY <1>1, <1>6 DEF IsTailStart

(* What a compaction leaves: the history abridged.                         *)
LEMMA CompactedIs ==
    ASSUME NEW ms, Recorded(ms), NEW keep \in Nat, CanCompact(ms, keep)
    PROVE  LET t == TailStart(ms, keep)
               small == Compacted(ms, keep)
           IN  /\ t \in 4 .. Len(ms) + 1 /\ t >= Len(ms) - keep + 1
               /\ IsAbridged(small, ms, t)
               /\ t <= Len(ms) => ms[t].answers = {}
               /\ Len(small) \in Nat /\ Len(ms) \in Nat
<1> DEFINE t == TailStart(ms, keep)
<1>1. ms \in Seq(Message(CallIds)) /\ Len(ms) \in Nat
  <2>1. \A i \in 1 .. Len(ms) : ms[i] \in Message(CallIds)
    BY RecordableIs DEF Recorded
  <2> QED
    BY <2>1 DEF Recorded
<1>2. IsTailStart(ms, keep, t) /\ t \in 4 .. Len(ms) + 1 /\ t >= Len(ms) - keep + 1
  BY <1>1, TailStartIs
<1> HIDE DEF t
<1>3. Compacted(ms, keep) = Abridged(ms, TailStart(ms, keep))
  BY DEF Compacted, Abridged, HEAD
<1>4. t \in 2 .. Len(ms) + 1 /\ Marker \in Message(CallIds)
  BY <1>1, <1>2, MessageTypes
<1>5. Abridged(ms, t) \in Seq(Message(CallIds)) /\ IsAbridged(Abridged(ms, t), ms, t)
  BY <1>1, <1>4, AbridgedShape
<1>6. ASSUME t <= Len(ms)
      PROVE  ms[t].answers = {}
  <2>1. ms[t] \in Recordable
    BY <1>2, <1>6 DEF Recorded
  <2>2. ~StartsWithToolResult(ms[t])
    BY <1>2, <1>6 DEF IsTailStart
  <2> QED
    BY <2>1, <2>2, RecordableIs DEF StartsWithToolResult
<1> QED
  BY <1>1, <1>2, <1>3, <1>5, <1>6 DEF t

(* Compaction never separates a call from its result, whatever results     *)
(* stand where it would cut.                                               *)
LEMMA PairsStay ==
    ASSUME NEW ms, Recorded(ms), NEW keep \in Nat, CanCompact(ms, keep)
    PROVE  LET small == Compacted(ms, keep)
           IN  /\ NoOrphanResults(ms) => NoOrphanResults(small)
               /\ AllCallsAnswered(ms) /\ ms[1].uses = {} => AllCallsAnswered(small)
<1> DEFINE small == Compacted(ms, keep)
           t == TailStart(ms, keep)
<1>1. /\ t \in 4 .. Len(ms) + 1 /\ IsAbridged(small, ms, t)
      /\ t <= Len(ms) => ms[t].answers = {}
      /\ Len(small) \in Nat /\ Len(ms) \in Nat
  BY CompactedIs
<1> HIDE DEF small, t
<1>2. /\ Len(small) = Len(ms) - t + 3 /\ small[1] = ms[1]
      /\ small[2].answers = {} /\ small[2].uses = {}
      /\ \A i \in 3 .. Len(small) : small[i] = ms[t + i - 3] /\ t + i - 3 \in t .. Len(ms)
  <2>1. Marker.answers = {} /\ Marker.uses = {}
    BY MessageTypes
  <2>2. Len(small) = Len(ms) - t + 3
    BY <1>1 DEF IsAbridged
  <2>3. \A i \in 3 .. Len(small) : t + i - 3 \in t .. Len(ms)
    BY <1>1, <2>2
  <2> QED
    BY <1>1, <2>1, <2>2, <2>3 DEF IsAbridged
<1>3. ASSUME NoOrphanResults(ms)
      PROVE  NoOrphanResults(small)
  <2> SUFFICES ASSUME NEW i \in 1 .. Len(small), small[i].answers # {}
               PROVE  i > 1 /\ small[i].answers \subseteq small[i - 1].uses
    BY DEF NoOrphanResults
  <2>1. i # 1
    BY <1>1, <1>2, <1>3 DEF NoOrphanResults
  <2>2. i # 2 /\ i # 3
    BY <1>1, <1>2
  <2>3. i - 1 \in 3 .. Len(small) /\ i \in 3 .. Len(small)
    BY <1>1, <2>1, <2>2
  <2>4. small[i] = ms[t + i - 3] /\ small[i - 1] = ms[t + (i - 1) - 3]
    BY <1>2, <2>3
  <2>5. t + i - 3 \in 1 .. Len(ms) /\ t + (i - 1) - 3 = (t + i - 3) - 1
    BY <1>1, <1>2, <2>3
  <2>6. ms[t + i - 3].answers \subseteq ms[(t + i - 3) - 1].uses
    BY <1>3, <2>4, <2>5 DEF NoOrphanResults
  <2> QED
    BY <2>3, <2>4, <2>5, <2>6
<1>4. ASSUME AllCallsAnswered(ms), ms[1].uses = {}
      PROVE  AllCallsAnswered(small)
  <2> SUFFICES ASSUME NEW i \in 1 .. Len(small), small[i].uses # {}
               PROVE  i < Len(small) /\ small[i + 1].answers = small[i].uses
    BY DEF AllCallsAnswered, CallIsAnswered
  <2>1. i \in 3 .. Len(small)
    BY <1>1, <1>2, <1>4
  <2>2. small[i] = ms[t + i - 3] /\ t + i - 3 \in 1 .. Len(ms)
    BY <1>1, <1>2, <2>1
  <2>3. t + i - 3 < Len(ms) /\ ms[(t + i - 3) + 1].answers = ms[t + i - 3].uses
    BY <1>4, <2>2 DEF AllCallsAnswered, CallIsAnswered
  <2>4. i + 1 \in 3 .. Len(small) /\ t + (i + 1) - 3 = (t + i - 3) + 1
    BY <1>1, <1>2, <2>1, <2>3
  <2>5. small[i + 1] = ms[t + (i + 1) - 3]
    BY <1>2, <2>4
  <2> QED
    BY <2>1, <2>2, <2>3, <2>4, <2>5
<1> QED
  BY <1>3, <1>4 DEF small

(* Whatever was stored, resumed from anywhere, a compaction leaves no       *)
(* result without its call and no call without its results (cut_point).    *)
THEOREM CallsStayWithResults == Spec => []CompactionKeepsPairs
<1>1. Recorded(hist) => CompactionKeepsPairs
  BY PairsStay, HistoryBounds DEF CompactionKeepsPairs
<1> QED
  BY <1>1, HistoryIsRecorded, PTL

(* Compaction frees what it says, keeps the task, and leaves nothing to     *)
(* compact: a retry that waits for Some(removed) ends (cut_point).         *)
THEOREM CompactionEnds == Spec => []CompactionConverges
<1>1. ASSUME Recorded(hist), NEW keep \in Nat, CanCompact(hist, keep)
      PROVE  /\ Removed(hist, keep) >= 2
             /\ Len(Compacted(hist, keep)) = Len(hist) - Removed(hist, keep) + 1
             /\ Compacted(hist, keep)[1] = hist[1]
             /\ ~CanCompact(Compacted(hist, keep), keep)
  <2> DEFINE t == TailStart(hist, keep)
             small == Compacted(hist, keep)
  <2>1. /\ t \in 4 .. Len(hist) + 1 /\ t >= Len(hist) - keep + 1 /\ IsAbridged(small, hist, t)
        /\ Len(small) \in Nat /\ Len(hist) \in Nat
    BY <1>1, CompactedIs
  <2>2. Removed(hist, keep) = t - 2
    BY <2>1 DEF Removed, HEAD
  <2> HIDE DEF t, small
  <2>3. /\ t - 2 >= 2 /\ Len(small) = Len(hist) - (t - 2) + 1 /\ small[1] = hist[1]
        /\ ~CanCompact(small, keep)
    BY <2>1 DEF IsAbridged, CanCompact, HEAD
  <2> QED
    BY <2>2, <2>3 DEF small
<1>2. Recorded(hist) => CompactionConverges
  BY <1>1, HistoryBounds DEF CompactionConverges
<1> QED
  BY <1>2, HistoryIsRecorded, PTL

-----------------------------------------------------------------------------
(* Sending a history, message by message.                                  *)

NothingSent == [out |-> <<>>, pending |-> {}]

\* A function on 0..k that sends the first k messages one after the other.
IsSending(st, ms, k) ==
    st = [n \in 0 .. k |-> IF n = 0 THEN NothingSent ELSE Send(st[n - 1], ms[n])]

\* The lengths for which there is one.
Sendable(ms) == {k \in Nat : \E st : IsSending(st, ms, k)}

LEMMA SendingGrows ==
    ASSUME NEW ms, NEW k \in Nat, k \in Sendable(ms)
    PROVE  k + 1 \in Sendable(ms)
<1>1. PICK st : IsSending(st, ms, k)
  BY DEF Sendable
<1> DEFINE next == [n \in 0 .. (k + 1) |-> IF n = k + 1 THEN Send(st[k], ms[k + 1]) ELSE st[n]]
<1>2. \A n \in 0 .. k : st[n] = IF n = 0 THEN NothingSent ELSE Send(st[n - 1], ms[n])
  BY <1>1 DEF IsSending
<1>3. ASSUME NEW n \in 0 .. (k + 1)
      PROVE  next[n] = IF n = 0 THEN NothingSent ELSE Send(next[n - 1], ms[n])
  <2>1. CASE n = k + 1
    <3>1. n # 0 /\ n - 1 = k /\ k \in 0 .. (k + 1) /\ k # k + 1
      BY <2>1
    <3>2. next[n] = Send(st[k], ms[k + 1]) /\ next[k] = st[k]
      BY <2>1, <3>1
    <3> HIDE DEF next
    <3> QED
      BY <2>1, <3>1, <3>2
  <2>2. CASE n \in 0 .. k
    <3>1. next[n] = st[n] /\ n # k + 1
      BY <2>2
    <3>2. ASSUME n # 0
          PROVE  next[n - 1] = st[n - 1]
      <4>1. n - 1 \in 0 .. (k + 1) /\ n - 1 # k + 1
        BY <2>2, <3>2
      <4> QED
        BY <4>1
    <3> HIDE DEF next
    <3> QED
      BY <1>2, <2>2, <3>1, <3>2
  <2> QED
    BY <1>3, <2>1, <2>2
<1>4. next = [n \in 0 .. (k + 1) |-> next[n]]
  OBVIOUS
<1> HIDE DEF next
<1>5. IsSending(next, ms, k + 1)
  BY <1>3, <1>4 DEF IsSending
<1> QED
  BY <1>5 DEF Sendable

LEMMA SendingIs ==
    ASSUME NEW S, NEW ms \in Seq(S)
    PROVE  /\ SendingFirst(ms)[0] = NothingSent
           /\ \A n \in 1 .. Len(ms) :
                SendingFirst(ms)[n] = Send(SendingFirst(ms)[n - 1], ms[n])
<1>1. 0 \in Sendable(ms)
  <2> DEFINE st == [n \in 0 .. 0 |-> NothingSent]
  <2>1. IsSending(st, ms, 0)
    BY DEF IsSending
  <2> QED
    BY <2>1 DEF Sendable
<1>2. Nat \subseteq Sendable(ms)
  BY <1>1, SendingGrows, InductionOverASet
<1>3. \E st : IsSending(st, ms, Len(ms))
  BY <1>2 DEF Sendable
<1>4. SendingFirst(ms) = CHOOSE st : IsSending(st, ms, Len(ms))
  BY DEF SendingFirst, IsSending, NothingSent
<1> DEFINE st == SendingFirst(ms)
<1> HIDE DEF st
<1>5. IsSending(st, ms, Len(ms))
  BY <1>3, <1>4 DEF st
<1>6. \A n \in 0 .. Len(ms) : st[n] = IF n = 0 THEN NothingSent ELSE Send(st[n - 1], ms[n])
  BY <1>5 DEF IsSending
<1>7. st[0] = NothingSent /\ \A n \in 1 .. Len(ms) : st[n] = Send(st[n - 1], ms[n])
  BY <1>6
<1> QED
  BY <1>7 DEF st

\* What was sent can be accepted once the pending calls are answered.
Acceptable(st) ==
    /\ st \in [out : Seq(Message(CallIds)), pending : SUBSET CallIds]
    /\ NoOrphanResults(st.out) /\ ClosedButLast(st.out)
    /\ \A i \in 1 .. Len(st.out) : ~IsEmpty(st.out[i])
    /\ st.pending = IF Len(st.out) = 0 THEN {} ELSE st.out[Len(st.out)].uses

(* Saying one thing more: a message that answers every call still open, or  *)
(* none when none is.                                                      *)
LEMMA AcceptableGrows ==
    ASSUME NEW st, Acceptable(st), NEW m \in Message(CallIds), ~IsEmpty(m),
           m.answers = st.pending
    PROVE  Acceptable([out |-> Append(st.out, m), pending |-> m.uses])
<1> DEFINE out == st.out
           more == Append(out, m)
<1>1. out \in Seq(Message(CallIds)) /\ Len(out) \in Nat
  BY DEF Acceptable
<1>2. NoOrphanResults(out) /\ ClosedButLast(out) /\ \A i \in 1 .. Len(out) : ~IsEmpty(out[i])
  BY DEF Acceptable
<1>3. m.answers = IF Len(out) = 0 THEN {} ELSE out[Len(out)].uses
  BY DEF Acceptable
<1> HIDE DEF out
<1>4. /\ more \in Seq(Message(CallIds)) /\ Len(more) = Len(out) + 1 /\ more[Len(out) + 1] = m
      /\ \A i \in 1 .. Len(out) : more[i] = out[i]
  BY <1>1
<1> HIDE DEF more
<1>5. \A i \in 1 .. Len(more) : i = Len(out) + 1 \/ i \in 1 .. Len(out)
  BY <1>1, <1>4
<1>6. \A i \in 1 .. Len(more) : ~IsEmpty(more[i])
  BY <1>2, <1>4, <1>5
<1>7. NoOrphanResults(more)
  <2> SUFFICES ASSUME NEW i \in 1 .. Len(more), more[i].answers # {}
               PROVE  i > 1 /\ more[i].answers \subseteq more[i - 1].uses
    BY DEF NoOrphanResults
  <2>1. CASE i = Len(out) + 1
    <3>1. Len(out) # 0 /\ i - 1 = Len(out) /\ Len(out) \in 1 .. Len(out) /\ i > 1
      BY <1>1, <1>3, <1>4, <2>1
    <3> QED
      BY <1>3, <1>4, <2>1, <3>1
  <2>2. CASE i \in 1 .. Len(out)
    <3>1. i > 1 /\ out[i].answers \subseteq out[i - 1].uses
      BY <1>2, <1>4, <2>2 DEF NoOrphanResults
    <3>2. i - 1 \in 1 .. Len(out)
      BY <1>1, <2>2, <3>1
    <3> QED
      BY <1>4, <2>2, <3>1, <3>2
  <2> QED
    BY <1>5, <2>1, <2>2
<1>8. ClosedButLast(more)
  <2> SUFFICES ASSUME NEW i \in 1 .. Len(more), more[i].uses # {}, i # Len(more)
               PROVE  i < Len(more) /\ more[i + 1].answers = more[i].uses
    BY DEF ClosedButLast, CallIsAnswered
  <2>1. i \in 1 .. Len(out) /\ i < Len(more)
    BY <1>1, <1>4, <1>5
  <2>2. CASE i = Len(out)
    <3>1. i # 0
      BY <2>1
    <3> QED
      BY <1>3, <1>4, <2>1, <2>2, <3>1
  <2>3. CASE i # Len(out)
    <3>1. i < Len(out) /\ out[i + 1].answers = out[i].uses
      BY <1>2, <1>4, <2>1, <2>3 DEF ClosedButLast, CallIsAnswered
    <3>2. i + 1 \in 1 .. Len(out)
      BY <1>1, <2>1, <3>1
    <3> QED
      BY <1>4, <2>1, <3>1, <3>2
  <2> QED
    BY <2>2, <2>3
<1>9. m.uses \in SUBSET CallIds /\ Len(more) # 0 /\ more[Len(more)] = m
  BY <1>1, <1>4 DEF Message
<1> DEFINE next == [out |-> more, pending |-> m.uses]
<1>10. next.out = more /\ next.pending = m.uses
          /\ next \in [out : Seq(Message(CallIds)), pending : SUBSET CallIds]
  BY <1>4, <1>9
<1> HIDE DEF next
<1>11. Acceptable(next)
  BY <1>6, <1>7, <1>8, <1>9, <1>10 DEF Acceptable
<1> QED
  BY <1>11 DEF next, more, out

(* Closing leaves nothing pending, and what it leaves can be accepted.     *)
LEMMA ClosingIsAcceptable ==
    ASSUME NEW st, Acceptable(st)
    PROVE  /\ Acceptable(CloseCalls(st)) /\ CloseCalls(st).pending = {}
           /\ AllCallsAnswered(CloseCalls(st).out)
<1>1. Acceptable(CloseCalls(st)) /\ CloseCalls(st).pending = {}
  <2>1. CASE st.pending = {}
    BY <2>1 DEF CloseCalls
  <2>2. CASE st.pending # {}
    <3> DEFINE m == ResultsMessage(st.pending)
    <3>1. st.pending \in SUBSET CallIds
      BY DEF Acceptable
    <3>2. m \in Message(CallIds) /\ m.answers = st.pending /\ m.uses = {} /\ ~IsEmpty(m)
      BY <2>2, <3>1, MessageTypes DEF IsEmpty
    <3> HIDE DEF m
    <3>3. Acceptable([out |-> Append(st.out, m), pending |-> m.uses])
      BY <3>2, AcceptableGrows
    <3>4. CloseCalls(st) = [out |-> Append(st.out, m), pending |-> m.uses]
      BY <2>2, <3>2 DEF CloseCalls, m
    <3> QED
      BY <3>2, <3>3, <3>4
  <2> QED
    BY <2>1, <2>2
<1> DEFINE closed == CloseCalls(st)
<1> HIDE DEF closed
<1>2. AllCallsAnswered(closed.out)
  BY <1>1, ClosedAtTheEnd DEF closed, Acceptable
<1> QED
  BY <1>1, <1>2 DEF closed

LEMMA SendIsAcceptable ==
    ASSUME NEW st, Acceptable(st), NEW m \in Recordable
    PROVE  Acceptable(Send(st, m))
<1>1. /\ m \in Message(CallIds) /\ ~IsEmpty(m) /\ m.role \in {"user", "assistant"}
      /\ m.uses \in SUBSET CallIds /\ m.answers \in SUBSET CallIds
      /\ m.role = "assistant" => m.answers = {}
      /\ m.role = "user" => m.uses = {}
  BY RecordableIs
<1>2. Acceptable(CloseCalls(st)) /\ CloseCalls(st).pending = {}
  BY ClosingIsAcceptable
<1>3. CASE ~IsSendable(m)
  BY <1>3 DEF Send
<1>4. CASE IsSendable(m) /\ m.role = "assistant"
  <2>1. Acceptable([out |-> Append(CloseCalls(st).out, m), pending |-> m.uses])
    BY <1>1, <1>2, <1>4, AcceptableGrows
  <2> QED
    BY <1>4, <2>1 DEF Send, SendAssistant
<1>5. CASE IsSendable(m) /\ m.role = "user"
  <2> DEFINE kept == [m EXCEPT !.answers = m.answers \cap st.pending]
             all == [m EXCEPT !.answers = st.pending]
  <2>1. st.pending \in SUBSET CallIds
    BY DEF Acceptable
  <2>2. /\ kept \in Message(CallIds) /\ kept.answers = m.answers \cap st.pending
        /\ kept.uses = {}
    BY <1>1, <1>5 DEF Message
  <2>3. /\ all \in Message(CallIds) /\ all.answers = st.pending /\ all.uses = {}
    BY <1>1, <1>5, <2>1 DEF Message
  <2>4. CASE kept.answers = {} /\ IsEmpty(kept)
    <3>1. SendUser(st, m) = [out |-> CloseCalls(st).out, pending |-> {}]
      BY <2>4 DEF SendUser
    <3>2. CloseCalls(st) = [out |-> CloseCalls(st).out, pending |-> {}]
      <4> DEFINE c == CloseCalls(st)
      <4>1. c \in [out : Seq(Message(CallIds)), pending : SUBSET CallIds] /\ c.pending = {}
        BY <1>2 DEF Acceptable
      <4> HIDE DEF c
      <4>2. c = [out |-> c.out, pending |-> {}]
        BY <4>1
      <4> QED
        BY <4>2 DEF c
    <3> QED
      BY <1>2, <1>5, <3>1, <3>2 DEF Send
  <2>5. CASE kept.answers = {} /\ ~IsEmpty(kept)
    <3>1. SendUser(st, m) = [out |-> Append(CloseCalls(st).out, kept), pending |-> {}]
      BY <2>5 DEF SendUser
    <3> HIDE DEF kept
    <3>2. Acceptable([out |-> Append(CloseCalls(st).out, kept), pending |-> kept.uses])
      BY <1>2, <2>2, <2>5, AcceptableGrows
    <3> QED
      BY <1>5, <2>2, <3>1, <3>2 DEF Send
  <2>6. CASE kept.answers # {}
    <3>1. ~IsEmpty(all)
      BY <2>2, <2>3, <2>6 DEF IsEmpty
    <3>2. SendUser(st, m) = [out |-> Append(st.out, all), pending |-> {}]
      <4>1. all = [kept EXCEPT !.answers = st.pending]
        BY <1>1 DEF Message
      <4> QED
        BY <2>6, <3>1, <4>1 DEF SendUser
    <3> HIDE DEF all
    <3>3. Acceptable([out |-> Append(st.out, all), pending |-> all.uses])
      BY <2>3, <3>1, AcceptableGrows
    <3> QED
      BY <1>5, <2>3, <3>2, <3>3 DEF Send
  <2> QED
    BY <2>4, <2>5, <2>6
<1> QED
  BY <1>1, <1>3, <1>4, <1>5 DEF IsSendable

(* The first n messages sent can be accepted, for every n.                 *)
LEMMA SentIsAcceptable ==
    ASSUME NEW ms, Recorded(ms)
    PROVE  Acceptable(SendingFirst(ms)[Len(ms)])
<1> DEFINE Fine == {n \in Nat : n <= Len(ms) => Acceptable(SendingFirst(ms)[n])}
<1>1. Len(ms) \in Nat /\ ms \in Seq(Recordable)
  BY DEF Recorded
<1>2. 0 \in Fine
  <2>1. Acceptable(NothingSent)
    BY DEF Acceptable, NothingSent, NoOrphanResults, ClosedButLast
  <2> QED
    BY <1>1, <2>1, SendingIs
<1>3. ASSUME NEW n \in Nat, n \in Fine
      PROVE  n + 1 \in Fine
  <2> SUFFICES ASSUME n + 1 <= Len(ms)
               PROVE  Acceptable(SendingFirst(ms)[n + 1])
    OBVIOUS
  <2>1. n + 1 \in 1 .. Len(ms) /\ (n + 1) - 1 = n
    BY <1>1
  <2>2. Acceptable(SendingFirst(ms)[n])
    BY <1>1, <1>3
  <2>3. ms[n + 1] \in Recordable
    BY <1>1, <2>1
  <2>4. SendingFirst(ms)[n + 1] = Send(SendingFirst(ms)[n], ms[n + 1])
    BY <1>1, <2>1, SendingIs
  <2> QED
    BY <2>2, <2>3, <2>4, SendIsAcceptable
<1> HIDE DEF Fine
<1>4. Nat \subseteq Fine
  BY <1>2, <1>3, InductionOverASet
<1> QED
  BY <1>1, <1>4 DEF Fine

(* Whatever was stored, what is sent pairs every call with the results      *)
(* right after it, refers to no call that is not there, and says something *)
(* in every message (for_provider).                                        *)
THEOREM EveryHistoryIsAccepted == Spec => []ProviderAcceptsIt
<1>1. ASSUME Recorded(hist)
      PROVE  ProviderAcceptsIt
  <2> DEFINE closed == CloseCalls(SendingFirst(hist)[Len(hist)])
  <2>1. Acceptable(closed) /\ AllCallsAnswered(closed.out)
    BY <1>1, SentIsAcceptable, ClosingIsAcceptable
  <2>2. ForProvider(hist) = closed.out
    BY DEF ForProvider
  <2> HIDE DEF closed
  <2>3. DOMAIN closed.out = 1 .. Len(closed.out)
    BY <2>1 DEF Acceptable
  <2> QED
    BY <2>1, <2>2, <2>3 DEF ProviderAcceptsIt, Acceptable
<1> QED
  BY <1>1, HistoryIsRecorded, PTL

-----------------------------------------------------------------------------
(* What is said, through the repair.                                       *)

\* What each message adds to some account of a history, one after the other.
Account(ms, of) == FlattenSeq([i \in 1 .. Len(ms) |-> of[ms[i]]])

\* An account of the text, or of the turns, of messages: results add nothing
\* to it and change nothing of it.
Accounts(S) ==
    {of \in [Message(CallIds) -> Seq(S)] :
        \A m \in Message(CallIds) : m.role = "user" =>
            /\ m.body = "none" => of[m] = <<>>
            /\ \A ids \in SUBSET CallIds : of[[m EXCEPT !.answers = ids]] = of[m]}

LEMMA AccountAppends ==
    ASSUME NEW M, NEW S, NEW of \in [M -> Seq(S)], NEW ms \in Seq(M), NEW m \in M
    PROVE  /\ Account(Append(ms, m), of) = Account(ms, of) \o of[m]
           /\ Account(ms, of) \in Seq(S)
<1> DEFINE each == [i \in 1 .. Len(ms) |-> of[ms[i]]]
           more == Append(ms, m)
<1>1. each \in Seq(Seq(S)) /\ of[m] \in Seq(S)
  OBVIOUS
<1>2. [i \in 1 .. Len(more) |-> of[more[i]]] = Append(each, of[m])
  <2>1. /\ Len(more) = Len(ms) + 1 /\ Len(ms) \in Nat /\ more[Len(ms) + 1] = m
        /\ \A i \in 1 .. Len(ms) : more[i] = ms[i]
    OBVIOUS
  <2> HIDE DEF more
  <2>2. /\ Len(each) = Len(ms) /\ Len(Append(each, of[m])) = Len(ms) + 1
        /\ Append(each, of[m])[Len(ms) + 1] = of[m]
        /\ \A i \in 1 .. Len(ms) : Append(each, of[m])[i] = of[ms[i]]
    BY <1>1, <2>1
  <2> DEFINE all == Append(each, of[m])
             mapped == [i \in 1 .. Len(more) |-> of[more[i]]]
  <2>3. all \in Seq(Seq(S)) /\ DOMAIN all = 1 .. (Len(ms) + 1)
    BY <1>1, <2>2
  <2>4. all = [i \in 1 .. (Len(ms) + 1) |-> all[i]]
    BY <2>3
  <2>5. \A i \in 1 .. (Len(ms) + 1) : all[i] = of[more[i]]
    <3> TAKE i \in 1 .. (Len(ms) + 1)
    <3>1. i = Len(ms) + 1 \/ i \in 1 .. Len(ms)
      BY <2>1
    <3> HIDE DEF each
    <3> QED
      BY <2>1, <2>2, <3>1
  <2> HIDE DEF all
  <2>6. mapped = all
    BY <2>1, <2>4, <2>5
  <2> QED
    BY <2>6 DEF all
<1> HIDE DEF each, more
<1>3. FlattenSeq(Append(each, of[m])) = FlattenSeq(each) \o of[m]
  BY <1>1, FlattenAppends
<1>4. FlattenSeq(each) \in Seq(S)
  BY <1>1, FlattenType
<1> QED
  BY <1>2, <1>3, <1>4 DEF Account, each, more

LEMMA MessageAppends ==
    ASSUME NEW S, NEW of \in Accounts(S)
    PROVE  \A ms \in Seq(Message(CallIds)), m \in Message(CallIds) :
             /\ Account(Append(ms, m), of) = Account(ms, of) \o of[m]
             /\ Account(ms, of) \in Seq(S)
<1>1. of \in [Message(CallIds) -> Seq(S)]
  BY DEF Accounts
<1> QED
  BY <1>1, AccountAppends

(* Closing calls says nothing.                                             *)
LEMMA ClosingSaysNothing ==
    ASSUME NEW st, Acceptable(st), NEW S, NEW of \in Accounts(S)
    PROVE  Account(CloseCalls(st).out, of) = Account(st.out, of)
<1>1. CASE st.pending = {}
  BY <1>1 DEF CloseCalls
<1>2. CASE st.pending # {}
  <2> DEFINE m == ResultsMessage(st.pending)
  <2>1. m \in Message(CallIds) /\ m.role = "user" /\ m.body = "none"
    <3>1. m \in Message(CallIds) /\ m.role = "user"
      BY MessageTypes DEF Acceptable
    <3> QED
      BY <3>1 DEF ResultsMessage, UserMessage
  <2>2. CloseCalls(st).out = Append(st.out, m)
    BY <1>2 DEF CloseCalls
  <2> HIDE DEF m
  <2>3. of \in [Message(CallIds) -> Seq(S)] /\ of[m] = <<>>
    BY <2>1 DEF Accounts
  <2>4. st.out \in Seq(Message(CallIds))
    BY DEF Acceptable
  <2>5. /\ Account(Append(st.out, m), of) = Account(st.out, of) \o <<>>
        /\ Account(st.out, of) \in Seq(S)
    BY <2>1, <2>3, <2>4, MessageAppends
  <2>6. \A s \in Seq(S) : s \o <<>> = s
    OBVIOUS
  <2> QED
    BY <2>2, <2>5, <2>6
<1> QED
  BY <1>1, <1>2

(* Sending a message says what it says, if it may be sent.                 *)
LEMMA SendSays ==
    ASSUME NEW st, Acceptable(st), NEW m \in Recordable, NEW S, NEW of \in Accounts(S)
    PROVE  Account(Send(st, m).out, of) =
             IF IsSendable(m) THEN Account(st.out, of) \o of[m] ELSE Account(st.out, of)
<1>1. /\ m \in Message(CallIds) /\ m.role \in {"user", "assistant"}
      /\ m.answers \in SUBSET CallIds
      /\ m.role = "assistant" => m.answers = {}
  BY RecordableIs
<1>2. st.out \in Seq(Message(CallIds)) /\ st.pending \in SUBSET CallIds
  BY DEF Acceptable
<1>3. /\ CloseCalls(st).out \in Seq(Message(CallIds))
      /\ Account(CloseCalls(st).out, of) = Account(st.out, of)
  BY ClosingIsAcceptable, ClosingSaysNothing DEF Acceptable
<1>4. of \in [Message(CallIds) -> Seq(S)]
  BY DEF Accounts
<1>5. CASE ~IsSendable(m)
  BY <1>5 DEF Send
<1>6. CASE IsSendable(m) /\ m.role = "assistant"
  <2>1. Send(st, m).out = Append(CloseCalls(st).out, m)
    BY <1>6 DEF Send, SendAssistant
  <2> QED
    BY <1>1, <1>3, <1>4, <1>6, <2>1, MessageAppends
<1>7. CASE IsSendable(m) /\ m.role = "user"
  <2> DEFINE kept == [m EXCEPT !.answers = m.answers \cap st.pending]
             all == [m EXCEPT !.answers = st.pending]
  <2>1. /\ kept \in Message(CallIds) /\ kept.body = m.body /\ of[kept] = of[m]
        /\ all \in Message(CallIds) /\ of[all] = of[m]
    <3>1. m.answers \cap st.pending \in SUBSET CallIds
      BY <1>2
    <3>2. kept \in Message(CallIds) /\ kept.body = m.body /\ all \in Message(CallIds)
      BY <1>1, <1>2 DEF Message
    <3> QED
      BY <1>1, <1>2, <1>7, <3>1, <3>2 DEF Accounts
  <2>2. CASE kept.answers = {} /\ IsEmpty(kept)
    <3>1. Send(st, m).out = CloseCalls(st).out
      BY <1>7, <2>2 DEF Send, SendUser
    <3>2. of[m] = <<>>
      BY <1>1, <1>7, <2>1, <2>2 DEF IsEmpty, Accounts
    <3>3. Account(st.out, of) \in Seq(S)
      BY <1>1, <1>2, <1>4, MessageAppends
    <3>4. \A s \in Seq(S) : s \o <<>> = s
      OBVIOUS
    <3> QED
      BY <1>3, <1>7, <3>1, <3>2, <3>3, <3>4
  <2>3. CASE kept.answers = {} /\ ~IsEmpty(kept)
    <3>1. Send(st, m).out = Append(CloseCalls(st).out, kept)
      BY <1>7, <2>3 DEF Send, SendUser
    <3> HIDE DEF kept
    <3> QED
      BY <1>3, <1>4, <1>7, <2>1, <3>1, MessageAppends
  <2>4. CASE kept.answers # {}
    <3>1. Send(st, m).out = Append(st.out, all)
      <4>1. all = [kept EXCEPT !.answers = st.pending] /\ st.pending # {}
        BY <1>1, <2>4 DEF Message
      <4>2. ~IsEmpty(all)
        BY <1>1, <4>1 DEF IsEmpty, Message
      <4> QED
        BY <1>7, <2>4, <4>1, <4>2 DEF Send, SendUser
    <3> HIDE DEF all
    <3> QED
      BY <1>2, <1>4, <1>7, <2>1, <3>1, MessageAppends
  <2> QED
    BY <2>2, <2>3, <2>4
<1> QED
  BY <1>1, <1>5, <1>6, <1>7

\* An account of a history that leaves out what is not sent.
Sent(of) == [m \in Message(CallIds) |-> IF IsSendable(m) THEN of[m] ELSE <<>>]

\* The first n messages of a history.
First(ms, n) == [i \in 1 .. n |-> ms[i]]

LEMMA RepairKeepsAccounts ==
    ASSUME NEW ms, Recorded(ms), NEW S, NEW of \in Accounts(S)
    PROVE  Account(ForProvider(ms), of) = Account(ms, Sent(of))
<1> DEFINE st == SendingFirst(ms)
           Same == {n \in Nat : n <= Len(ms) =>
                       /\ Acceptable(st[n])
                       /\ Account(st[n].out, of) = Account(First(ms, n), Sent(of))}
<1>1. /\ Len(ms) \in Nat /\ ms \in Seq(Recordable)
      /\ of \in [Message(CallIds) -> Seq(S)]
  BY DEF Recorded, Accounts
<1>2. Sent(of) \in [Message(CallIds) -> Seq(S)]
  <2>1. <<>> \in Seq(S)
    OBVIOUS
  <2> QED
    BY <1>1, <2>1 DEF Sent
<1>3. \A i \in 1 .. Len(ms) : ms[i] \in Recordable /\ ms[i] \in Message(CallIds)
  BY <1>1, RecordableIs
<1>4. st[0] = NothingSent /\ \A n \in 1 .. Len(ms) : st[n] = Send(st[n - 1], ms[n])
  BY <1>1, SendingIs
<1> HIDE DEF st
<1>5. 0 \in Same
  <2>1. Acceptable(NothingSent)
    BY DEF Acceptable, NothingSent, NoOrphanResults, ClosedButLast
  <2>2. NothingSent.out = <<>> /\ First(ms, 0) = <<>>
    BY DEF NothingSent, First
  <2>3. Account(<<>>, of) = Account(<<>>, Sent(of))
    BY DEF Account
  <2> QED
    BY <1>1, <1>4, <2>1, <2>2, <2>3
<1>6. ASSUME NEW n \in Nat, n \in Same
      PROVE  n + 1 \in Same
  <2> SUFFICES ASSUME n + 1 <= Len(ms)
               PROVE  /\ Acceptable(st[n + 1])
                      /\ Account(st[n + 1].out, of) = Account(First(ms, n + 1), Sent(of))
    OBVIOUS
  <2>1. n + 1 \in 1 .. Len(ms) /\ (n + 1) - 1 = n /\ n <= Len(ms)
    BY <1>1
  <2>2. Acceptable(st[n]) /\ Account(st[n].out, of) = Account(First(ms, n), Sent(of))
    BY <1>6, <2>1
  <2> DEFINE m == ms[n + 1]
  <2>3. m \in Recordable /\ m \in Message(CallIds)
    BY <1>3, <2>1
  <2>4. st[n + 1] = Send(st[n], m)
    BY <1>4, <2>1
  <2>5. First(ms, n) \in Seq(Message(CallIds))
    BY <1>1, <1>3, <2>1 DEF First
  <2>6. First(ms, n + 1) = Append(First(ms, n), m)
    BY DEF First
  <2> HIDE DEF m
  <2>7. /\ Account(Append(First(ms, n), m), Sent(of)) = Account(First(ms, n), Sent(of)) \o Sent(of)[m]
        /\ Account(First(ms, n), Sent(of)) \in Seq(S)
    BY <1>2, <2>3, <2>5, AccountAppends
  <2>8. Sent(of)[m] = IF IsSendable(m) THEN of[m] ELSE <<>>
    BY <2>3 DEF Sent
  <2>9. Account(Send(st[n], m).out, of) =
          IF IsSendable(m) THEN Account(st[n].out, of) \o of[m] ELSE Account(st[n].out, of)
    BY <2>2, <2>3, SendSays
  <2>10. \A s \in Seq(S) : s \o <<>> = s
    OBVIOUS
  <2>11. Account(st[n + 1].out, of) = Account(First(ms, n + 1), Sent(of))
    BY <2>2, <2>4, <2>6, <2>7, <2>8, <2>9, <2>10
  <2>12. Acceptable(st[n + 1])
    BY <2>2, <2>3, <2>4, SendIsAcceptable
  <2> QED
    BY <2>11, <2>12
<1> HIDE DEF Same
<1>7. Nat \subseteq Same
  BY <1>5, <1>6, InductionOverASet
<1>8. /\ Acceptable(st[Len(ms)])
      /\ Account(st[Len(ms)].out, of) = Account(First(ms, Len(ms)), Sent(of))
  BY <1>1, <1>7 DEF Same
<1>9. First(ms, Len(ms)) = ms
  BY <1>1 DEF First
<1>10. ForProvider(ms) = CloseCalls(st[Len(ms)]).out
  BY DEF ForProvider, st
<1> QED
  BY <1>8, <1>9, <1>10, ClosingSaysNothing

LEMMA TurnsAndWords ==
    /\ [m \in Message(CallIds) |-> Turn(m)] \in Accounts(Message(CallIds))
    /\ [m \in Message(CallIds) |-> Word(m)] \in Accounts({"user", "assistant"} \X Bodies)
<1>1. \A m \in Message(CallIds), ids \in SUBSET CallIds :
        /\ [m EXCEPT !.answers = ids] \in Message(CallIds)
        /\ [m EXCEPT !.answers = ids].role = m.role
        /\ [m EXCEPT !.answers = ids].body = m.body
  BY DEF Message
<1>2. \A m \in Message(CallIds) :
        /\ Turn(m) \in Seq(Message(CallIds))
        /\ Word(m) \in Seq({"user", "assistant"} \X Bodies)
  <2> SUFFICES ASSUME NEW m \in Message(CallIds)
               PROVE  /\ Turn(m) \in Seq(Message(CallIds))
                      /\ Word(m) \in Seq({"user", "assistant"} \X Bodies)
    OBVIOUS
  <2> DEFINE P == {"user", "assistant"} \X Bodies
  <2>1. <<m>> \in Seq(Message(CallIds)) /\ <<>> \in Seq(Message(CallIds))
    OBVIOUS
  <2>2. <<m.role, m.body>> \in P
    BY DEF Message
  <2> HIDE DEF P
  <2>3. <<<<m.role, m.body>>>> \in Seq(P) /\ <<>> \in Seq(P)
    BY <2>2
  <2> QED
    BY <2>1, <2>3 DEF Turn, Word, P
<1>3. \A m \in Message(CallIds), ids \in SUBSET CallIds : m.role = "user" =>
        /\ Turn(m) = <<>> /\ Turn([m EXCEPT !.answers = ids]) = <<>>
        /\ m.body = "none" => Word(m) = <<>>
        /\ Word([m EXCEPT !.answers = ids]) = Word(m)
  BY <1>1 DEF Turn, Word
<1>4. [m \in Message(CallIds) |-> Turn(m)] \in Accounts(Message(CallIds))
  BY <1>1, <1>2, <1>3 DEF Accounts
<1>5. [m \in Message(CallIds) |-> Word(m)] \in Accounts({"user", "assistant"} \X Bodies)
  BY <1>1, <1>2, <1>3 DEF Accounts
<1> QED
  BY <1>4, <1>5

(* Whatever was stored, the turns of the assistant that may be sent and     *)
(* every text arrive, in order and unchanged (for_provider).               *)
THEOREM EverythingSaidIsSent == Spec => []NothingSaidIsLost
<1>1. ASSUME Recorded(hist)
      PROVE  NothingSaidIsLost
  <2> DEFINE sent == ForProvider(hist)
             turn == [m \in Message(CallIds) |-> Turn(m)]
             word == [m \in Message(CallIds) |-> Word(m)]
  <2>1. /\ Account(sent, turn) = Account(hist, Sent(turn))
        /\ Account(sent, word) = Account(hist, Sent(word))
    BY <1>1, TurnsAndWords, RepairKeepsAccounts
  <2>2. sent \in Seq(Message(CallIds))
    <3> DEFINE closed == CloseCalls(SendingFirst(hist)[Len(hist)])
    <3>1. Acceptable(closed)
      BY <1>1, SentIsAcceptable, ClosingIsAcceptable
    <3>2. sent = closed.out
      BY DEF ForProvider
    <3> HIDE DEF closed, sent
    <3> QED
      BY <3>1, <3>2 DEF Acceptable
  <2> HIDE DEF sent
  <2>3. /\ \A i \in 1 .. Len(sent) : sent[i] \in Message(CallIds)
        /\ DOMAIN sent = 1 .. Len(sent) /\ DOMAIN hist = 1 .. Len(hist)
        /\ \A i \in 1 .. Len(hist) : hist[i] \in Message(CallIds)
    BY <1>1, <2>2, RecordableIs DEF Recorded
  <2>4. /\ Account(sent, turn) = FlattenSeq([i \in DOMAIN sent |-> Turn(sent[i])])
        /\ Account(sent, word) = FlattenSeq([i \in DOMAIN sent |-> Word(sent[i])])
    <3>1. /\ [i \in 1 .. Len(sent) |-> turn[sent[i]]] = [i \in DOMAIN sent |-> Turn(sent[i])]
          /\ [i \in 1 .. Len(sent) |-> word[sent[i]]] = [i \in DOMAIN sent |-> Word(sent[i])]
      BY <2>3
    <3> HIDE DEF turn, word
    <3> QED
      BY <3>1 DEF Account
  <2>5. /\ Account(hist, Sent(turn)) =
             FlattenSeq([i \in DOMAIN hist |-> IfSent(hist[i], Turn(hist[i]))])
        /\ Account(hist, Sent(word)) =
             FlattenSeq([i \in DOMAIN hist |-> IfSent(hist[i], Word(hist[i]))])
    <3>1. /\ [i \in 1 .. Len(hist) |-> Sent(turn)[hist[i]]]
               = [i \in DOMAIN hist |-> IfSent(hist[i], Turn(hist[i]))]
          /\ [i \in 1 .. Len(hist) |-> Sent(word)[hist[i]]]
               = [i \in DOMAIN hist |-> IfSent(hist[i], Word(hist[i]))]
      BY <2>3 DEF Sent, IfSent
    <3> HIDE DEF turn, word
    <3> QED
      BY <3>1 DEF Account
  <2> QED
    BY <2>1, <2>4, <2>5 DEF NothingSaidIsLost, sent
<1> QED
  BY <1>1, HistoryIsRecorded, PTL

-----------------------------------------------------------------------------
(* Histories on the wire.                                                  *)

Items == [kind : {"user", "assistant", "tool", "call", "output"},
          calls : SUBSET CallIds, of : SUBSET CallIds]

(* The sequence of a finite set holds each of its elements once.           *)
LEMMA SetToSeqIs ==
    ASSUME NEW S, IsFiniteSet(S)
    PROVE  /\ SetToSeq(S) \in Seq(S)
           /\ \A id \in S : \E k \in 1 .. Len(SetToSeq(S)) : SetToSeq(S)[k] = id
           /\ \A j, k \in 1 .. Len(SetToSeq(S)) : SetToSeq(S)[j] = SetToSeq(S)[k] => j = k
<1> DEFINE n == Cardinality(S)
           IsOrder(f) == f \in [1 .. n -> S] /\ IsInjective(f)
<1>1. n \in Nat /\ ExistsBijection(1 .. n, S)
  BY FS_CardinalityType
<1>2. PICK f \in Bijection(1 .. n, S) : TRUE
  BY <1>1 DEF ExistsBijection
<1>3. f \in [1 .. n -> S] /\ IsInjective(f)
  BY <1>2 DEF Bijection, Injection, IsInjective
<1>4. IsOrder(SetToSeq(S))
  <2>1. \E g : IsOrder(g)
    BY <1>3
  <2>2. SetToSeq(S) = CHOOSE g \in [1 .. n -> S] : IsInjective(g)
    BY DEF SetToSeq
  <2> QED
    BY <1>3, <2>2
<1> DEFINE g == SetToSeq(S)
<1> HIDE DEF g
<1>5. g \in [1 .. n -> S] /\ \A j, k \in 1 .. n : g[j] = g[k] => j = k
  BY <1>4 DEF g, IsInjective
<1>6. g \in Seq(S) /\ Len(g) = n
  BY <1>1, <1>5
<1>7. g \in Injection(1 .. n, S)
  BY <1>4 DEF Injection, g
<1>8. g \in Surjection(1 .. n, S)
  <2>1. IsFiniteSet(1 .. n) /\ Cardinality(1 .. n) = n
    BY <1>1, FS_Interval
  <2> QED
    BY <1>1, <1>7, <2>1, FS_Injection
<1>9. \A id \in S : \E k \in 1 .. n : g[k] = id
  BY <1>8 DEF Surjection
<1> QED
  BY <1>5, <1>6, <1>9 DEF g

(* The items of the calls made, or answered, one for each.                 *)
LEMMA EachIs ==
    ASSUME NEW ids \in SUBSET CallIds, NEW kind \in {"tool", "output"}
    PROVE  /\ EachCall(ids) \in Seq(Items) /\ EachResult(kind, ids) \in Seq(Items)
           /\ Len(EachCall(ids)) = Len(SetToSeq(ids))
           /\ Len(EachResult(kind, ids)) = Len(SetToSeq(ids))
           /\ \A k \in 1 .. Len(SetToSeq(ids)) :
                /\ EachCall(ids)[k] = Item("call", {SetToSeq(ids)[k]}, {})
                /\ EachResult(kind, ids)[k] = Item(kind, {}, {SetToSeq(ids)[k]})
<1>1. IsFiniteSet(ids)
  BY HistoryBounds, FS_Subset
<1>2. SetToSeq(ids) \in Seq(ids)
  BY <1>1, SetToSeqIs
<1> DEFINE order == SetToSeq(ids)
<1>3. EachCall(ids) = [k \in DOMAIN order |-> Item("call", {order[k]}, {})]
  BY DEF EachCall
<1>4. EachResult(kind, ids) = [k \in DOMAIN order |-> Item(kind, {}, {order[k]})]
  BY DEF EachResult
<1> HIDE DEF order
<1>5. order \in Seq(CallIds) /\ DOMAIN order = 1 .. Len(order)
  BY <1>2 DEF order
<1>6. \A id \in CallIds : Item("call", {id}, {}) \in Items /\ Item(kind, {}, {id}) \in Items
  BY DEF Item, Items
<1>7. Len(order) \in Nat /\ \A k \in 1 .. Len(order) : order[k] \in CallIds
  BY <1>5
<1> DEFINE calls == [k \in 1 .. Len(order) |-> Item("call", {order[k]}, {})]
           results == [k \in 1 .. Len(order) |-> Item(kind, {}, {order[k]})]
<1>8. /\ calls \in Seq(Items) /\ results \in Seq(Items)
      /\ Len(calls) = Len(order) /\ Len(results) = Len(order)
  <2>1. /\ \A k \in 1 .. Len(order) : calls[k] \in Items
        /\ \A k \in 1 .. Len(order) : results[k] \in Items
    BY <1>6, <1>7
  <2>2. /\ calls = [k \in 1 .. Len(order) |-> calls[k]]
        /\ results = [k \in 1 .. Len(order) |-> results[k]]
    OBVIOUS
  <2> HIDE DEF calls, results
  <2> QED
    BY <1>7, <2>1, <2>2
<1> QED
  BY <1>3, <1>4, <1>5, <1>8 DEF order

-----------------------------------------------------------------------------
(* What goes on one item at a time.                                        *)

(* What holds of the items and the calls they leave open goes on holding as *)
(* items are added, if it does with each of them.                          *)
LEMMA OneAtATime ==
    ASSUME NEW R, NEW items \in Seq(Items), NEW s \in Seq(Items), NEW open,
           <<items, open[0]>> \in R,
           \A n \in 1 .. Len(s) : \A is \in Seq(Items) :
                <<is, open[n - 1]>> \in R => <<Append(is, s[n]), open[n]>> \in R
    PROVE  <<items \o s, open[Len(s)]>> \in R
<1> DEFINE Good == {n \in Nat : n <= Len(s) => <<items \o SubSeq(s, 1, n), open[n]>> \in R}
<1>1. Len(s) \in Nat
  OBVIOUS
<1>2. 0 \in Good
  <2>1. SubSeq(s, 1, 0) = <<>> /\ items \o <<>> = items
    OBVIOUS
  <2> QED
    BY <2>1
<1>3. ASSUME NEW n \in Nat, n \in Good
      PROVE  n + 1 \in Good
  <2> SUFFICES ASSUME n + 1 <= Len(s)
               PROVE  <<items \o SubSeq(s, 1, n + 1), open[n + 1]>> \in R
    OBVIOUS
  <2>1. n + 1 \in 1 .. Len(s) /\ (n + 1) - 1 = n
    BY <1>1
  <2>2. <<items \o SubSeq(s, 1, n), open[n]>> \in R
    BY <1>1, <1>3
  <2>3. SubSeq(s, 1, n) \in Seq(Items) /\ s[n + 1] \in Items
    BY <1>1, <2>1
  <2>4. SubSeq(s, 1, n + 1) = Append(SubSeq(s, 1, n), s[n + 1])
    BY <1>1, <2>1
  <2>5. items \o SubSeq(s, 1, n) \in Seq(Items)
    BY <2>3
  <2>6. items \o Append(SubSeq(s, 1, n), s[n + 1]) = Append(items \o SubSeq(s, 1, n), s[n + 1])
    BY <2>3
  <2>7. <<Append(items \o SubSeq(s, 1, n), s[n + 1]), open[n + 1]>> \in R
    BY <2>1, <2>2, <2>5
  <2> QED
    BY <2>4, <2>6, <2>7
<1> HIDE DEF Good
<1>4. Len(s) \in Good
  BY <1>1, <1>2, <1>3, InductionOverASet
<1>5. SubSeq(s, 1, Len(s)) = s
  OBVIOUS
<1>6. Len(s) <= Len(s)
  BY <1>1
<1> QED
  BY <1>4, <1>5, <1>6 DEF Good

-----------------------------------------------------------------------------
(* Responses.                                                              *)

\* Items whose results are of open calls, and the calls they leave open.
ResponsesSoFar ==
    {so \in Seq(Items) \X SUBSET CallIds :
        /\ \A k \in 1 .. Len(so[1]) :
              /\ so[1][k].of \subseteq OpenAt(so[1], k)
              /\ so[1][k].calls \cap OpenAt(so[1], k) = {}
        /\ OpenAt(so[1], Len(so[1]) + 1) = so[2]}

(* An item opens the calls it makes and closes the ones it answers.        *)
LEMMA OpenGrows ==
    ASSUME NEW items \in Seq(Items), NEW it \in Items
    PROVE  /\ \A k \in 1 .. Len(items) + 1 :
                OpenAt(Append(items, it), k) = OpenAt(items, k)
           /\ OpenAt(Append(items, it), Len(items) + 2)
                = (OpenAt(items, Len(items) + 1) \ it.of) \cup it.calls
<1> DEFINE more == Append(items, it)
           n == Len(items)
<1>1. n \in Nat /\ more[n + 1] = it /\ \A i \in 1 .. n : more[i] = items[i]
  OBVIOUS
<1> HIDE DEF more, n
<1>2. ASSUME NEW k \in 1 .. n + 1
      PROVE  OpenAt(more, k) = OpenAt(items, k)
  <2>1. \A j \in 1 .. (k - 1) : /\ more[j] = items[j]
                                /\ \A i \in (j + 1) .. (k - 1) : more[i] = items[i]
    BY <1>1
  <2> QED
    BY <2>1 DEF OpenAt
<1>3. OpenAt(more, n + 2) = (OpenAt(items, n + 1) \ it.of) \cup it.calls
  <2>1. (n + 2) - 1 = n + 1 /\ (n + 1) - 1 = n
    BY <1>1
  <2>2. \A id : id \in OpenAt(more, n + 2) <=>
          \E j \in 1 .. (n + 1) : /\ id \in more[j].calls
                                  /\ \A i \in (j + 1) .. (n + 1) : id \notin more[i].of
    BY <2>1 DEF OpenAt
  <2>3. \A id : id \in OpenAt(items, n + 1) <=>
          \E j \in 1 .. n : /\ id \in items[j].calls
                            /\ \A i \in (j + 1) .. n : id \notin items[i].of
    BY <2>1 DEF OpenAt
  <2>4. ASSUME NEW id, id \in OpenAt(more, n + 2), id \notin it.calls
        PROVE  id \in OpenAt(items, n + 1) \ it.of
    <3>1. PICK j \in 1 .. (n + 1) : /\ id \in more[j].calls
                                    /\ \A i \in (j + 1) .. (n + 1) : id \notin more[i].of
      BY <2>2, <2>4
    <3>2. j \in 1 .. n /\ n + 1 \in (j + 1) .. (n + 1)
      BY <1>1, <2>4, <3>1
    <3>3. \A i \in (j + 1) .. n : i \in (j + 1) .. (n + 1) /\ more[i] = items[i]
      BY <1>1, <3>2
    <3> QED
      BY <1>1, <2>3, <3>1, <3>2, <3>3
  <2>5. ASSUME NEW id, id \in it.calls
        PROVE  id \in OpenAt(more, n + 2)
    <3>1. n + 1 \in 1 .. (n + 1) /\ (n + 1 + 1) .. (n + 1) = {}
      BY <1>1
    <3> QED
      BY <1>1, <2>2, <2>5, <3>1
  <2>6. ASSUME NEW id, id \in OpenAt(items, n + 1), id \notin it.of
        PROVE  id \in OpenAt(more, n + 2)
    <3>1. PICK j \in 1 .. n : /\ id \in items[j].calls
                              /\ \A i \in (j + 1) .. n : id \notin items[i].of
      BY <2>3, <2>6
    <3>2. j \in 1 .. (n + 1) /\ id \in more[j].calls
      BY <1>1, <3>1
    <3>3. ASSUME NEW i \in (j + 1) .. (n + 1)
          PROVE  id \notin more[i].of
      <4>1. i = n + 1 \/ (i \in (j + 1) .. n /\ i \in 1 .. n)
        BY <1>1, <3>1
      <4> QED
        BY <1>1, <2>6, <3>1, <4>1
    <3> QED
      BY <2>2, <3>2, <3>3
  <2> QED
    BY <2>4, <2>5, <2>6
<1> QED
  BY <1>2, <1>3 DEF more, n

(* An item that answers open calls, and makes none of those, goes on.      *)
LEMMA ResponsesGoOn ==
    ASSUME NEW items, NEW open, <<items, open>> \in ResponsesSoFar,
           NEW it \in Items, it.of \subseteq open, it.calls \cap open = {}
    PROVE  <<Append(items, it), (open \ it.of) \cup it.calls>> \in ResponsesSoFar
<1>1. /\ items \in Seq(Items) /\ open \in SUBSET CallIds
      /\ \A k \in 1 .. Len(items) : /\ items[k].of \subseteq OpenAt(items, k)
                                    /\ items[k].calls \cap OpenAt(items, k) = {}
      /\ OpenAt(items, Len(items) + 1) = open
  BY DEF ResponsesSoFar
<1> DEFINE more == Append(items, it)
<1>2. /\ more \in Seq(Items) /\ Len(more) = Len(items) + 1 /\ Len(items) \in Nat
      /\ more[Len(items) + 1] = it /\ \A k \in 1 .. Len(items) : more[k] = items[k]
  BY <1>1
<1>3. /\ \A k \in 1 .. Len(items) + 1 : OpenAt(more, k) = OpenAt(items, k)
      /\ OpenAt(more, Len(items) + 2) = (open \ it.of) \cup it.calls
  BY <1>1, OpenGrows
<1> HIDE DEF more
<1>4. ASSUME NEW k \in 1 .. Len(more)
      PROVE  more[k].of \subseteq OpenAt(more, k) /\ more[k].calls \cap OpenAt(more, k) = {}
  <2>1. CASE k = Len(items) + 1
    <3>1. more[k] = it /\ OpenAt(more, k) = open
      BY <1>1, <1>2, <1>3, <2>1
    <3> QED
      BY <3>1
  <2>2. CASE k \in 1 .. Len(items)
    <3>1. k \in 1 .. Len(items) + 1
      BY <1>2, <2>2
    <3> QED
      BY <1>1, <1>2, <1>3, <2>2, <3>1
  <2> QED
    BY <1>2, <2>1, <2>2
<1>5. (open \ it.of) \cup it.calls \in SUBSET CallIds
  BY <1>1 DEF Items
<1>6. Len(more) + 1 = Len(items) + 2
  BY <1>2
<1> QED
  BY <1>2, <1>3, <1>4, <1>5, <1>6 DEF ResponsesSoFar, more

(* The calls of a message are open once they went out.                     *)
LEMMA CallsGoOut ==
    ASSUME NEW items, NEW open, <<items, open>> \in ResponsesSoFar,
           NEW ids \in SUBSET CallIds, ids \cap open = {}
    PROVE  <<items \o EachCall(ids), open \cup ids>> \in ResponsesSoFar
<1> DEFINE order == SetToSeq(ids)
           n == Len(order)
           opened == [k \in 0 .. n |-> open \cup {order[i] : i \in 1 .. k}]
           s == EachCall(ids)
<1>1. /\ order \in Seq(ids) /\ \A id \in ids : \E k \in 1 .. n : order[k] = id
      /\ \A j, k \in 1 .. n : order[j] = order[k] => j = k
  BY HistoryBounds, FS_Subset, SetToSeqIs
<1>2. s \in Seq(Items) /\ Len(s) = n /\ \A k \in 1 .. n : s[k] = Item("call", {order[k]}, {})
  BY EachIs
<1>3. n \in Nat /\ \A k \in 1 .. n : order[k] \in ids
  BY <1>1
<1> HIDE DEF order, n, s
<1>4. items \in Seq(Items) /\ open \in SUBSET CallIds
  BY DEF ResponsesSoFar
<1>5. opened[0] = open
  BY <1>3
<1>6. ASSUME NEW k \in 1 .. n, NEW is \in Seq(Items), <<is, opened[k - 1]>> \in ResponsesSoFar
      PROVE  <<Append(is, s[k]), opened[k]>> \in ResponsesSoFar
  <2>1. /\ k - 1 \in 0 .. n /\ k \in 0 .. n
        /\ \A i \in 1 .. k : i = k \/ i \in 1 .. (k - 1)
        /\ \A i \in 1 .. (k - 1) : i \in 1 .. n /\ i # k /\ i \in 1 .. k
    BY <1>3
  <2>2. /\ opened[k - 1] = open \cup {order[i] : i \in 1 .. (k - 1)}
        /\ opened[k] = open \cup {order[i] : i \in 1 .. k}
    BY <2>1
  <2>3. opened[k] = opened[k - 1] \cup {order[k]}
    BY <2>1, <2>2
  <2>4. order[k] \notin opened[k - 1]
    BY <1>1, <1>3, <2>1, <2>2
  <2>5. s[k] = [kind |-> "call", calls |-> {order[k]}, of |-> {}] /\ s[k] \in Items
    BY <1>2, <1>3 DEF Item
  <2> HIDE DEF opened
  <2>6. <<Append(is, s[k]), (opened[k - 1] \ s[k].of) \cup s[k].calls>> \in ResponsesSoFar
    BY <1>6, <2>4, <2>5, ResponsesGoOn, SMTT(30)
  <2> QED
    BY <2>3, <2>5, <2>6
<1>7. opened[n] = open \cup ids
  BY <1>1, <1>3
<1> HIDE DEF opened
<1>8. <<items \o s, opened[Len(s)]>> \in ResponsesSoFar
  BY <1>2, <1>4, <1>5, <1>6, OneAtATime
<1> QED
  BY <1>2, <1>7, <1>8 DEF s

(* The results of open calls close them, in any order.                     *)
LEMMA OutputsGoOut ==
    ASSUME NEW items, NEW open, <<items, open>> \in ResponsesSoFar,
           NEW ids \in SUBSET open
    PROVE  <<items \o EachResult("output", ids), open \ ids>> \in ResponsesSoFar
<1> DEFINE order == SetToSeq(ids)
           n == Len(order)
           left == [k \in 0 .. n |-> open \ {order[i] : i \in 1 .. k}]
           s == EachResult("output", ids)
<1>4. items \in Seq(Items) /\ open \in SUBSET CallIds /\ ids \in SUBSET CallIds
  BY DEF ResponsesSoFar
<1>1. /\ order \in Seq(ids) /\ \A id \in ids : \E k \in 1 .. n : order[k] = id
      /\ \A j, k \in 1 .. n : order[j] = order[k] => j = k
  BY <1>4, HistoryBounds, FS_Subset, SetToSeqIs
<1>2. s \in Seq(Items) /\ Len(s) = n /\ \A k \in 1 .. n : s[k] = Item("output", {}, {order[k]})
  BY <1>4, EachIs
<1>3. n \in Nat /\ \A k \in 1 .. n : order[k] \in ids
  BY <1>1
<1> HIDE DEF order, n, s
<1>5. left[0] = open
  BY <1>3
<1>6. ASSUME NEW k \in 1 .. n, NEW is \in Seq(Items), <<is, left[k - 1]>> \in ResponsesSoFar
      PROVE  <<Append(is, s[k]), left[k]>> \in ResponsesSoFar
  <2>1. /\ k - 1 \in 0 .. n /\ k \in 0 .. n
        /\ \A i \in 1 .. k : i = k \/ i \in 1 .. (k - 1)
        /\ \A i \in 1 .. (k - 1) : i \in 1 .. n /\ i # k /\ i \in 1 .. k
    BY <1>3
  <2>2. /\ left[k - 1] = open \ {order[i] : i \in 1 .. (k - 1)}
        /\ left[k] = open \ {order[i] : i \in 1 .. k}
    BY <2>1
  <2>3. left[k] = left[k - 1] \ {order[k]}
    BY <2>1, <2>2
  <2>4. order[k] \in left[k - 1]
    BY <1>1, <1>3, <2>1, <2>2
  <2>5. s[k] = [kind |-> "output", calls |-> {}, of |-> {order[k]}] /\ s[k] \in Items
    BY <1>2, <1>3 DEF Item
  <2> HIDE DEF left
  <2>6. <<Append(is, s[k]), (left[k - 1] \ s[k].of) \cup s[k].calls>> \in ResponsesSoFar
    BY <1>6, <2>4, <2>5, ResponsesGoOn
  <2> QED
    BY <2>3, <2>5, <2>6
<1>7. left[n] = open \ ids
  BY <1>1, <1>3
<1> HIDE DEF left
<1>8. <<items \o s, left[Len(s)]>> \in ResponsesSoFar
  BY <1>2, <1>4, <1>5, <1>6, OneAtATime
<1> QED
  BY <1>2, <1>7, <1>8 DEF s

\* A message of one role, as the repair leaves them.
OneKind(m) == m.uses = {} \/ m.answers = {}

(* A message that answers the open calls opens the ones it makes.          *)
LEMMA ResponsesOfAMessage ==
    ASSUME NEW items, NEW m \in Message(CallIds), <<items, m.answers>> \in ResponsesSoFar,
           OneKind(m)
    PROVE  <<items \o ConvertResponses(m), m.uses>> \in ResponsesSoFar
<1> DEFINE own == IF HasBody(m) THEN <<Item(m.role, {}, {})>> ELSE <<>>
<1>1. /\ m.role \in {"user", "assistant"} /\ m.uses \in SUBSET CallIds
      /\ m.answers \in SUBSET CallIds
  BY DEF Message
<1>2. items \in Seq(Items)
  BY DEF ResponsesSoFar
<1> DEFINE it == Item(m.role, {}, {})
<1>3. it \in Items /\ it.calls = {} /\ it.of = {}
  BY <1>1 DEF Items, Item
<1> HIDE DEF it
<1>4. own \in Seq(Items)
  BY <1>3 DEF it
<1>5. <<items \o own, m.answers>> \in ResponsesSoFar
  <2>1. CASE HasBody(m)
    <3>1. <<Append(items, it), (m.answers \ it.of) \cup it.calls>> \in ResponsesSoFar
      BY <1>3, ResponsesGoOn
    <3>2. items \o <<it>> = Append(items, it)
      BY <1>2, <1>3
    <3>3. (m.answers \ it.of) \cup it.calls = m.answers
      BY <1>3
    <3> QED
      BY <2>1, <3>1, <3>2, <3>3 DEF it
  <2>2. CASE ~HasBody(m)
    <3>1. items \o <<>> = items
      BY <1>2
    <3> QED
      BY <2>2, <3>1
  <2> QED
    BY <2>1, <2>2
<1> HIDE DEF own
<1>6. /\ EachCall(m.uses) \in Seq(Items) /\ EachResult("output", m.answers) \in Seq(Items)
  BY <1>1, EachIs
<1>7. <<(items \o own) \o EachCall(m.uses), m.answers \cup m.uses>> \in ResponsesSoFar
  BY <1>1, <1>5, CallsGoOut DEF OneKind
<1>8. <<((items \o own) \o EachCall(m.uses)) \o EachResult("output", m.answers),
        (m.answers \cup m.uses) \ m.answers>> \in ResponsesSoFar
  BY <1>7, OutputsGoOut
<1>9. (m.answers \cup m.uses) \ m.answers = m.uses
  BY DEF OneKind
<1>10. ConvertResponses(m) = (own \o EachCall(m.uses)) \o EachResult("output", m.answers)
  BY DEF ConvertResponses, own
<1>11. ((items \o own) \o EachCall(m.uses)) \o EachResult("output", m.answers)
         = items \o ((own \o EachCall(m.uses)) \o EachResult("output", m.answers))
  BY <1>2, <1>4, <1>6, SMTT(30)
<1> QED
  BY <1>8, <1>9, <1>10, <1>11

-----------------------------------------------------------------------------
(* Chat.                                                                   *)

\* The j-th item is the last of the first k that is no result, if any.
RefersTo(items, k, j) ==
    /\ j \in 0 .. k
    /\ j = 0 \/ items[j].kind # "tool"
    /\ \A i \in (j + 1) .. k : items[i].kind = "tool"

\* Items whose results follow the message that calls, and the calls of the
\* last message that wait for theirs.
IsChatSoFar(items, open) ==
    /\ \A k \in 1 .. Len(items) : items[k].kind = "tool" =>
          \E j \in 1 .. k : RefersTo(items, k, j) /\ items[k].of \subseteq items[j].calls
    /\ \E last \in 0 .. Len(items) :
          /\ RefersTo(items, Len(items), last)
          /\ last = 0 => open = {}
          /\ last # 0 => open \subseteq items[last].calls
          /\ \A j \in 1 .. Len(items) : \A id \in items[j].calls :
                \/ j = last /\ id \in open
                \/ \E k \in 1 .. Len(items) : items[k].of = {id} /\ RefersTo(items, k, j)

ChatSoFar == {so \in Seq(Items) \X SUBSET CallIds : IsChatSoFar(so[1], so[2])}

LEMMA ChatSoFarIs ==
    \A items, open : <<items, open>> \in ChatSoFar <=>
        /\ items \in Seq(Items) /\ open \in SUBSET CallIds
        /\ IsChatSoFar(items, open)
  BY DEF ChatSoFar

(* From the message the last results refer to.                             *)
LEMMA ChatSoFarWith ==
    ASSUME NEW items \in Seq(Items), NEW open \in SUBSET CallIds,
           NEW last \in 1 .. Len(items), RefersTo(items, Len(items), last),
           open \subseteq items[last].calls,
           \A k \in 1 .. Len(items) : items[k].kind = "tool" =>
              \E j \in 1 .. k : RefersTo(items, k, j) /\ items[k].of \subseteq items[j].calls,
           \A j \in 1 .. Len(items) : \A id \in items[j].calls :
              \/ j = last /\ id \in open
              \/ \E k \in 1 .. Len(items) : items[k].of = {id} /\ RefersTo(items, k, j)
    PROVE  <<items, open>> \in ChatSoFar
<1>1. last \in 0 .. Len(items) /\ last # 0
  OBVIOUS
<1>2. IsChatSoFar(items, open)
  BY <1>1 DEF IsChatSoFar
<1> QED
  BY <1>2, ChatSoFarIs

(* There is one item to refer to.                                          *)
LEMMA ReferredIs ==
    ASSUME NEW items, NEW k \in Nat, NEW j, RefersTo(items, k, j)
    PROVE  Referred(items, k) = j
<1>1. ASSUME NEW i, RefersTo(items, k, i)
      PROVE  i = j
  <2>1. i \in 0 .. k /\ j \in 0 .. k
    BY <1>1 DEF RefersTo
  <2>2. ~(i < j)
    <3> SUFFICES ASSUME i < j
                 PROVE  FALSE
      OBVIOUS
    <3>1. j \in (i + 1) .. k /\ j # 0
      BY <2>1
    <3> QED
      BY <1>1, <3>1 DEF RefersTo
  <2>3. ~(j < i)
    <3> SUFFICES ASSUME j < i
                 PROVE  FALSE
      OBVIOUS
    <3>1. i \in (j + 1) .. k /\ i # 0
      BY <2>1
    <3> QED
      BY <1>1, <3>1 DEF RefersTo
  <2> QED
    BY <2>1, <2>2, <2>3
<1> QED
  BY <1>1 DEF Referred, RefersTo

(* More items change no reference.                                         *)
LEMMA ReferenceStays ==
    ASSUME NEW items \in Seq(Items), NEW it \in Items, NEW k \in 0 .. Len(items), NEW j
    PROVE  RefersTo(Append(items, it), k, j) <=> RefersTo(items, k, j)
<1> DEFINE more == Append(items, it)
<1>1. Len(items) \in Nat /\ \A i \in 1 .. Len(items) : more[i] = items[i]
  OBVIOUS
<1> HIDE DEF more
<1>2. ASSUME j \in 0 .. k
      PROVE  /\ j # 0 => more[j] = items[j]
             /\ \A i \in (j + 1) .. k : more[i] = items[i]
  BY <1>1, <1>2
<1> QED
  BY <1>2 DEF RefersTo, more

(* A message of its own, when no call waits.                               *)
LEMMA ChatSays ==
    ASSUME NEW items, <<items, {}>> \in ChatSoFar,
           NEW it \in Items, it.kind # "tool", it.of = {}
    PROVE  <<Append(items, it), it.calls>> \in ChatSoFar
<1> DEFINE n == Len(items)
           more == Append(items, it)
<1>1. /\ items \in Seq(Items)
      /\ \A k \in 1 .. n : items[k].kind = "tool" =>
           \E j \in 1 .. k : RefersTo(items, k, j) /\ items[k].of \subseteq items[j].calls
      /\ \A j \in 1 .. n : \A id \in items[j].calls :
           \E k \in 1 .. n : items[k].of = {id} /\ RefersTo(items, k, j)
  <2>1. items \in Seq(Items) /\ IsChatSoFar(items, {})
    BY ChatSoFarIs
  <2> QED
    BY <2>1 DEF IsChatSoFar
<1>2. /\ n \in Nat /\ more \in Seq(Items) /\ Len(more) = n + 1 /\ more[n + 1] = it
      /\ \A i \in 1 .. n : more[i] = items[i]
  BY <1>1
<1>3. \A k \in 0 .. n : \A j : RefersTo(more, k, j) <=> RefersTo(items, k, j)
  BY <1>1, ReferenceStays
<1> HIDE DEF n, more
<1>4. it.calls \in SUBSET CallIds
  BY DEF Items
<1>5. ASSUME NEW k \in 1 .. (n + 1), more[k].kind = "tool"
      PROVE  \E j \in 1 .. k : RefersTo(more, k, j) /\ more[k].of \subseteq more[j].calls
  <2>1. k \in 1 .. n /\ k \in 0 .. n /\ more[k] = items[k]
    BY <1>2, <1>5
  <2>2. PICK j \in 1 .. k : RefersTo(items, k, j) /\ items[k].of \subseteq items[j].calls
    BY <1>1, <1>5, <2>1
  <2>3. j \in 1 .. n
    BY <1>2, <2>1
  <2> QED
    BY <1>2, <1>3, <2>1, <2>2, <2>3
<1>6. RefersTo(more, n + 1, n + 1)
  BY <1>2 DEF RefersTo
<1>7. ASSUME NEW j \in 1 .. (n + 1), NEW id \in more[j].calls
      PROVE  \/ j = n + 1 /\ id \in it.calls
             \/ \E k \in 1 .. (n + 1) : more[k].of = {id} /\ RefersTo(more, k, j)
  <2>1. CASE j = n + 1
    BY <1>2, <1>7, <2>1
  <2>2. CASE j \in 1 .. n
    <3>1. PICK k \in 1 .. n : items[k].of = {id} /\ RefersTo(items, k, j)
      BY <1>1, <1>2, <1>7, <2>2
    <3>2. k \in 1 .. (n + 1) /\ k \in 0 .. n /\ more[k] = items[k]
      BY <1>2
    <3> QED
      BY <1>3, <3>1, <3>2
  <2> QED
    BY <1>2, <2>1, <2>2
<1>8. /\ n + 1 \in 0 .. Len(more) /\ RefersTo(more, Len(more), n + 1) /\ n + 1 # 0
      /\ more[n + 1].calls = it.calls
  BY <1>2, <1>6
<1> DEFINE left == it.calls
<1>9. /\ \A k \in 1 .. Len(more) : more[k].kind = "tool" =>
             \E j \in 1 .. k : RefersTo(more, k, j) /\ more[k].of \subseteq more[j].calls
      /\ \A j \in 1 .. Len(more) : \A i \in more[j].calls :
             \/ j = n + 1 /\ i \in left
             \/ \E k \in 1 .. Len(more) : more[k].of = {i} /\ RefersTo(more, k, j)
  BY <1>2, <1>5, <1>7
<1>10. n + 1 \in 1 .. Len(more) /\ left \subseteq more[n + 1].calls
  BY <1>2, <1>8
<1> HIDE DEF left
<1>11. <<more, left>> \in ChatSoFar
  BY <1>2, <1>4, <1>8, <1>9, <1>10, ChatSoFarWith DEF left
<1> QED
  BY <1>11 DEF more, left

(* A result of a call that waits.                                          *)
LEMMA ChatAnswers ==
    ASSUME NEW items, NEW open, <<items, open>> \in ChatSoFar,
           NEW id \in open, NEW it \in Items, it.kind = "tool", it.calls = {}, it.of = {id}
    PROVE  <<Append(items, it), open \ {id}>> \in ChatSoFar
<1> DEFINE n == Len(items)
           more == Append(items, it)
<1>1. /\ items \in Seq(Items) /\ open \in SUBSET CallIds
      /\ \A k \in 1 .. n : items[k].kind = "tool" =>
           \E j \in 1 .. k : RefersTo(items, k, j) /\ items[k].of \subseteq items[j].calls
  <2>1. items \in Seq(Items) /\ open \in SUBSET CallIds /\ IsChatSoFar(items, open)
    BY ChatSoFarIs
  <2> QED
    BY <2>1 DEF IsChatSoFar
<1>2. PICK last \in 0 .. n :
        /\ RefersTo(items, n, last)
        /\ last = 0 => open = {}
        /\ last # 0 => open \subseteq items[last].calls
        /\ \A j \in 1 .. n : \A i \in items[j].calls :
             \/ j = last /\ i \in open
             \/ \E k \in 1 .. n : items[k].of = {i} /\ RefersTo(items, k, j)
  <2>1. IsChatSoFar(items, open)
    BY ChatSoFarIs
  <2> QED
    BY <2>1 DEF IsChatSoFar
<1>3. it \in Items /\ it.kind = "tool" /\ it.calls = {} /\ it.of = {id}
  OBVIOUS
<1>4. /\ n \in Nat /\ more \in Seq(Items) /\ Len(more) = n + 1 /\ more[n + 1] = it
      /\ \A i \in 1 .. n : more[i] = items[i]
  BY <1>1, <1>3
<1>5. \A k \in 0 .. n : \A j : RefersTo(more, k, j) <=> RefersTo(items, k, j)
  BY <1>1, <1>3, ReferenceStays
<1> HIDE DEF n, more
<1>6. last \in 1 .. n /\ more[last] = items[last] /\ id \in more[last].calls
  BY <1>2, <1>4
<1>7. RefersTo(more, n + 1, last)
  <2>1. RefersTo(more, n, last)
    BY <1>2, <1>4, <1>5
  <2>2. \A i \in (last + 1) .. (n + 1) : i = n + 1 \/ i \in (last + 1) .. n
    BY <1>4, <1>6
  <2>3. last \in 0 .. (n + 1)
    BY <1>4, <1>6
  <2> QED
    BY <1>3, <1>4, <2>1, <2>2, <2>3 DEF RefersTo
<1>8. ASSUME NEW k \in 1 .. (n + 1), more[k].kind = "tool"
      PROVE  \E j \in 1 .. k : RefersTo(more, k, j) /\ more[k].of \subseteq more[j].calls
  <2>1. CASE k = n + 1
    <3>1. last \in 1 .. k /\ more[k].of \subseteq more[last].calls
      BY <1>3, <1>4, <1>6, <2>1
    <3> QED
      BY <1>7, <2>1, <3>1
  <2>2. CASE k \in 1 .. n
    <3>1. k \in 0 .. n /\ more[k] = items[k]
      BY <1>4, <2>2
    <3>2. PICK j \in 1 .. k : RefersTo(items, k, j) /\ items[k].of \subseteq items[j].calls
      BY <1>1, <1>8, <2>2, <3>1
    <3>3. j \in 1 .. n
      BY <1>4, <2>2
    <3> QED
      BY <1>4, <1>5, <3>1, <3>2, <3>3
  <2> QED
    BY <1>4, <2>1, <2>2
<1>9. ASSUME NEW j \in 1 .. (n + 1), NEW i \in more[j].calls
      PROVE  \/ j = last /\ i \in open \ {id}
             \/ \E k \in 1 .. (n + 1) : more[k].of = {i} /\ RefersTo(more, k, j)
  <2>1. j \in 1 .. n /\ more[j] = items[j]
    BY <1>3, <1>4, <1>9
  <2>2. CASE j = last /\ i \in open
    <3>1. CASE i = id
      <4>1. n + 1 \in 1 .. (n + 1) /\ more[n + 1].of = {i}
        BY <1>3, <1>4, <3>1
      <4> QED
        BY <1>7, <2>2, <4>1
    <3>2. CASE i # id
      BY <2>2, <3>2
    <3> QED
      BY <3>1, <3>2
  <2>3. CASE \E k \in 1 .. n : items[k].of = {i} /\ RefersTo(items, k, j)
    <3>1. PICK k \in 1 .. n : items[k].of = {i} /\ RefersTo(items, k, j)
      BY <2>3
    <3>2. k \in 1 .. (n + 1) /\ k \in 0 .. n /\ more[k] = items[k]
      BY <1>4
    <3> QED
      BY <1>5, <3>1, <3>2
  <2> QED
    BY <1>2, <1>9, <2>1, <2>2, <2>3
<1>10. /\ last \in 0 .. Len(more) /\ RefersTo(more, Len(more), last) /\ last # 0
       /\ open \ {id} \subseteq more[last].calls
       /\ open \ {id} \in SUBSET CallIds
  BY <1>1, <1>2, <1>4, <1>6, <1>7
<1> DEFINE left == open \ {id}
<1>11. /\ \A k \in 1 .. Len(more) : more[k].kind = "tool" =>
             \E j \in 1 .. k : RefersTo(more, k, j) /\ more[k].of \subseteq more[j].calls
       /\ \A j \in 1 .. Len(more) : \A i \in more[j].calls :
             \/ j = last /\ i \in left
             \/ \E k \in 1 .. Len(more) : more[k].of = {i} /\ RefersTo(more, k, j)
  BY <1>4, <1>8, <1>9
<1>12. last \in 1 .. Len(more) /\ left \subseteq more[last].calls /\ left \in SUBSET CallIds
  BY <1>10
<1> HIDE DEF left
<1>13. <<more, left>> \in ChatSoFar
  BY <1>4, <1>10, <1>11, <1>12, ChatSoFarWith
<1> QED
  BY <1>13 DEF more, left

(* The results of the calls that wait, in any order.                       *)
LEMMA ResultsGoOut ==
    ASSUME NEW items, NEW open, <<items, open>> \in ChatSoFar,
           NEW ids \in SUBSET open
    PROVE  <<items \o EachResult("tool", ids), open \ ids>> \in ChatSoFar
<1> DEFINE order == SetToSeq(ids)
           n == Len(order)
           left == [k \in 0 .. n |-> open \ {order[i] : i \in 1 .. k}]
           s == EachResult("tool", ids)
<1>4. items \in Seq(Items) /\ open \in SUBSET CallIds /\ ids \in SUBSET CallIds
  BY ChatSoFarIs
<1>1. /\ order \in Seq(ids) /\ \A id \in ids : \E k \in 1 .. n : order[k] = id
      /\ \A j, k \in 1 .. n : order[j] = order[k] => j = k
  BY <1>4, HistoryBounds, FS_Subset, SetToSeqIs
<1>2. s \in Seq(Items) /\ Len(s) = n /\ \A k \in 1 .. n : s[k] = Item("tool", {}, {order[k]})
  BY <1>4, EachIs
<1>3. n \in Nat /\ \A k \in 1 .. n : order[k] \in ids
  BY <1>1
<1> HIDE DEF order, n, s
<1>5. left[0] = open
  BY <1>3
<1>6. ASSUME NEW k \in 1 .. n, NEW is \in Seq(Items), <<is, left[k - 1]>> \in ChatSoFar
      PROVE  <<Append(is, s[k]), left[k]>> \in ChatSoFar
  <2>1. /\ k - 1 \in 0 .. n /\ k \in 0 .. n
        /\ \A i \in 1 .. k : i = k \/ i \in 1 .. (k - 1)
        /\ \A i \in 1 .. (k - 1) : i \in 1 .. n /\ i # k /\ i \in 1 .. k
    BY <1>3
  <2>2. /\ left[k - 1] = open \ {order[i] : i \in 1 .. (k - 1)}
        /\ left[k] = open \ {order[i] : i \in 1 .. k}
    BY <2>1
  <2>3. left[k] = left[k - 1] \ {order[k]}
    BY <2>1, <2>2
  <2>4. order[k] \in left[k - 1]
    BY <1>1, <1>3, <2>1, <2>2
  <2>5. s[k] = [kind |-> "tool", calls |-> {}, of |-> {order[k]}] /\ s[k] \in Items
    BY <1>2, <1>3 DEF Item
  <2> HIDE DEF left
  <2> QED
    BY <1>6, <2>3, <2>4, <2>5, ChatAnswers
<1>7. left[n] = open \ ids
  BY <1>1, <1>3
<1> HIDE DEF left
<1>8. <<items \o s, left[Len(s)]>> \in ChatSoFar
  BY <1>2, <1>4, <1>5, <1>6, OneAtATime
<1> QED
  BY <1>2, <1>7, <1>8 DEF s

(* A message that answers the calls that wait, and when it does carries     *)
(* nothing else.                                                           *)
LEMMA ChatOfAMessage ==
    ASSUME NEW items, NEW m \in Message(CallIds), <<items, m.answers>> \in ChatSoFar,
           OneKind(m), ~CarriesMore(m)
    PROVE  <<items \o ConvertChat(m), m.uses>> \in ChatSoFar
<1> DEFINE own == IF ChatHasOwn(m) THEN <<Item(m.role, m.uses, {})>> ELSE <<>>
           it == Item(m.role, m.uses, {})
           rest == EachResult("tool", m.answers)
<1>1. /\ m.role \in {"user", "assistant"} /\ m.uses \in SUBSET CallIds
      /\ m.answers \in SUBSET CallIds
  BY DEF Message
<1>2. items \in Seq(Items)
  BY ChatSoFarIs
<1>3. it \in Items /\ it.kind # "tool" /\ it.calls = m.uses /\ it.of = {}
  BY <1>1 DEF Items, Item
<1> HIDE DEF it
<1>4. own \in Seq(Items) /\ rest \in Seq(Items)
  BY <1>1, <1>3, EachIs DEF it
<1>5. ConvertChat(m) = own \o rest
  BY DEF ConvertChat
<1>6. <<items \o own, m.answers \cup m.uses>> \in ChatSoFar
  <2>1. CASE ChatHasOwn(m)
    <3>1. m.answers = {}
      BY <2>1 DEF ChatHasOwn, OneKind, CarriesMore, HasBody
    <3>2. <<Append(items, it), it.calls>> \in ChatSoFar
      BY <1>3, <3>1, ChatSays
    <3>3. items \o <<it>> = Append(items, it)
      BY <1>2, <1>3
    <3>4. own = <<it>> /\ m.answers \cup m.uses = it.calls
      BY <1>3, <2>1, <3>1 DEF it
    <3> QED
      BY <3>2, <3>3, <3>4
  <2>2. CASE ~ChatHasOwn(m)
    <3>1. items \o <<>> = items /\ own = <<>> /\ m.answers \cup m.uses = m.answers
      BY <1>2, <2>2 DEF ChatHasOwn
    <3> QED
      BY <3>1
  <2> QED
    BY <2>1, <2>2
<1> HIDE DEF own
<1>7. <<(items \o own) \o rest, (m.answers \cup m.uses) \ m.answers>> \in ChatSoFar
  BY <1>6, ResultsGoOut
<1> HIDE DEF rest
<1>8. (m.answers \cup m.uses) \ m.answers = m.uses
  BY DEF OneKind
<1>9. (items \o own) \o rest = items \o (own \o rest)
  BY <1>2, <1>4
<1> QED
  BY <1>5, <1>7, <1>8, <1>9

-----------------------------------------------------------------------------
(* The history.                                                            *)

(* A message becomes items.                                                *)
LEMMA ConvertTypes ==
    ASSUME NEW m \in Message(CallIds)
    PROVE  ConvertResponses(m) \in Seq(Items) /\ ConvertChat(m) \in Seq(Items)
<1>1. /\ m.role \in {"user", "assistant"} /\ m.uses \in SUBSET CallIds
      /\ m.answers \in SUBSET CallIds
  BY DEF Message
<1>2. /\ EachCall(m.uses) \in Seq(Items) /\ EachResult("output", m.answers) \in Seq(Items)
      /\ EachResult("tool", m.answers) \in Seq(Items)
  BY <1>1, EachIs
<1> DEFINE said == IF HasBody(m) THEN <<Item(m.role, {}, {})>> ELSE <<>>
           own == IF ChatHasOwn(m) THEN <<Item(m.role, m.uses, {})>> ELSE <<>>
<1>3. said \in Seq(Items) /\ own \in Seq(Items)
  <2>1. Item(m.role, {}, {}) \in Items /\ Item(m.role, m.uses, {}) \in Items
    BY <1>1 DEF Item, Items
  <2> QED
    BY <2>1
<1>4. /\ ConvertResponses(m) = (said \o EachCall(m.uses)) \o EachResult("output", m.answers)
      /\ ConvertChat(m) = own \o EachResult("tool", m.answers)
  BY DEF ConvertResponses, ConvertChat
<1> HIDE DEF said, own
<1> QED
  BY <1>2, <1>3, <1>4

\* Each message answers the calls of the one before it, and no call is left.
Chained(ms) ==
    /\ \A i \in 1 .. Len(ms) : ms[i].answers = IF i = 1 THEN {} ELSE ms[i - 1].uses
    /\ Len(ms) # 0 => ms[Len(ms)].uses = {}

(* A history a provider accepts is a chain.                                *)
LEMMA AnsweredIsChained ==
    ASSUME NEW ms, Len(ms) \in Nat, NoOrphanResults(ms), AllCallsAnswered(ms)
    PROVE  Chained(ms)
<1>1. ASSUME NEW i \in 1 .. Len(ms)
      PROVE  ms[i].answers = IF i = 1 THEN {} ELSE ms[i - 1].uses
  <2>1. CASE i = 1
    BY <2>1 DEF NoOrphanResults
  <2>2. CASE i # 1
    <3>1. i - 1 \in 1 .. Len(ms) /\ (i - 1) + 1 = i
      BY <2>2
    <3>2. ms[i - 1].uses # {} => ms[i].answers = ms[i - 1].uses
      BY <3>1 DEF AllCallsAnswered, CallIsAnswered
    <3>3. ms[i].answers # {} => ms[i].answers \subseteq ms[i - 1].uses
      BY DEF NoOrphanResults
    <3> QED
      BY <2>2, <3>2, <3>3
  <2> QED
    BY <2>1, <2>2
<1>2. Len(ms) # 0 => ms[Len(ms)].uses = {}
  BY DEF AllCallsAnswered, CallIsAnswered
<1> QED
  BY <1>1, <1>2 DEF Chained

(* A history goes out message by message.                                  *)
LEMMA MessageByMessage ==
    ASSUME NEW Ms \in SUBSET Message(CallIds), NEW ms \in Seq(Ms), Chained(ms),
           NEW convert \in [Ms -> Seq(Items)], NEW R, << <<>>, {} >> \in R,
           \A m \in Ms : \A items \in Seq(Items) :
              <<items, m.answers>> \in R => <<items \o convert[m], m.uses>> \in R
    PROVE  <<Account(ms, convert), {}>> \in R
<1> DEFINE open(n) == IF n = 0 THEN {} ELSE ms[n].uses
           Out == {n \in Nat : n <= Len(ms) =>
                      <<Account(SubSeq(ms, 1, n), convert), open(n)>> \in R}
<1>1. Len(ms) \in Nat
  OBVIOUS
<1>2. 0 \in Out
  <2>1. SubSeq(ms, 1, 0) = <<>>
    OBVIOUS
  <2>2. Account(<<>>, convert) = <<>>
    <3> DEFINE each == [i \in 1 .. Len(<<>>) |-> convert[<<>>[i]]]
    <3>1. each = <<>>
      OBVIOUS
    <3>2. FlattenSeq(<<>>) = <<>>
      <4>1. <<>> \in Seq(Seq(Items)) /\ Len(<<>>) = 0
        OBVIOUS
      <4> QED
        BY <4>1, FlattenIs
    <3> QED
      BY <3>1, <3>2 DEF Account
  <2> QED
    BY <2>1, <2>2
<1>3. ASSUME NEW n \in Nat, n \in Out
      PROVE  n + 1 \in Out
  <2> SUFFICES ASSUME n + 1 <= Len(ms)
               PROVE  <<Account(SubSeq(ms, 1, n + 1), convert), open(n + 1)>> \in R
    OBVIOUS
  <2> DEFINE first == SubSeq(ms, 1, n)
             m == ms[n + 1]
  <2>1. n + 1 \in 1 .. Len(ms) /\ n + 1 # 0 /\ (n + 1 = 1 <=> n = 0) /\ (n + 1) - 1 = n
    BY <1>1
  <2>2. <<Account(first, convert), open(n)>> \in R
    BY <1>1, <1>3
  <2>3. first \in Seq(Ms) /\ m \in Ms /\ SubSeq(ms, 1, n + 1) = Append(first, m)
    BY <1>1, <2>1
  <2>4. m.answers = open(n)
    BY <2>1 DEF Chained
  <2>5. open(n + 1) = m.uses
    BY <2>1
  <2> HIDE DEF first, m, open
  <2>6. /\ Account(Append(first, m), convert) = Account(first, convert) \o convert[m]
        /\ Account(first, convert) \in Seq(Items)
    BY <2>3, AccountAppends
  <2> QED
    BY <2>2, <2>3, <2>4, <2>5, <2>6
<1>4. open(Len(ms)) = {}
  BY DEF Chained
<1> HIDE DEF Out, open
<1>5. Len(ms) \in Out
  BY <1>1, <1>2, <1>3, InductionOverASet
<1>6. SubSeq(ms, 1, Len(ms)) = ms /\ Len(ms) <= Len(ms)
  BY <1>1
<1> QED
  BY <1>4, <1>5, <1>6 DEF Out

(* The repair leaves messages of one role.                                 *)
LEMMA SendKeepsKinds ==
    ASSUME NEW st, Acceptable(st), \A i \in 1 .. Len(st.out) : OneKind(st.out[i]),
           NEW m \in Recordable
    PROVE  \A i \in 1 .. Len(Send(st, m).out) : OneKind(Send(st, m).out[i])
<1> DEFINE Kinds(out) == out \in Seq(Message(CallIds)) /\ \A i \in 1 .. Len(out) : OneKind(out[i])
<1>1. /\ m \in Message(CallIds) /\ m.role \in {"user", "assistant"}
      /\ m.answers \in SUBSET CallIds
      /\ m.role = "assistant" => m.answers = {}
      /\ m.role = "user" => m.uses = {}
  BY RecordableIs
<1>2. Kinds(st.out) /\ st.pending \in SUBSET CallIds
  BY DEF Acceptable
<1>3. ASSUME NEW out, Kinds(out), NEW more \in Message(CallIds), OneKind(more)
      PROVE  Kinds(Append(out, more))
  BY <1>3
<1>4. Kinds(CloseCalls(st).out)
  <2>1. ResultsMessage(st.pending) \in Message(CallIds) /\ OneKind(ResultsMessage(st.pending))
    BY <1>2, MessageTypes DEF OneKind
  <2> HIDE DEF Kinds
  <2>2. Kinds(Append(st.out, ResultsMessage(st.pending)))
    BY <1>2, <1>3, <2>1
  <2> QED
    BY <1>2, <2>2 DEF CloseCalls
<1>5. ASSUME NEW ids \in SUBSET CallIds, m.role = "user"
      PROVE  /\ [m EXCEPT !.answers = ids] \in Message(CallIds)
             /\ OneKind([m EXCEPT !.answers = ids])
  BY <1>1, <1>5 DEF Message, OneKind
<1>6. OneKind(m)
  BY <1>1 DEF OneKind
<1> DEFINE kept == [m EXCEPT !.answers = m.answers \cap st.pending]
           sent == IF kept.answers = {} THEN kept ELSE [kept EXCEPT !.answers = st.pending]
           prev == IF kept.answers = {} THEN CloseCalls(st).out ELSE st.out
<1> HIDE DEF Kinds
<1>7. CASE ~IsSendable(m)
  BY <1>2, <1>7 DEF Send, Kinds
<1>8. CASE IsSendable(m) /\ m.role = "assistant"
  <2>1. Kinds(Append(CloseCalls(st).out, m))
    BY <1>1, <1>3, <1>4, <1>6
  <2>2. Send(st, m).out = Append(CloseCalls(st).out, m)
    BY <1>8 DEF Send, SendAssistant
  <2> QED
    BY <2>1, <2>2 DEF Kinds
<1>9. CASE IsSendable(m) /\ m.role = "user"
  <2>1. Send(st, m).out = IF IsEmpty(sent) THEN prev ELSE Append(prev, sent)
    BY <1>9 DEF Send, SendUser
  <2>2. Kinds(prev)
    BY <1>2, <1>4
  <2>3. sent \in Message(CallIds) /\ OneKind(sent)
    <3>1. [kept EXCEPT !.answers = st.pending] = [m EXCEPT !.answers = st.pending]
      BY <1>1 DEF Message
    <3>2. kept \in Message(CallIds) /\ OneKind(kept)
      BY <1>1, <1>2, <1>5, <1>9
    <3>3. /\ [m EXCEPT !.answers = st.pending] \in Message(CallIds)
          /\ OneKind([m EXCEPT !.answers = st.pending])
      BY <1>2, <1>5, <1>9
    <3> HIDE DEF kept
    <3> QED
      BY <3>1, <3>2, <3>3
  <2> HIDE DEF kept, sent, prev
  <2>4. Kinds(Append(prev, sent))
    BY <1>3, <2>2, <2>3
  <2> QED
    BY <2>1, <2>2, <2>4 DEF Kinds
<1> QED
  BY <1>1, <1>7, <1>8, <1>9 DEF IsSendable

(* What is sent is a chain of messages of one role.                        *)
LEMMA SentIsOneKind ==
    ASSUME NEW ms, Recorded(ms)
    PROVE  LET sent == ForProvider(ms)
           IN  /\ sent \in Seq(Message(CallIds)) /\ Chained(sent)
               /\ \A i \in 1 .. Len(sent) : OneKind(sent[i])
<1> DEFINE st == SendingFirst(ms)
           OneKinds(out) == \A i \in 1 .. Len(out) : OneKind(out[i])
           Fine == {n \in Nat : n <= Len(ms) => Acceptable(st[n]) /\ OneKinds(st[n].out)}
           closed == CloseCalls(st[Len(ms)])
<1>1. Len(ms) \in Nat /\ ms \in Seq(Recordable)
  BY DEF Recorded
<1>2. 0 \in Fine
  <2>1. Acceptable(NothingSent) /\ NothingSent.out = <<>>
    BY DEF Acceptable, NothingSent, NoOrphanResults, ClosedButLast
  <2> QED
    BY <1>1, <2>1, SendingIs
<1>3. ASSUME NEW n \in Nat, n \in Fine
      PROVE  n + 1 \in Fine
  <2> SUFFICES ASSUME n + 1 <= Len(ms)
               PROVE  Acceptable(st[n + 1]) /\ OneKinds(st[n + 1].out)
    OBVIOUS
  <2>1. n + 1 \in 1 .. Len(ms) /\ (n + 1) - 1 = n
    BY <1>1
  <2>2. Acceptable(st[n]) /\ OneKinds(st[n].out)
    BY <1>1, <1>3
  <2>3. ms[n + 1] \in Recordable
    BY <1>1, <2>1
  <2>4. st[n + 1] = Send(st[n], ms[n + 1])
    BY <1>1, <2>1, SendingIs
  <2> QED
    BY <2>2, <2>3, <2>4, SendIsAcceptable, SendKeepsKinds
<1> HIDE DEF Fine
<1>4. Len(ms) \in Fine
  BY <1>1, <1>2, <1>3, InductionOverASet
<1>5. Acceptable(st[Len(ms)]) /\ OneKinds(st[Len(ms)].out)
  <2>1. Len(ms) <= Len(ms)
    BY <1>1
  <2> QED
    BY <1>4, <2>1 DEF Fine
<1>6. Acceptable(closed) /\ AllCallsAnswered(closed.out)
  BY <1>5, ClosingIsAcceptable
<1>7. closed.out \in Seq(Message(CallIds)) /\ NoOrphanResults(closed.out)
  BY <1>6 DEF Acceptable
<1>8. Chained(closed.out)
  <2>1. Len(closed.out) \in Nat
    BY <1>7
  <2> HIDE DEF closed
  <2> QED
    BY <1>6, <1>7, <2>1, AnsweredIsChained
<1>9. OneKinds(closed.out)
  <2> DEFINE last == st[Len(ms)]
             m == ResultsMessage(last.pending)
  <2>1. last.out \in Seq(Message(CallIds)) /\ last.pending \in SUBSET CallIds
    BY <1>5 DEF Acceptable
  <2>2. m \in Message(CallIds) /\ OneKind(m)
    BY <2>1, MessageTypes DEF OneKind
  <2>3. closed.out = last.out \/ closed.out = Append(last.out, m)
    BY DEF CloseCalls
  <2> HIDE DEF last, m, closed
  <2>4. OneKinds(Append(last.out, m))
    BY <1>5, <2>1, <2>2 DEF last
  <2> QED
    BY <1>5, <2>3, <2>4 DEF last
<1>10. ForProvider(ms) = closed.out
  BY DEF ForProvider
<1> HIDE DEF closed
<1> QED
  BY <1>7, <1>8, <1>9, <1>10

(* Before the first message.                                               *)
LEMMA NothingOnTheWire == << <<>>, {} >> \in ResponsesSoFar /\ << <<>>, {} >> \in ChatSoFar
<1>1. PICK items \in Seq(Items) : items = <<>>
  <2>1. <<>> \in Seq(Items)
    OBVIOUS
  <2> QED
    BY <2>1
<1>2. PICK none \in SUBSET CallIds : none = {}
  OBVIOUS
<1>3. Len(items) = 0
  BY <1>1
<1>4. <<items, none>> \in ResponsesSoFar
  <2>1. OpenAt(items, 1) = {}
    <3>1. \A id : id \in OpenAt(items, 1) => \E j \in 1 .. (1 - 1) : TRUE
      BY DEF OpenAt
    <3> QED
      BY <3>1
  <2>2. Len(items) + 1 = 1 /\ 1 .. Len(items) = {}
    BY <1>3
  <2> QED
    BY <1>2, <2>1, <2>2 DEF ResponsesSoFar
<1>5. IsChatSoFar(items, none)
  <2>1. RefersTo(items, 0, 0)
    BY DEF RefersTo
  <2>2. 1 .. Len(items) = {} /\ 0 \in 0 .. Len(items)
    BY <1>3
  <2> QED
    BY <1>2, <1>3, <2>1, <2>2 DEF IsChatSoFar
<1> QED
  BY <1>1, <1>2, <1>4, <1>5, ChatSoFarIs

(* What both dialects make of the repaired history keeps each result with   *)
(* its call: in responses after the call, before it is made again; in chat  *)
(* right after the message that calls, of the histories in which results    *)
(* come alone.                                                             *)
THEOREM CallsGoOutInPairs == Spec => []CallsArePairedOnTheWire
<1>1. ASSUME Recorded(hist)
      PROVE  CallsArePairedOnTheWire
  <2> DEFINE sent == ForProvider(hist)
             Ones == {m \in Message(CallIds) : OneKind(m)}
             Alone == {m \in Ones : ~CarriesMore(m)}
  <2>1. /\ sent \in Seq(Message(CallIds)) /\ Chained(sent)
        /\ \A i \in 1 .. Len(sent) : OneKind(sent[i])
    BY <1>1, SentIsOneKind
  <2> HIDE DEF sent
  <2>2. ResponsesArePaired(ResponsesItems(sent))
    <3> DEFINE convert == [m \in Ones |-> ConvertResponses(m)]
               items == Account(sent, convert)
    <3>1. sent \in Seq(Ones)
      BY <2>1
    <3>2. convert \in [Ones -> Seq(Items)]
      BY ConvertTypes
    <3>3. << <<>>, {} >> \in ResponsesSoFar
      BY NothingOnTheWire
    <3>4. \A m \in Ones : \A is \in Seq(Items) :
            <<is, m.answers>> \in ResponsesSoFar => <<is \o convert[m], m.uses>> \in ResponsesSoFar
      BY ResponsesOfAMessage
    <3>5. ResponsesItems(sent) = items
      <4>1. /\ DOMAIN sent = 1 .. Len(sent)
            /\ \A i \in 1 .. Len(sent) : convert[sent[i]] = ConvertResponses(sent[i])
        BY <3>1
      <4>2. [i \in DOMAIN sent |-> ConvertResponses(sent[i])]
              = [i \in 1 .. Len(sent) |-> convert[sent[i]]]
        BY <4>1
      <4> QED
        BY <4>2 DEF ResponsesItems, Account
    <3>6. <<items, {}>> \in ResponsesSoFar
      <4> HIDE DEF convert
      <4>1. Ones \in SUBSET Message(CallIds)
        OBVIOUS
      <4> HIDE DEF Ones
      <4> QED
        BY <2>1, <3>1, <3>2, <3>3, <3>4, <4>1, MessageByMessage
    <3> HIDE DEF items
    <3>7. ResponsesArePaired(items)
      <4>1. items \in Seq(Items)
        BY <3>6 DEF ResponsesSoFar
      <4> QED
        BY <3>6, <4>1 DEF ResponsesSoFar, ResponsesArePaired
    <3> QED
      BY <3>5, <3>7
  <2>3. ASSUME \A i \in DOMAIN sent : ~CarriesMore(sent[i])
        PROVE  ChatIsPaired(ChatItems(sent))
    <3> DEFINE convert == [m \in Alone |-> ConvertChat(m)]
               items == Account(sent, convert)
    <3>1. sent \in Seq(Alone)
      BY <2>1, <2>3
    <3>2. convert \in [Alone -> Seq(Items)]
      BY ConvertTypes
    <3>3. << <<>>, {} >> \in ChatSoFar
      BY NothingOnTheWire
    <3>4. \A m \in Alone : \A is \in Seq(Items) :
            <<is, m.answers>> \in ChatSoFar => <<is \o convert[m], m.uses>> \in ChatSoFar
      BY ChatOfAMessage
    <3>5. ChatItems(sent) = items
      <4>1. /\ DOMAIN sent = 1 .. Len(sent)
            /\ \A i \in 1 .. Len(sent) : convert[sent[i]] = ConvertChat(sent[i])
        BY <3>1
      <4>2. [i \in DOMAIN sent |-> ConvertChat(sent[i])]
              = [i \in 1 .. Len(sent) |-> convert[sent[i]]]
        BY <4>1
      <4> QED
        BY <4>2 DEF ChatItems, Account
    <3>6. <<items, {}>> \in ChatSoFar
      <4> HIDE DEF convert
      <4>1. Alone \in SUBSET Message(CallIds)
        OBVIOUS
      <4> HIDE DEF Alone
      <4> QED
        BY <2>1, <3>1, <3>2, <3>3, <3>4, <4>1, MessageByMessage
    <3> HIDE DEF items
    <3>7. ChatIsPaired(items)
      <4>1. items \in Seq(Items) /\ IsChatSoFar(items, {})
        BY <3>6, ChatSoFarIs
      <4>2. ASSUME NEW k \in 1 .. Len(items), items[k].kind = "tool"
            PROVE  Referred(items, k) # 0 /\ items[k].of \subseteq items[Referred(items, k)].calls
        <5>1. PICK j \in 1 .. k : RefersTo(items, k, j) /\ items[k].of \subseteq items[j].calls
          BY <4>1, <4>2 DEF IsChatSoFar
        <5>2. Referred(items, k) = j /\ j # 0
          BY <5>1, ReferredIs
        <5> QED
          BY <5>1, <5>2
      <4>3. ASSUME NEW j \in 1 .. Len(items), NEW id \in items[j].calls
            PROVE  \E k \in 1 .. Len(items) : items[k].of = {id} /\ Referred(items, k) = j
        <5>1. PICK k \in 1 .. Len(items) : items[k].of = {id} /\ RefersTo(items, k, j)
          BY <4>1, <4>3 DEF IsChatSoFar
        <5> QED
          BY <5>1, ReferredIs
      <4>4. DOMAIN items = 1 .. Len(items)
        BY <4>1
      <4> QED
        BY <4>2, <4>3, <4>4 DEF ChatIsPaired
    <3> QED
      BY <3>5, <3>7
  <2> QED
    BY <2>2, <2>3 DEF CallsArePairedOnTheWire, sent
<1> QED
  BY <1>1, HistoryIsRecorded, PTL

=============================================================================
