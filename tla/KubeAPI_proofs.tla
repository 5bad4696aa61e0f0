--------------------------- MODULE KubeAPI_proofs ---------------------------
(* What the proofs about the controllers need of the API server and of the  *)
(* watch: how the current object a, the watch's stream s and the object t   *)
(* of the informer's store belong together, whatever kind of object it is.  *)
EXTENDS KubeAPI, SequenceTheorems, TLAPS

(* The objects of one resource that may still be read: the current one, the
   informer's, and those on their way to it. *)
Seen(a, s, t) == {a, t} \cup {s[i] : i \in 1..Len(s)}

(* A step of the API server and the informer: a write (or a write that changes
   nothing), the receipt of an event, or a restart. *)
KubeStep(a, s, t, a2, s2, t2) ==
  \/ (a2 = a \/ a2.rv = a.rv + 1) /\ s2 = Published(s, a, a2) /\ t2 = t
  \/ s # <<>> /\ t2 = Head(s) /\ s2 = Tail(s) /\ a2 = a
  \/ a2 = a /\ t2 = a /\ s2 = <<>>

(* The informer lags behind the API server, and gets there in order. *)
Ordered(a, s, t) ==
  /\ s = <<>> => t = a
  /\ s # <<>> => s[Len(s)] = a
  /\ \A i \in 1..Len(s) : t.rv < s[i].rv
  /\ \A i, j \in 1..Len(s) : i < j => s[i].rv < s[j].rv
-----------------------------------------------------------------------------
(* An item added to the work queue leaves the key in one of its three states. *)
LEMMA QueueType == ASSUME NEW q \in QueueStates PROVE AddAfter(q) \in QueueStates
BY DEF AddAfter, QueueStates

(* A new version is published after the ones still on their way. *)
LEMMA PublishedType ==
  ASSUME NEW V, NEW s \in Seq(V), NEW a \in V, NEW a2 \in V
  PROVE  Published(s, a, a2) \in Seq(V)
BY DEF Published

(* A step of the API server and the informer keeps the types of stream and
   store. *)
LEMMA KubeStepType ==
  ASSUME NEW V, NEW a \in V, NEW s \in Seq(V), NEW t \in V, NEW a2 \in V, NEW s2, NEW t2,
         KubeStep(a, s, t, a2, s2, t2)
  PROVE  s2 \in Seq(V) /\ t2 \in V
<1>1. CASE s2 = Published(s, a, a2) /\ t2 = t
  BY <1>1, PublishedType
<1>2. CASE s # <<>> /\ t2 = Head(s) /\ s2 = Tail(s)
  BY <1>2
<1>3. CASE t2 = a /\ s2 = <<>>
  BY <1>3
<1> QED BY <1>1, <1>2, <1>3 DEF KubeStep

(* What can be read after a step could be read before, or is the current
   object. *)
LEMMA SeenStep ==
  ASSUME NEW V, NEW a \in V, NEW s \in Seq(V), NEW t \in V, NEW a2 \in V, NEW s2, NEW t2,
         KubeStep(a, s, t, a2, s2, t2)
  PROVE  Seen(a2, s2, t2) \subseteq Seen(a, s, t) \cup {a2}
<1>1. CASE s2 = Published(s, a, a2) /\ t2 = t
  <2>1. CASE s2 = s
    BY <1>1, <2>1 DEF Seen
  <2>2. CASE s2 = Append(s, a2)
    <3>1. Len(s2) = Len(s) + 1 /\ s2[Len(s) + 1] = a2 /\ Len(s) \in Nat
          /\ \A i \in 1..Len(s) : s2[i] = s[i]
      BY <2>2
    <3>2. ASSUME NEW i \in 1..Len(s2) PROVE s2[i] \in Seen(a, s, t) \cup {a2}
      <4>1. CASE i \in 1..Len(s)
        BY <3>1, <4>1 DEF Seen
      <4>2. CASE i = Len(s) + 1
        BY <3>1, <4>2
      <4> QED BY <3>1, <4>1, <4>2
    <3> QED BY <1>1, <3>2 DEF Seen
  <2> QED BY <1>1, <2>1, <2>2 DEF Published
<1>2. CASE s # <<>> /\ t2 = Head(s) /\ s2 = Tail(s) /\ a2 = a
  <2>1. Len(s) \in Nat \ {0} /\ Len(s2) = Len(s) - 1 /\ \A i \in 1..Len(s2) : s2[i] = s[i + 1]
    BY <1>2, EmptySeq
  <2>2. t2 = s[1]
    BY <1>2
  <2>3. \A i \in 1..Len(s2) : i + 1 \in 1..Len(s)
    BY <2>1
  <2>4. 1 \in 1..Len(s)
    BY <2>1
  <2> QED BY <1>2, <2>1, <2>2, <2>3, <2>4 DEF Seen
<1>3. CASE a2 = a /\ t2 = a /\ s2 = <<>>
  BY <1>3 DEF Seen
<1> QED BY <1>1, <1>2, <1>3 DEF KubeStep

(* The objects that can be read have the resource's type. *)
LEMMA SeenType ==
  ASSUME NEW V, NEW a \in V, NEW s \in Seq(V), NEW t \in V
  PROVE  Seen(a, s, t) \subseteq V
BY DEF Seen

(* Nothing that can be read is newer than the current object, and what has its
   resourceVersion is the current object. *)
LEMMA OrderedSeen ==
  ASSUME NEW V, \A v \in V : v.rv \in Nat,
         NEW a \in V, NEW s \in Seq(V), NEW t \in V, Ordered(a, s, t)
  PROVE  /\ \A x \in Seen(a, s, t) : x.rv <= a.rv /\ (x.rv = a.rv => x = a) /\ t.rv <= x.rv
         /\ t.rv = a.rv => s = <<>>
<1>0. Len(s) \in Nat /\ (s # <<>> => Len(s) \in 1..Len(s)) /\ \A i \in 1..Len(s) : s[i] \in V
  BY EmptySeq
<1>1. CASE s = <<>>
  BY <1>1 DEF Seen, Ordered
<1>2. CASE s # <<>>
  <2>1. s[Len(s)] = a /\ t.rv < a.rv
    BY <1>0, <1>2 DEF Ordered
  <2>2. ASSUME NEW i \in 1..Len(s)
        PROVE  s[i].rv <= a.rv /\ (s[i].rv = a.rv => s[i] = a) /\ t.rv <= s[i].rv
    <3>1. i = Len(s) \/ i < Len(s)
      BY <1>0
    <3>2. i < Len(s) => s[i].rv < a.rv
      BY <1>0, <1>2, <2>1 DEF Ordered
    <3> QED BY <1>0, <2>1, <3>1, <3>2 DEF Ordered
  <2> QED BY <2>1, <2>2 DEF Seen
<1> QED BY <1>1, <1>2

(* Writes, events and restarts keep the informer in order. *)
LEMMA OrderedStep ==
  ASSUME NEW V, \A v \in V : v.rv \in Nat,
         NEW a \in V, NEW s \in Seq(V), NEW t \in V, NEW a2 \in V, NEW s2, NEW t2,
         Ordered(a, s, t), KubeStep(a, s, t, a2, s2, t2)
  PROVE  Ordered(a2, s2, t2)
<1>0. Len(s) \in Nat /\ \A i \in 1..Len(s) : s[i] \in V
  OBVIOUS
<1>1. CASE (a2 = a \/ a2.rv = a.rv + 1) /\ s2 = Published(s, a, a2) /\ t2 = t
  <2>1. CASE a2 = a
    BY <1>1, <2>1 DEF Published
  <2>2. CASE a2 # a
    <3>1. s2 = Append(s, a2) /\ a2.rv = a.rv + 1
      BY <1>1, <2>2 DEF Published
    <3>2. Len(s2) = Len(s) + 1 /\ s2[Len(s) + 1] = a2 /\ \A i \in 1..Len(s) : s2[i] = s[i]
      BY <3>1
    <3>3. s2 # <<>>
      BY <3>1
    <3>4. t.rv < a2.rv /\ \A i \in 1..Len(s) : s[i].rv < a2.rv
      <4>1. \A x \in Seen(a, s, t) : x.rv <= a.rv /\ x \in V
        BY OrderedSeen, SeenType
      <4>2. t \in Seen(a, s, t) /\ \A i \in 1..Len(s) : s[i] \in Seen(a, s, t)
        BY DEF Seen
      <4> QED BY <3>1, <4>1, <4>2
    <3>5. \A i \in 1..Len(s2) : i \in 1..Len(s) \/ i = Len(s) + 1
      BY <1>0, <3>2
    <3>6. \A i \in 1..Len(s2) : t2.rv < s2[i].rv
      BY <1>1, <3>2, <3>4, <3>5 DEF Ordered
    <3>7. \A i, j \in 1..Len(s2) : i < j => s2[i].rv < s2[j].rv
      BY <1>0, <3>2, <3>4, <3>5 DEF Ordered
    <3> QED BY <3>2, <3>3, <3>6, <3>7 DEF Ordered
  <2> QED BY <2>1, <2>2
<1>2. CASE s # <<>> /\ t2 = Head(s) /\ s2 = Tail(s) /\ a2 = a
  <2>1. Len(s) \in Nat \ {0} /\ Len(s2) = Len(s) - 1 /\ \A i \in 1..Len(s2) : s2[i] = s[i + 1]
    BY <1>2, EmptySeq
  <2>2. t2 = s[1] /\ s[Len(s)] = a
    BY <1>2 DEF Ordered
  <2>3. \A i \in 1..Len(s2) : i + 1 \in 1..Len(s) /\ 1 \in 1..Len(s)
    BY <2>1
  <2>4. \A i \in 1..Len(s2) : t2.rv < s2[i].rv
    BY <2>1, <2>2, <2>3 DEF Ordered
  <2>5. \A i, j \in 1..Len(s2) : i < j => s2[i].rv < s2[j].rv
    <3> SUFFICES ASSUME NEW i \in 1..Len(s2), NEW j \in 1..Len(s2), i < j
                 PROVE  s2[i].rv < s2[j].rv
      OBVIOUS
    <3>1. i + 1 \in 1..Len(s) /\ j + 1 \in 1..Len(s) /\ i + 1 < j + 1
      BY <2>3
    <3> QED BY <2>1, <3>1 DEF Ordered
  <2>6. s2 \in Seq(V)
    BY <1>2
  <2>7. s2 = <<>> => t2 = a2
    <3>1. s2 = <<>> => Len(s2) = 0
      OBVIOUS
    <3>2. s2 = <<>> => Len(s) = 1
      BY <2>1, <3>1
    <3> QED BY <1>2, <2>2, <3>2
  <2>8. s2 # <<>> => s2[Len(s2)] = a2
    <3>1. s2 # <<>> => Len(s2) \in 1..Len(s2)
      BY <2>6, EmptySeq
    <3> QED BY <1>2, <2>1, <2>2, <3>1
  <2> QED BY <2>4, <2>5, <2>7, <2>8 DEF Ordered
<1>3. CASE a2 = a /\ t2 = a /\ s2 = <<>>
  BY <1>3 DEF Ordered
<1> QED BY <1>1, <1>2, <1>3 DEF KubeStep
=============================================================================
