------------------------ MODULE WaitOnAddressProofs ------------------------
(***************************************************************************)
(* Theorems about WaitOnAddress, for any threads, addresses, hash function *)
(* and values.                                                             *)
(***************************************************************************)
EXTENDS WaitOnAddress, TLAPS

Ptr == Threads \cup {Nil}

(* What RingOfWaiters says of one bucket. *)
Ring(b) ==
    /\ waitBlocks[b] \in Linked(b) \/ (waitBlocks[b] = Nil /\ Linked(b) = {})
    /\ \A t \in Linked(b) : /\ next[t] \in Linked(b) /\ previous[next[t]] = t
                            /\ previous[t] \in Linked(b) /\ next[previous[t]] = t
    /\ \A part \in SUBSET Linked(b) :
          part # {} /\ (\A t \in part : next[t] \in part) => part = Linked(b)

(* A thread in a call has an address. *)
InCall == \A t \in Threads : pc[t] # "idle" => arg[t] \in Operations \X Addresses

(* A block that was woken carries the mark that it is off the list. *)
WokenIsMarked == \A t \in Threads : event[t] = "set" => previous[t] = Nil

(* The invariant. *)
Inv == RingOfWaiters /\ WalkStaysOnList /\ InCall /\ WokenIsMarked

-----------------------------------------------------------------------------
(* The list operations keep the ring.                                       *)

(* A thread in a call has a bucket, and what is linked is in one bucket. *)
LEMMA BucketOf ==
  ASSUME Inv
  PROVE  /\ \A t \in Threads : pc[t] # "idle" => Address(t) \in Addresses /\ Bucket(t) \in Buckets
         /\ \A b \in Buckets : \A t \in Linked(b) :
               /\ t \in Threads /\ event[t] = "clear" /\ Bucket(t) = b
               /\ pc[t] \in {"waiting", "timedOut"}
         /\ \A t \in Threads : event[t] = "clear" => t \in Linked(Bucket(t)) /\ Bucket(t) \in Buckets
<1>1. ASSUME NEW t \in Threads, pc[t] # "idle"
      PROVE  Address(t) \in Addresses /\ Bucket(t) \in Buckets
  BY <1>1 DEF Inv, InCall, Address, Bucket, Buckets
<1>2. \A t \in Threads : event[t] # "none" <=> pc[t] \in {"waiting", "timedOut"}
  BY DEF Inv, RingOfWaiters, TypeOK
<1> QED
  BY <1>1, <1>2 DEF Linked

(* The ring does not change with what it does not depend on. *)
LEMMA RingFrame ==
  ASSUME NEW b \in Buckets, Ring(b), Linked(b)' = Linked(b), waitBlocks'[b] = waitBlocks[b],
         \A t \in Linked(b) : next'[t] = next[t] /\ previous'[t] = previous[t]
  PROVE  Ring(b)'
<1>1. \A t \in Linked(b) : /\ next'[t] \in Linked(b) /\ previous'[next'[t]] = t
                           /\ previous'[t] \in Linked(b) /\ next'[previous'[t]] = t
  BY DEF Ring
<1>2. \A part \in SUBSET Linked(b) :
          part # {} /\ (\A t \in part : next'[t] \in part) => part = Linked(b)
  BY DEF Ring
<1>3. waitBlocks'[b] \in Linked(b) \/ (waitBlocks'[b] = Nil /\ Linked(b) = {})
  BY DEF Ring
<1> QED
  BY <1>1, <1>2, <1>3 DEF Ring

(* KexRtlpRemoveWoaWaitBlock takes a block out of the ring. *)
LEMMA RingWithout ==
  ASSUME TypeOK, NEW b \in Buckets, Ring(b), NEW w \in Linked(b),
         Linked(b)' = Linked(b) \ {w}, waitBlocks'[b] = HeadWithout(b, w),
         \A t \in Linked(b) \ {w} : /\ next'[t] = NextWithout(w)[t]
                                    /\ previous'[t] = PreviousWithout(w)[t]
  PROVE  Ring(b)'
<1>0. /\ next \in [Threads -> Ptr] /\ previous \in [Threads -> Ptr]
      /\ Linked(b) \subseteq Threads
  BY DEF TypeOK, Ptr, Linked
<1>p. PICK p \in Linked(b), n \in Linked(b) : p = previous[w] /\ n = next[w]
  BY DEF Ring
<1>1. p \in Threads /\ n \in Threads /\ w \in Threads /\ ~Unlinked(w) /\ next[p] = w /\ previous[n] = w
  BY <1>0, <1>p, NilIsNoThread DEF Unlinked, Ring
<1>2. CASE n = w
  <2>1. Linked(b) = {w}
    <3>1. {w} \in SUBSET Linked(b) /\ {w} # {} /\ \A t \in {w} : next[t] \in {w}
      BY <1>p, <1>2
    <3> QED
      BY <3>1 DEF Ring
  <2>2. waitBlocks'[b] = Nil
    BY <1>p, <1>1, <1>2 DEF HeadWithout, Alone
  <2> QED
    BY <2>1, <2>2 DEF Ring
<1>3. CASE n # w
  <2>0. p # w /\ ~Alone(w)
    BY <1>p, <1>1, <1>3 DEF Alone
  <2>1. \A t \in Linked(b) \ {w} : /\ next'[t] = IF t = p THEN n ELSE next[t]
                                   /\ previous'[t] = IF t = n THEN p ELSE previous[t]
    BY <1>0, <1>p, <1>1, <2>0 DEF NextWithout, PreviousWithout
  <2>2. ASSUME NEW t \in Linked(b) \ {w}
        PROVE  /\ next'[t] \in Linked(b) \ {w} /\ previous'[next'[t]] = t
               /\ previous'[t] \in Linked(b) \ {w} /\ next'[previous'[t]] = t
    <3>1. /\ next[t] \in Linked(b) /\ previous[next[t]] = t
          /\ previous[t] \in Linked(b) /\ next[previous[t]] = t
      BY DEF Ring
    <3>2. /\ t # p => next[t] # w /\ next[t] # n
          /\ t # n => previous[t] # w /\ previous[t] # p
      BY <1>p, <1>1, <3>1
    <3> QED
      BY <1>p, <1>3, <2>0, <2>1, <3>1, <3>2
  <2>3. ASSUME NEW part \in SUBSET (Linked(b) \ {w}), part # {}, \A t \in part : next'[t] \in part
        PROVE  part = Linked(b) \ {w}
    <3>1. CASE p \in part
      <4>1. n \in part
        BY <2>1, <2>3, <3>1
      <4>2. \A t \in part \cup {w} : next[t] \in part \cup {w}
        BY <1>p, <1>1, <2>1, <2>3, <4>1
      <4>3. part \cup {w} \in SUBSET Linked(b) /\ part \cup {w} # {}
        OBVIOUS
      <4>4. part \cup {w} = Linked(b)
        BY <4>2, <4>3 DEF Ring
      <4> QED
        BY <4>4
    <3>2. CASE p \notin part
      <4>1. \A t \in part : next[t] \in part
        BY <2>1, <2>3, <3>2
      <4>2. part \in SUBSET Linked(b)
        OBVIOUS
      <4>3. part = Linked(b)
        BY <2>3, <4>1, <4>2 DEF Ring
      <4> QED
        BY <4>3
    <3> QED
      BY <3>1, <3>2
  <2>4. waitBlocks'[b] \in Linked(b) \ {w}
    BY <1>p, <1>1, <1>3, <2>0 DEF HeadWithout, Ring
  <2> QED
    BY <2>2, <2>3, <2>4 DEF Ring
<1> QED
  BY <1>2, <1>3

(* A block is added to the end of the list. *)
LEMMA RingWith ==
  ASSUME TypeOK, NEW t \in Threads, NEW b \in Buckets, b = Bucket(t), Ring(b), t \notin Linked(b),
         Linked(b)' = Linked(b) \cup {t}, AddToList(t)
  PROVE  Ring(b)'
<1>0. /\ next \in [Threads -> Ptr] /\ previous \in [Threads -> Ptr]
      /\ waitBlocks \in [Buckets -> Ptr] /\ Linked(b) \subseteq Threads
  BY DEF TypeOK, Ptr, Linked
<1>1. CASE waitBlocks[b] = Nil
  <2>1. Linked(b) = {}
    BY <1>0, <1>1, NilIsNoThread DEF Ring
  <2>2. /\ waitBlocks'[b] = t /\ previous'[t] = t /\ next'[t] = t /\ Linked(b)' = {t}
    BY <1>0, <1>1, <2>1 DEF AddToList
  <2> QED
    BY <2>2 DEF Ring
<1>2. CASE waitBlocks[b] # Nil
  <2>h. PICK h \in Linked(b), p \in Linked(b) : h = waitBlocks[b] /\ p = previous[h]
    BY <1>2 DEF Ring
  <2>1. /\ waitBlocks' = waitBlocks
        /\ previous' = [previous EXCEPT ![t] = p, ![h] = t]
        /\ next' = [next EXCEPT ![t] = h, ![p] = t]
    BY <1>2, <2>h DEF AddToList
  <2>2. /\ next'[t] = h /\ previous'[t] = p
        /\ \A u \in Linked(b) : /\ next'[u] = IF u = p THEN t ELSE next[u]
                                /\ previous'[u] = IF u = h THEN t ELSE previous[u]
    BY <1>0, <2>h, <2>1
  <2>3. ASSUME NEW u \in Linked(b)
        PROVE  /\ next'[u] \in Linked(b) \cup {t} /\ previous'[next'[u]] = u
               /\ previous'[u] \in Linked(b) \cup {t} /\ next'[previous'[u]] = u
    <3>1. /\ next[u] \in Linked(b) /\ previous[next[u]] = u
          /\ previous[u] \in Linked(b) /\ next[previous[u]] = u
          /\ next[p] = h
      BY <2>h DEF Ring
    <3> QED
      BY <2>h, <2>2, <3>1
  <2>4. ASSUME NEW part \in SUBSET (Linked(b) \cup {t}), part # {}, \A u \in part : next'[u] \in part
        PROVE  part = Linked(b) \cup {t}
    <3>1. t \in part => h \in part
      BY <2>2, <2>4
    <3>2. p \in part => t \in part
      BY <2>2, <2>4
    <3>3. next[p] = h
      BY <2>h DEF Ring
    <3>4. part \ {t} \in SUBSET Linked(b) /\ part \ {t} # {}
      BY <2>4, <3>1
    <3>5. \A u \in part \ {t} : next[u] \in part \ {t}
      <4>1. \A u \in Linked(b) : next[u] # t
        BY DEF Ring
      <4> QED
        BY <2>2, <2>4, <3>1, <3>2, <3>3, <4>1
    <3>6. part \ {t} = Linked(b)
      BY <3>4, <3>5 DEF Ring
    <3> QED
      BY <3>2, <3>6
  <2>5. waitBlocks'[b] \in Linked(b)
    BY <2>h, <2>1
  <2> QED
    BY <2>2, <2>3, <2>4, <2>5 DEF Ring
<1> QED
  BY <1>1, <1>2

-----------------------------------------------------------------------------
(* The invariant, one action at a time.                                     *)

LEMMA InvParts ==
  ASSUME Inv
  PROVE  /\ TypeOK /\ WalkStaysOnList /\ InCall /\ WokenIsMarked
         /\ \A b \in Buckets : Ring(b)
  BY DEF Inv, RingOfWaiters, Ring

(* The parts of the invariant make it up. *)
LEMMA PartsInv ==
  ASSUME TypeOK', WalkStaysOnList', InCall', WokenIsMarked', \A b \in Buckets : Ring(b)'
  PROVE  Inv'
  BY DEF Inv, RingOfWaiters, Ring

(* The lists are empty at the beginning. *)
LEMMA InitInv == Init => Inv
<1> SUFFICES ASSUME Init PROVE Inv
  OBVIOUS
<1>1. TypeOK
  BY DEF Init, TypeOK
<1>2. \A b : Linked(b) = {}
  BY DEF Init, Linked
<1>3. \A b \in Buckets : Ring(b)
  BY <1>2 DEF Init, Ring
<1>4. WalkStaysOnList /\ InCall /\ WokenIsMarked
  BY DEF Init, WalkStaysOnList, InCall, WokenIsMarked
<1> QED
  BY <1>1, <1>3, <1>4 DEF Inv, RingOfWaiters, Ring

(* A step that leaves the blocks and the events alone leaves the rings. *)
LEMMA QuietLinked ==
  ASSUME Inv, UNCHANGED <<links, event>>,
         \A u \in Threads : event[u] = "clear" => arg'[u] = arg[u]
  PROVE  \A b \in Buckets : Linked(b)' = Linked(b) /\ Ring(b)'
<1> SUFFICES ASSUME NEW b \in Buckets PROVE Linked(b)' = Linked(b) /\ Ring(b)'
  OBVIOUS
<1>1. Linked(b)' = Linked(b)
  BY DEF Linked, Bucket, Address
<1>2. Ring(b)
  BY InvParts
<1>3. /\ waitBlocks'[b] = waitBlocks[b]
      /\ \A t \in Linked(b) : next'[t] = next[t] /\ previous'[t] = previous[t]
  BY DEF links
<1> QED
  BY <1>1, <1>2, <1>3, RingFrame

(* A thread outside the walk takes a step that no walker sees. *)
LEMMA WalkersKept ==
  ASSUME Inv, NEW t \in Threads, pc'[t] # "walk",
         \A u \in Threads \ {t} : pc'[u] = pc[u] /\ arg'[u] = arg[u] /\ cur'[u] = cur[u],
         \A u \in Threads \ {t} : \A b \in Buckets : pc[u] = "walk" /\ lock[b] = u /\ b = Bucket(u) =>
             lock'[b] = lock[b] /\ (cur[u] \in Linked(b) => cur[u] \in Linked(b)')
  PROVE  WalkStaysOnList'
<1> SUFFICES ASSUME NEW u \in Threads, pc'[u] = "walk"
             PROVE  (lock[Bucket(u)] = u /\ cur[u] \in Linked(Bucket(u)))'
  BY DEF WalkStaysOnList
<1>1. u # t /\ pc[u] = "walk" /\ cur'[u] = cur[u] /\ arg'[u] = arg[u]
  OBVIOUS
<1>2. PICK b \in Buckets : b = Bucket(u)
  BY <1>1, BucketOf
<1>3. Bucket(u)' = b
  BY <1>1, <1>2 DEF Bucket, Address
<1>4. lock[b] = u /\ cur[u] \in Linked(b)
  BY <1>1, <1>2 DEF Inv, WalkStaysOnList
<1>5. lock'[b] = u /\ cur'[u] \in Linked(b)'
  BY <1>1, <1>2, <1>4
<1> QED
  BY <1>3, <1>5

(* The steps that change neither blocks nor events. *)
LEMMA CallInv ==
  ASSUME Inv, NEW t \in Threads, Call(t)
  PROVE  Inv'
<1>1. TypeOK /\ InCall /\ WokenIsMarked
  BY InvParts
<1>2. pc[t] = "idle" /\ event[t] = "none" /\ UNCHANGED <<lock, links, event, cur>>
  BY <1>1 DEF Call, RtlWaitOnAddress, StoreAndWake, TypeOK
<1>3. PICK c \in Calls[t] : arg' = [arg EXCEPT ![t] = c]
  BY DEF Call, RtlWaitOnAddress, StoreAndWake
<1>4. c \in Operations \X Addresses
  BY CallsAssumption
<1>5. PICK l \in {"enter", "wake"} : pc' = [pc EXCEPT ![t] = l]
  BY DEF Call, RtlWaitOnAddress, StoreAndWake, Goto
<1>6. mem' \in [Addresses -> Values] /\ compare' \in [Threads -> Values \cup {Nil}]
  <2>1. mem \in [Addresses -> Values] /\ compare \in [Threads -> Values \cup {Nil}]
    BY <1>1 DEF TypeOK
  <2> QED
    BY <2>1 DEF Call, RtlWaitOnAddress, StoreAndWake
<1>7. TypeOK'
  BY <1>1, <1>2, <1>3, <1>4, <1>5, <1>6 DEF TypeOK, links
<1>8. \A u \in Threads \ {t} : pc'[u] = pc[u] /\ arg'[u] = arg[u] /\ cur'[u] = cur[u]
  BY <1>1, <1>2, <1>3, <1>5 DEF TypeOK
<1>9. \A u \in Threads : event[u] = "clear" => arg'[u] = arg[u]
  BY <1>2, <1>8
<1>10. \A b \in Buckets : Linked(b)' = Linked(b) /\ Ring(b)'
  BY <1>2, <1>9, QuietLinked
<1>11. WalkStaysOnList'
  <2>1. pc'[t] # "walk"
    BY <1>1, <1>5 DEF TypeOK
  <2> QED
    BY <1>2, <1>8, <1>10, <2>1, WalkersKept
<1>12. InCall' /\ WokenIsMarked'
  BY <1>1, <1>2, <1>3, <1>4, <1>5 DEF InCall, WokenIsMarked, TypeOK, links
<1> QED
  BY <1>7, <1>10, <1>11, <1>12, PartsInv

(* Return leaves a thread without a call. *)
LEMMA ReturnFacts ==
  ASSUME Inv, NEW t \in Threads, Return(t)
  PROVE  /\ pc' = [pc EXCEPT ![t] = "idle"] /\ pc'[t] = "idle"
         /\ arg' \in [Threads -> (Operations \X Addresses) \cup {NoCall}]
         /\ compare' \in [Threads -> Values \cup {Nil}]
         /\ cur' \in [Threads -> Threads \cup {Nil}]
         /\ pc' \in [Threads -> {"idle", "enter", "waiting", "timedOut", "wake", "walk"}]
         /\ \A u \in Threads \ {t} : pc'[u] = pc[u] /\ arg'[u] = arg[u] /\ cur'[u] = cur[u]
         /\ InCall'
<1>1. TypeOK /\ InCall
  BY InvParts
<1>2. /\ pc' = [pc EXCEPT ![t] = "idle"] /\ pc'[t] = "idle"
      /\ arg' \in [Threads -> (Operations \X Addresses) \cup {NoCall}]
      /\ compare' \in [Threads -> Values \cup {Nil}]
      /\ cur' \in [Threads -> Threads \cup {Nil}]
      /\ pc' \in [Threads -> {"idle", "enter", "waiting", "timedOut", "wake", "walk"}]
      /\ \A u \in Threads \ {t} : pc'[u] = pc[u] /\ arg'[u] = arg[u] /\ cur'[u] = cur[u]
  BY <1>1 DEF TypeOK, Return, Goto
<1>3. InCall'
  BY <1>1, <1>2 DEF InCall
<1> QED
  BY <1>2, <1>3

(* A call that returns without having waited. *)
LEMMA NoWaitInv ==
  ASSUME Inv, NEW t \in Threads, pc[t] \in {"enter", "wake"}, Return(t),
         UNCHANGED <<mem, lock, links, event>>
  PROVE  Inv'
<1>1. TypeOK /\ WokenIsMarked /\ event[t] = "none"
  BY InvParts DEF TypeOK
<1>2. TypeOK'
  BY <1>1, ReturnFacts DEF TypeOK, links
<1>3. \A u \in Threads : event[u] = "clear" => arg'[u] = arg[u]
  BY <1>1, ReturnFacts
<1>4. \A b \in Buckets : Linked(b)' = Linked(b) /\ Ring(b)'
  BY <1>3, QuietLinked
<1>5. WalkStaysOnList'
  <2>2. pc'[t] # "walk" /\ \A u \in Threads \ {t} : pc'[u] = pc[u] /\ arg'[u] = arg[u] /\ cur'[u] = cur[u]
    BY ReturnFacts
  <2> QED
    BY <1>4, <2>2, WalkersKept
<1>6. WokenIsMarked' /\ InCall'
  BY <1>1, ReturnFacts DEF WokenIsMarked, links
<1> QED
  BY <1>2, <1>4, <1>5, <1>6, PartsInv

(* A time-out keeps the invariant. *)
LEMMA TimesOutInv ==
  ASSUME Inv, NEW t \in Threads, WaitTimesOut(t)
  PROVE  Inv'
<1>1. TypeOK /\ InCall /\ WokenIsMarked
  BY InvParts
<1>2. TypeOK'
  BY <1>1 DEF TypeOK, WaitTimesOut, Goto, links
<1>3. /\ pc'[t] = "timedOut" /\ pc[t] = "waiting"
      /\ UNCHANGED <<links, event, arg, lock, cur>>
      /\ \A u \in Threads \ {t} : pc'[u] = pc[u]
  BY <1>1 DEF TypeOK, WaitTimesOut, Goto
<1>4. \A b \in Buckets : Linked(b)' = Linked(b) /\ Ring(b)'
  BY <1>3, QuietLinked
<1>5. WalkStaysOnList'
  BY <1>3, <1>4, WalkersKept
<1>6. WokenIsMarked' /\ InCall'
  BY <1>1, <1>3 DEF WokenIsMarked, InCall, links
<1> QED
  BY <1>2, <1>4, <1>5, <1>6, PartsInv

(* The buckets share no block. *)
LEMMA BucketsApart ==
  \A b, c \in Buckets : b # c => \A t \in Linked(b) : t \notin Linked(c)
  BY DEF Linked

(* Appending a waiter to its list keeps the invariant. *)
LEMMA StartWaitInv ==
  ASSUME Inv, NEW t \in Threads, StartWait(t)
  PROVE  Inv'
<1>1. TypeOK /\ InCall /\ WokenIsMarked /\ \A c \in Buckets : Ring(c)
  BY InvParts
<1>2. pc[t] = "enter" /\ event[t] = "none"
  BY <1>1 DEF StartWait, TypeOK
<1>3. PICK b \in Buckets : b = Bucket(t)
  BY <1>2, BucketOf
<1>4. t \notin Linked(b) /\ Linked(b) \subseteq Threads
  BY <1>2 DEF Linked
<1>5. /\ event' = [event EXCEPT ![t] = "clear"] /\ pc' = [pc EXCEPT ![t] = "waiting"]
      /\ UNCHANGED <<mem, lock, arg, compare, cur>>
      /\ lock[b] = Nil
  BY <1>3 DEF StartWait, Goto
<1>6. Linked(b)' = Linked(b) \cup {t}
  BY <1>1, <1>3, <1>5 DEF Linked, TypeOK, Bucket, Address
<1>7. \A c \in Buckets \ {b} : Linked(c)' = Linked(c)
  BY <1>1, <1>2, <1>3, <1>5 DEF Linked, TypeOK, Bucket, Address
<1>8. AddToList(t) /\ Ring(b)
  BY <1>1 DEF StartWait
<1>9. Ring(b)'
  BY <1>1, <1>3, <1>4, <1>6, <1>8, RingWith
<1>10. /\ waitBlocks' \in [Buckets -> Ptr] /\ next' \in [Threads -> Ptr] /\ previous' \in [Threads -> Ptr]
       /\ \A c \in Buckets \ {b} : waitBlocks'[c] = waitBlocks[c]
       /\ \A u \in Threads \ {t} : u \notin Linked(b) => next'[u] = next[u] /\ previous'[u] = previous[u]
  <2>1. waitBlocks \in [Buckets -> Ptr] /\ next \in [Threads -> Ptr] /\ previous \in [Threads -> Ptr]
    BY <1>1 DEF TypeOK, Ptr
  <2>2. CASE waitBlocks[b] = Nil
    <3>1. /\ waitBlocks' = [waitBlocks EXCEPT ![b] = t]
          /\ previous' = [previous EXCEPT ![t] = t] /\ next' = [next EXCEPT ![t] = t]
      BY <1>3, <1>8, <2>2 DEF AddToList
    <3> QED
      BY <2>1, <3>1 DEF Ptr
  <2>3. CASE waitBlocks[b] # Nil
    <3>h. PICK h \in Linked(b), p \in Linked(b) : h = waitBlocks[b] /\ p = previous[h]
      BY <1>8, <2>3 DEF Ring
    <3>1. /\ waitBlocks' = waitBlocks
          /\ previous' = [previous EXCEPT ![t] = p, ![h] = t]
          /\ next' = [next EXCEPT ![t] = h, ![p] = t]
      BY <1>3, <1>8, <2>3, <3>h DEF AddToList
    <3> QED
      BY <1>4, <2>1, <3>h, <3>1 DEF Ptr
  <2> QED
    BY <2>2, <2>3
<1>11. ASSUME NEW c \in Buckets \ {b} PROVE Ring(c)'
  <2>1. \A u \in Linked(c) : next'[u] = next[u] /\ previous'[u] = previous[u]
    BY <1>2, <1>10, BucketsApart DEF Linked
  <2> QED
    BY <1>1, <1>7, <1>10, <2>1, RingFrame
<1>12. TypeOK'
  BY <1>1, <1>5, <1>10 DEF TypeOK, Ptr
<1>13. \A u \in Threads \ {t} : pc'[u] = pc[u] /\ arg'[u] = arg[u] /\ cur'[u] = cur[u]
  BY <1>1, <1>5 DEF TypeOK
<1>14. WalkStaysOnList'
  <2>1. pc'[t] # "walk"
    BY <1>1, <1>5 DEF TypeOK
  <2>2. \A c \in Buckets : \A u \in Linked(c) : u \in Linked(c)'
    BY <1>6, <1>7
  <2> QED
    BY <1>5, <1>13, <2>1, <2>2, WalkersKept
<1>15. InCall'
  BY <1>1, <1>2, <1>5, <1>13 DEF InCall
<1>16. WokenIsMarked'
  <2> SUFFICES ASSUME NEW u \in Threads, event'[u] = "set" PROVE previous'[u] = Nil
    BY DEF WokenIsMarked
  <2>1. u # t /\ event[u] = "set"
    BY <1>1, <1>5 DEF TypeOK
  <2>2. u \notin Linked(b)
    BY <2>1 DEF Linked
  <2> QED
    BY <1>1, <1>10, <2>1, <2>2 DEF WokenIsMarked
<1> QED
  BY <1>9, <1>11, <1>12, <1>14, <1>15, <1>16, PartsInv

(* What is not linked may leave without anybody noticing. *)
LEMMA LeaveInv ==
  ASSUME Inv, NEW t \in Threads, pc[t] \in {"waiting", "timedOut"}, event[t] = "set",
         LeaveWait(t, next, previous), UNCHANGED <<mem, lock, waitBlocks>>
  PROVE  Inv'
<1>1. TypeOK /\ InCall /\ WokenIsMarked /\ \A c \in Buckets : Ring(c)
  BY InvParts
<1>2. /\ event' = [event EXCEPT ![t] = "none"] /\ next' = [next EXCEPT ![t] = Nil]
      /\ previous' = [previous EXCEPT ![t] = Nil] /\ Return(t)
  BY DEF LeaveWait
<1>3. TypeOK'
  BY <1>1, <1>2, ReturnFacts DEF TypeOK
<1>4. /\ pc'[t] # "walk" /\ InCall'
      /\ \A u \in Threads \ {t} : pc'[u] = pc[u] /\ arg'[u] = arg[u] /\ cur'[u] = cur[u]
  BY <1>2, ReturnFacts
<1>5. ASSUME NEW c \in Buckets PROVE Linked(c)' = Linked(c) /\ Ring(c)'
  <2>1. /\ t \notin Linked(c) /\ Linked(c) \subseteq Threads
    BY DEF Linked
  <2>2. Linked(c)' = Linked(c)
    BY <1>1, <1>2, <1>4 DEF Linked, TypeOK, Bucket, Address
  <2>3. \A u \in Linked(c) : next'[u] = next[u] /\ previous'[u] = previous[u]
    BY <1>1, <1>2, <2>1 DEF TypeOK
  <2> QED
    BY <1>1, <2>2, <2>3, RingFrame
<1>6. WalkStaysOnList'
  BY <1>4, <1>5, WalkersKept
<1>7. WokenIsMarked'
  BY <1>1, <1>2 DEF WokenIsMarked, TypeOK
<1> QED
  BY <1>3, <1>4, <1>5, <1>6, <1>7, PartsInv

(* What taking a linked block off the list leaves of the types and of the   *)
(* links of others.                                                         *)
LEMMA WithoutFacts ==
  ASSUME TypeOK, NEW b \in Buckets, Ring(b), NEW w \in Linked(b)
  PROVE  /\ ~Unlinked(w)
         /\ NextWithout(w) \in [Threads -> Ptr] /\ PreviousWithout(w) \in [Threads -> Ptr]
         /\ HeadWithout(b, w) \in (Linked(b) \ {w}) \cup {Nil}
         /\ HeadWithout(b, w) # Nil => next[w] \in Linked(b) \ {w}
         /\ \A u \in Threads \ Linked(b) : /\ NextWithout(w)[u] = next[u]
                                           /\ PreviousWithout(w)[u] = previous[u]
<1>0. /\ next \in [Threads -> Ptr] /\ previous \in [Threads -> Ptr]
      /\ Linked(b) \subseteq Threads
  BY DEF TypeOK, Ptr, Linked
<1>p. PICK p \in Linked(b), n \in Linked(b) : p = previous[w] /\ n = next[w]
  BY DEF Ring
<1>1. p \in Threads /\ n \in Threads /\ ~Unlinked(w)
  BY <1>0, <1>p, NilIsNoThread DEF Unlinked
<1>2. /\ NextWithout(w) \in [Threads -> Ptr] /\ PreviousWithout(w) \in [Threads -> Ptr]
      /\ \A u \in Threads \ Linked(b) : /\ NextWithout(w)[u] = next[u]
                                        /\ PreviousWithout(w)[u] = previous[u]
  BY <1>0, <1>p, <1>1 DEF NextWithout, PreviousWithout, Ptr
<1>3. /\ HeadWithout(b, w) \in (Linked(b) \ {w}) \cup {Nil}
      /\ HeadWithout(b, w) # Nil => next[w] \in Linked(b) \ {w}
  BY <1>p, <1>1 DEF HeadWithout, Alone, Ring
<1> QED
  BY <1>1, <1>2, <1>3

(* A timed-out waiter removing itself keeps the invariant. *)
LEMMA RemoveTimedOutInv ==
  ASSUME Inv, NEW t \in Threads, RemoveTimedOut(t)
  PROVE  Inv'
<1>1. TypeOK /\ InCall /\ WokenIsMarked /\ \A c \in Buckets : Ring(c)
  BY InvParts
<1>2. pc[t] = "timedOut" /\ event[t] \in {"clear", "set"}
  BY <1>1 DEF RemoveTimedOut, TypeOK
<1>3. PICK b \in Buckets : b = Bucket(t)
  BY <1>2, BucketOf
<1>4. /\ lock[b] = Nil /\ UNCHANGED <<mem, lock>>
      /\ waitBlocks' = [waitBlocks EXCEPT ![b] = HeadWithout(b, t)]
      /\ LeaveWait(t, NextWithout(t), PreviousWithout(t))
  BY <1>3 DEF RemoveTimedOut
<1>5. CASE event[t] = "set"
  <2>1. Unlinked(t)
    BY <1>1, <1>5 DEF WokenIsMarked, Unlinked
  <2>2. waitBlocks' = waitBlocks /\ LeaveWait(t, next, previous)
    BY <1>1, <1>4, <2>1 DEF HeadWithout, NextWithout, PreviousWithout, TypeOK
  <2> QED
    BY <1>2, <1>4, <1>5, <2>2, LeaveInv
<1>6. CASE event[t] = "clear"
  <2>1. t \in Linked(b)
    BY <1>3, <1>6 DEF Linked
  <2>2. /\ NextWithout(t) \in [Threads -> Ptr] /\ PreviousWithout(t) \in [Threads -> Ptr]
        /\ HeadWithout(b, t) \in (Linked(b) \ {t}) \cup {Nil}
        /\ \A u \in Threads \ Linked(b) : /\ NextWithout(t)[u] = next[u]
                                          /\ PreviousWithout(t)[u] = previous[u]
    BY <1>1, <2>1, WithoutFacts
  <2>3. /\ event' = [event EXCEPT ![t] = "none"]
        /\ next' = [NextWithout(t) EXCEPT ![t] = Nil]
        /\ previous' = [PreviousWithout(t) EXCEPT ![t] = Nil]
        /\ Return(t)
    BY <1>4 DEF LeaveWait
  <2>4. /\ pc'[t] = "idle" /\ InCall'
        /\ \A u \in Threads \ {t} : pc'[u] = pc[u] /\ arg'[u] = arg[u] /\ cur'[u] = cur[u]
    BY <2>3, ReturnFacts
  <2>5. Linked(b) \subseteq Threads
    BY DEF Linked
  <2>6. /\ waitBlocks' \in [Buckets -> Ptr] /\ next' \in [Threads -> Ptr]
        /\ previous' \in [Threads -> Ptr] /\ waitBlocks'[b] = HeadWithout(b, t)
        /\ \A u \in Threads \ {t} : /\ next'[u] = NextWithout(t)[u]
                                    /\ previous'[u] = PreviousWithout(t)[u]
    <3>1. waitBlocks \in [Buckets -> Ptr]
      BY <1>1 DEF TypeOK, Ptr
    <3> QED
      BY <1>4, <2>2, <2>3, <2>5, <3>1 DEF Ptr
  <2>7. TypeOK'
    BY <1>1, <1>4, <2>3, <2>6, ReturnFacts DEF TypeOK, Ptr
  <2>8. \A c \in Buckets : Linked(c)' = Linked(c) \ {t}
    BY <1>1, <2>3, <2>4 DEF Linked, TypeOK, Bucket, Address
  <2>9. Ring(b)'
    BY <1>1, <2>1, <2>5, <2>6, <2>8, RingWithout
  <2>10. ASSUME NEW c \in Buckets \ {b} PROVE Linked(c)' = Linked(c) /\ Ring(c)'
    <3>1. Linked(c)' = Linked(c)
      BY <2>1, <2>8, BucketsApart
    <3>2. \A u \in Linked(c) : u \in Threads \ Linked(b) /\ u # t
      BY <2>1, BucketsApart DEF Linked
    <3>3. \A u \in Linked(c) : next'[u] = next[u] /\ previous'[u] = previous[u]
      BY <2>2, <2>6, <3>2
    <3>4. waitBlocks'[c] = waitBlocks[c]
      BY <1>1, <1>4 DEF TypeOK
    <3> QED
      BY <1>1, <3>1, <3>3, <3>4, RingFrame
  <2>11. WalkStaysOnList'
    <3>1. \A u \in Threads \ {t} : \A c \in Buckets : lock[c] = u => c # b
      BY <1>4, NilIsNoThread
    <3> QED
      BY <1>4, <2>4, <2>10, <3>1, WalkersKept
  <2>12. WokenIsMarked'
    <3> SUFFICES ASSUME NEW u \in Threads, event'[u] = "set" PROVE previous'[u] = Nil
      BY DEF WokenIsMarked
    <3>1. u # t /\ event[u] = "set"
      BY <1>1, <2>3 DEF TypeOK
    <3>2. u \notin Linked(b)
      BY <3>1 DEF Linked
    <3> QED
      BY <1>1, <2>2, <2>6, <3>1, <3>2 DEF WokenIsMarked
  <2> QED
    BY <2>4, <2>7, <2>9, <2>10, <2>11, <2>12, PartsInv
<1> QED
  BY <1>2, <1>5, <1>6

(* The start of a wake-up keeps the invariant. *)
LEMMA WakeByAddressInv ==
  ASSUME Inv, NEW t \in Threads, RtlpWakeByAddress(t)
  PROVE  Inv'
<1>1. TypeOK /\ InCall /\ WokenIsMarked /\ \A c \in Buckets : Ring(c)
  BY InvParts
<1>2. pc[t] = "wake" /\ event[t] = "none" /\ UNCHANGED <<mem, links, event>>
  BY <1>1 DEF RtlpWakeByAddress, TypeOK
<1>3. PICK b \in Buckets : b = Bucket(t)
  BY <1>2, BucketOf
<1>4. CASE waitBlocks[b] = Nil
  <2>1. Return(t) /\ UNCHANGED lock
    BY <1>3, <1>4 DEF RtlpWakeByAddress
  <2> QED
    BY <1>2, <2>1, NoWaitInv
<1>5. CASE waitBlocks[b] # Nil
  <2>1. /\ lock' = [lock EXCEPT ![b] = t] /\ cur' = [cur EXCEPT ![t] = waitBlocks[b]]
        /\ pc' = [pc EXCEPT ![t] = "walk"] /\ UNCHANGED <<arg, compare>> /\ lock[b] = Nil
    BY <1>3, <1>5 DEF RtlpWakeByAddress, Goto
  <2>2. waitBlocks[b] \in Linked(b) /\ waitBlocks[b] \in Threads
    BY <1>1, <1>5 DEF Ring, Linked
  <2>3. TypeOK'
    BY <1>1, <1>2, <2>1, <2>2 DEF TypeOK, links
  <2>4. \A c \in Buckets : Linked(c)' = Linked(c) /\ Ring(c)'
    BY <1>2, <2>1, QuietLinked
  <2>5. WalkStaysOnList'
    <3> SUFFICES ASSUME NEW u \in Threads, pc'[u] = "walk"
                 PROVE  (lock[Bucket(u)] = u /\ cur[u] \in Linked(Bucket(u)))'
      BY DEF WalkStaysOnList
    <3>1. Bucket(u)' = Bucket(u)
      BY <2>1 DEF Bucket, Address
    <3>2. CASE u = t
      <4>1. lock'[b] = t /\ cur'[t] = waitBlocks[b]
        BY <1>1, <2>1 DEF TypeOK
      <4> QED
        BY <1>3, <2>2, <2>4, <3>1, <3>2, <4>1
    <3>3. CASE u # t
      <4>1. pc[u] = "walk" /\ cur'[u] = cur[u]
        BY <1>1, <2>1, <3>3 DEF TypeOK
      <4>2. PICK c \in Buckets : c = Bucket(u)
        BY <4>1, BucketOf
      <4>3. lock[c] = u /\ cur[u] \in Linked(c)
        BY <4>1, <4>2 DEF Inv, WalkStaysOnList
      <4>4. lock'[c] = u
        BY <1>1, <2>1, <4>3, NilIsNoThread DEF TypeOK
      <4> QED
        BY <2>4, <3>1, <4>1, <4>2, <4>3, <4>4
    <3> QED
      BY <3>2, <3>3
  <2>6. InCall' /\ WokenIsMarked'
    BY <1>1, <1>2, <2>1 DEF InCall, WokenIsMarked, TypeOK, links
  <2> QED
    BY <2>3, <2>4, <2>5, <2>6, PartsInv
<1> QED
  BY <1>4, <1>5

(* The end of an iteration: the walker leaves the lock, or goes on to a     *)
(* block that is still on the list.                                         *)
LEMMA AdvanceFacts ==
  ASSUME Inv, NEW t \in Threads, pc[t] = "walk", NEW b \in Buckets, b = Bucket(t),
         NEW n, NEW h, h # Nil => n \in Threads,
         EndWake(t) \/ Advance(t, n, h)
  PROVE  /\ lock' \in [Buckets -> Ptr]
         /\ pc' \in [Threads -> {"idle", "enter", "waiting", "timedOut", "wake", "walk"}]
         /\ arg' \in [Threads -> (Operations \X Addresses) \cup {NoCall}]
         /\ compare' \in [Threads -> Values \cup {Nil}]
         /\ cur' \in [Threads -> Ptr]
         /\ InCall'
         /\ pc'[t] \in {"idle", "walk"}
         /\ pc'[t] = "walk" => /\ h # Nil /\ cur'[t] = n /\ arg'[t] = arg[t] /\ lock'[b] = t
         /\ \A u \in Threads \ {t} : pc'[u] = pc[u] /\ arg'[u] = arg[u] /\ cur'[u] = cur[u]
         /\ \A c \in Buckets \ {b} : lock'[c] = lock[c]
<1>1. TypeOK /\ InCall /\ lock[b] = t
  BY InvParts DEF WalkStaysOnList
<1>2. CASE EndWake(t)
  <2>1. lock' = [lock EXCEPT ![b] = Nil] /\ Return(t)
    BY <1>2 DEF EndWake
  <2>2. lock' \in [Buckets -> Ptr] /\ \A c \in Buckets \ {b} : lock'[c] = lock[c]
    BY <1>1, <2>1 DEF TypeOK, Ptr
  <2> QED
    BY <2>1, <2>2, ReturnFacts DEF Ptr
<1>3. CASE Advance(t, n, h) /\ ~EndWake(t)
  <2>1. h # Nil /\ cur' = [cur EXCEPT ![t] = n] /\ UNCHANGED <<lock, pc, arg, compare>>
    BY <1>3 DEF Advance
  <2>2. InCall'
    BY <1>1, <2>1 DEF InCall
  <2> QED
    BY <1>1, <2>1, <2>2 DEF TypeOK, Ptr
<1> QED
  BY <1>2, <1>3

(* Passing over a waiter of another address keeps the invariant. *)
LEMMA WakeSkipInv ==
  ASSUME Inv, NEW t \in Threads, WakeSkip(t)
  PROVE  Inv'
<1>1. TypeOK /\ InCall /\ WokenIsMarked /\ WalkStaysOnList /\ \A c \in Buckets : Ring(c)
  BY InvParts
<1>2. pc[t] = "walk" /\ event[t] = "none" /\ UNCHANGED <<mem, links, event>>
  BY <1>1 DEF WakeSkip, TypeOK
<1>3. PICK b \in Buckets : b = Bucket(t)
  BY <1>2, BucketOf
<1>4. PICK w \in Linked(b) : w = cur[t]
  BY <1>1, <1>2, <1>3 DEF WalkStaysOnList
<1>5. PICK n \in Linked(b) : n = next[w]
  BY <1>1 DEF Ring
<1>6. n \in Threads
  BY DEF Linked
<1>7. Advance(t, n, waitBlocks[b])
  BY <1>3, <1>4, <1>5 DEF WakeSkip
<1>8. /\ lock' \in [Buckets -> Ptr]
      /\ pc' \in [Threads -> {"idle", "enter", "waiting", "timedOut", "wake", "walk"}]
      /\ arg' \in [Threads -> (Operations \X Addresses) \cup {NoCall}]
      /\ compare' \in [Threads -> Values \cup {Nil}]
      /\ cur' \in [Threads -> Ptr]
      /\ InCall'
      /\ pc'[t] \in {"idle", "walk"}
      /\ pc'[t] = "walk" => /\ cur'[t] = n /\ arg'[t] = arg[t] /\ lock'[b] = t
      /\ \A u \in Threads \ {t} : pc'[u] = pc[u] /\ arg'[u] = arg[u] /\ cur'[u] = cur[u]
      /\ \A c \in Buckets \ {b} : lock'[c] = lock[c]
  BY <1>2, <1>3, <1>6, <1>7, AdvanceFacts
<1>9. TypeOK'
  BY <1>1, <1>2, <1>8 DEF TypeOK, links, Ptr
<1>10. \A c \in Buckets : Linked(c)' = Linked(c) /\ Ring(c)'
  <2>1. \A u \in Threads : event[u] = "clear" => arg'[u] = arg[u]
    BY <1>2, <1>8
  <2> QED
    BY <1>2, <2>1, QuietLinked
<1>11. WalkStaysOnList'
  <2> SUFFICES ASSUME NEW u \in Threads, pc'[u] = "walk"
               PROVE  (lock[Bucket(u)] = u /\ cur[u] \in Linked(Bucket(u)))'
    BY DEF WalkStaysOnList
  <2>1. arg'[u] = arg[u] /\ pc[u] = "walk"
    BY <1>2, <1>8
  <2>2. PICK c \in Buckets : c = Bucket(u)
    BY <2>1, BucketOf
  <2>3. Bucket(u)' = c
    BY <2>1, <2>2 DEF Bucket, Address
  <2>4. CASE u = t
    BY <1>3, <1>5, <1>8, <1>10, <2>2, <2>3, <2>4
  <2>5. CASE u # t
    <3>1. lock[c] = u /\ cur[u] \in Linked(c) /\ lock[b] = t
      BY <1>1, <1>2, <1>3, <2>1, <2>2 DEF WalkStaysOnList
    <3> QED
      BY <1>8, <1>10, <2>3, <2>5, <3>1
  <2> QED
    BY <2>4, <2>5
<1>12. WokenIsMarked'
  BY <1>1, <1>2 DEF WokenIsMarked, links
<1> QED
  BY <1>8, <1>9, <1>10, <1>11, <1>12, PartsInv

(* Unlinking and waking a waiter keeps the invariant. *)
LEMMA WakeOneInv ==
  ASSUME Inv, NEW t \in Threads, WakeOne(t)
  PROVE  Inv'
<1>1. TypeOK /\ InCall /\ WokenIsMarked /\ WalkStaysOnList /\ \A c \in Buckets : Ring(c)
  BY InvParts
<1>2. pc[t] = "walk" /\ event[t] = "none" /\ mem' = mem
  BY <1>1 DEF WakeOne, TypeOK
<1>3. PICK b \in Buckets : b = Bucket(t)
  BY <1>2, BucketOf
<1>4. PICK w \in Linked(b) : w = cur[t]
  BY <1>1, <1>2, <1>3 DEF WalkStaysOnList
<1>5. w \in Threads /\ w # t /\ event[w] = "clear" /\ Linked(b) \subseteq Threads
  BY <1>2 DEF Linked
<1>6. /\ waitBlocks' = [waitBlocks EXCEPT ![b] = HeadWithout(b, w)]
      /\ next' = NextWithout(w)
      /\ previous' = [PreviousWithout(w) EXCEPT ![w] = Nil]
      /\ event' = [event EXCEPT ![w] = "set"]
  BY <1>3, <1>4 DEF WakeOne
<1>7. /\ NextWithout(w) \in [Threads -> Ptr] /\ PreviousWithout(w) \in [Threads -> Ptr]
      /\ HeadWithout(b, w) \in (Linked(b) \ {w}) \cup {Nil}
      /\ HeadWithout(b, w) # Nil => next[w] \in Linked(b) \ {w}
      /\ \A u \in Threads \ Linked(b) : /\ NextWithout(w)[u] = next[u]
                                        /\ PreviousWithout(w)[u] = previous[u]
  BY <1>1, WithoutFacts
<1>8. EndWake(t) \/ Advance(t, next[w], HeadWithout(b, w))
  BY <1>3, <1>4 DEF WakeOne
<1>9. /\ lock' \in [Buckets -> Ptr]
      /\ pc' \in [Threads -> {"idle", "enter", "waiting", "timedOut", "wake", "walk"}]
      /\ arg' \in [Threads -> (Operations \X Addresses) \cup {NoCall}]
      /\ compare' \in [Threads -> Values \cup {Nil}]
      /\ cur' \in [Threads -> Ptr]
      /\ InCall'
      /\ pc'[t] \in {"idle", "walk"}
      /\ pc'[t] = "walk" => /\ HeadWithout(b, w) # Nil /\ cur'[t] = next[w]
                            /\ arg'[t] = arg[t] /\ lock'[b] = t
      /\ \A u \in Threads \ {t} : pc'[u] = pc[u] /\ arg'[u] = arg[u] /\ cur'[u] = cur[u]
      /\ \A c \in Buckets \ {b} : lock'[c] = lock[c]
  <2>1. HeadWithout(b, w) # Nil => next[w] \in Threads
    BY <1>5, <1>7
  <2> QED
    BY <1>2, <1>3, <1>8, <2>1, AdvanceFacts
<1>10. /\ waitBlocks' \in [Buckets -> Ptr] /\ next' \in [Threads -> Ptr]
       /\ previous' \in [Threads -> Ptr] /\ waitBlocks'[b] = HeadWithout(b, w)
       /\ previous'[w] = Nil
       /\ \A u \in Threads \ {w} : /\ next'[u] = NextWithout(w)[u]
                                   /\ previous'[u] = PreviousWithout(w)[u]
       /\ \A c \in Buckets \ {b} : waitBlocks'[c] = waitBlocks[c]
  <2>1. waitBlocks \in [Buckets -> Ptr]
    BY <1>1 DEF TypeOK, Ptr
  <2> QED
    BY <1>5, <1>6, <1>7, <2>1 DEF Ptr
<1>11. /\ event' \in [Threads -> {"none", "clear", "set"}]
       /\ event'[w] = "set" /\ \A u \in Threads \ {w} : event'[u] = event[u]
  BY <1>1, <1>5, <1>6 DEF TypeOK
<1>12. TypeOK'
  BY <1>1, <1>2, <1>5, <1>9, <1>10, <1>11 DEF TypeOK, Ptr
<1>13. \A c \in Buckets : Linked(c)' = Linked(c) \ {w}
  <2>1. \A u \in Threads : u # t => arg'[u] = arg[u]
    BY <1>9
  <2>2. event'[t] = "none"
    BY <1>2, <1>5, <1>11
  <2> QED
    BY <1>2, <1>5, <1>11, <2>1, <2>2 DEF Linked, Bucket, Address
<1>14. Ring(b)'
  BY <1>1, <1>5, <1>10, <1>13, RingWithout
<1>15. ASSUME NEW c \in Buckets \ {b} PROVE Linked(c)' = Linked(c) /\ Ring(c)'
  <2>1. Linked(c)' = Linked(c)
    BY <1>13, BucketsApart
  <2>2. \A u \in Linked(c) : u \in Threads \ Linked(b) /\ u # w
    BY BucketsApart DEF Linked
  <2>3. \A u \in Linked(c) : next'[u] = next[u] /\ previous'[u] = previous[u]
    BY <1>7, <1>10, <2>2
  <2> QED
    BY <1>1, <1>10, <2>1, <2>3, RingFrame
<1>16. WalkStaysOnList'
  <2> SUFFICES ASSUME NEW u \in Threads, pc'[u] = "walk"
               PROVE  (lock[Bucket(u)] = u /\ cur[u] \in Linked(Bucket(u)))'
    BY DEF WalkStaysOnList
  <2>1. arg'[u] = arg[u] /\ pc[u] = "walk"
    BY <1>2, <1>9
  <2>2. PICK c \in Buckets : c = Bucket(u)
    BY <2>1, BucketOf
  <2>3. Bucket(u)' = c
    BY <2>1, <2>2 DEF Bucket, Address
  <2>4. CASE u = t
    BY <1>3, <1>7, <1>9, <1>13, <2>2, <2>3, <2>4
  <2>5. CASE u # t
    <3>1. lock[c] = u /\ cur[u] \in Linked(c) /\ lock[b] = t
      BY <1>1, <1>2, <1>3, <2>1, <2>2 DEF WalkStaysOnList
    <3>2. c # b
      BY <2>5, <3>1
    <3> QED
      BY <1>9, <1>15, <2>3, <2>5, <3>1, <3>2
  <2> QED
    BY <2>4, <2>5
<1>17. WokenIsMarked'
  <2> SUFFICES ASSUME NEW u \in Threads, event'[u] = "set", u # w PROVE previous'[u] = Nil
    BY <1>10 DEF WokenIsMarked
  <2>1. event[u] = "set" /\ u \notin Linked(b)
    BY <1>11 DEF Linked
  <2> QED
    BY <1>1, <1>7, <1>10, <2>1 DEF WokenIsMarked
<1> QED
  BY <1>9, <1>12, <1>14, <1>15, <1>16, <1>17, PartsInv

-----------------------------------------------------------------------------

(* A step that changes nothing keeps the invariant. *)
LEMMA StutterInv == ASSUME Inv, UNCHANGED vars PROVE Inv'
<1>1. TypeOK /\ InCall /\ WokenIsMarked /\ WalkStaysOnList
  BY InvParts
<1>2. \A b \in Buckets : Linked(b)' = Linked(b) /\ Ring(b)'
  BY QuietLinked DEF vars, links
<1>3. TypeOK' /\ InCall' /\ WokenIsMarked'
  BY <1>1 DEF TypeOK, InCall, WokenIsMarked, vars, links
<1>4. WalkStaysOnList'
  BY <1>1 DEF WalkStaysOnList, Linked, Bucket, Address, vars, links
<1> QED
  BY <1>2, <1>3, <1>4, PartsInv

(* The bucket lists of RtlWaitOnAddress keep their shape and the walks of   *)
(* RtlpWakeByAddress stay on them in every reachable state.                 *)
THEOREM AddressListInvariant == Spec => []Inv
<1>1. Init => Inv
  BY InitInv
<1>2. Inv /\ [Next]_vars => Inv'
  <2> SUFFICES ASSUME Inv, [Next]_vars PROVE Inv'
    OBVIOUS
  <2>1. CASE UNCHANGED vars
    BY <2>1, StutterInv
  <2>2. ASSUME NEW t \in Threads, Call(t) PROVE Inv'
    BY <2>2, CallInv
  <2>3. ASSUME NEW t \in Threads, LockStep(t) PROVE Inv'
    <3>1. CASE ValuesDiffer(t) \/ NoEvent(t)
      <4>1. /\ pc[t] = "enter" /\ Return(t) /\ UNCHANGED <<mem, lock, links, event>>
        BY <3>1 DEF ValuesDiffer, NoEvent
      <4> QED
        BY <4>1, NoWaitInv
    <3>2. CASE StartWait(t)
      BY <3>2, StartWaitInv
    <3>3. CASE RemoveTimedOut(t)
      BY <3>3, RemoveTimedOutInv
    <3>4. CASE RtlpWakeByAddress(t)
      BY <3>4, WakeByAddressInv
    <3> QED
      BY <2>3, <3>1, <3>2, <3>3, <3>4 DEF LockStep
  <2>4. ASSUME NEW t \in Threads, Step(t) PROVE Inv'
    <3>1. CASE WaitSatisfied(t)
      BY <3>1, LeaveInv DEF WaitSatisfied
    <3>2. CASE WakeSkip(t)
      BY <3>2, WakeSkipInv
    <3>3. CASE WakeOne(t)
      BY <3>3, WakeOneInv
    <3> QED
      BY <2>4, <3>1, <3>2, <3>3 DEF Step
  <2>5. ASSUME NEW t \in Threads, WaitTimesOut(t) PROVE Inv'
    BY <2>5, TimesOutInv
  <2> QED
    BY <2>1, <2>2, <2>3, <2>4, <2>5 DEF Next
<1> QED
  BY <1>1, <1>2, PTL DEF Spec

(* The list of a hash bucket is one ring of exactly the blocks that wait,   *)
(* however adding, waking and timing out are interleaved, for any number of *)
(* threads, addresses and buckets: RtlpWakeByAddress and                    *)
(* KexRtlpRemoveWoaWaitBlock never unlink a block twice nor leave one       *)
(* behind.                                                                  *)
THEOREM ListIsOneRing == Spec => []RingOfWaiters
  BY AddressListInvariant, PTL DEF Inv

(* The loop of RtlpWakeByAddress holds the bucket's lock and looks only at  *)
(* blocks of calls that have not returned, though a signalled waiter may    *)
(* return before the loop goes on.                                          *)
THEOREM WalkNeverLeavesList == Spec => []WalkStaysOnList
  BY AddressListInvariant, PTL DEF Inv
=============================================================================
