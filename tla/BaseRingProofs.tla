--------------------------- MODULE BaseRingProofs ---------------------------
(***************************************************************************)
(* BaseRing for every queue length: the ownership window is an invariant,  *)
(* producer and consumer never access the same slot, and the ring          *)
(* implements the FIFO channel.                                            *)
(***************************************************************************)
EXTENDS BaseRing, TLAPS

(* Index arithmetic: a position plus an offset of at most N wraps once. *)
LEMMA ModWindow ==
  ASSUME NEW a \in Pos, NEW k \in 0 .. N
  PROVE  /\ (a + k) % N = IF a + k < N THEN a + k ELSE a + k - N
         /\ (a + k) % N \in Pos
  BY NAssumption DEF Pos

(* Different offsets below N name different slots. *)
LEMMA ModInjective ==
  ASSUME NEW a \in Pos, NEW j \in 0 .. N - 1, NEW k \in 0 .. N - 1,
         (a + j) % N = (a + k) % N
  PROVE  j = k
  <1>1. j \in 0 .. N /\ k \in 0 .. N
    BY NAssumption
  <1>2. (a + j) % N = IF a + j < N THEN a + j ELSE a + j - N
    BY <1>1, ModWindow
  <1>3. (a + k) % N = IF a + k < N THEN a + k ELSE a + k - N
    BY <1>1, ModWindow
  <1> QED
    BY <1>2, <1>3, NAssumption DEF Pos

(* Moving the start of a window by one moves every offset by one. *)
LEMMA ModShift ==
  ASSUME NEW a \in Pos, NEW k \in 0 .. N - 1
  PROVE  (((a + 1) % N) + k) % N = (a + (k + 1)) % N
  <1>1. /\ 1 \in 0 .. N /\ k \in 0 .. N /\ k + 1 \in 0 .. N
    BY NAssumption
  <1>2. /\ (a + 1) % N = IF a + 1 < N THEN a + 1 ELSE a + 1 - N
        /\ (a + 1) % N \in Pos
    BY <1>1, ModWindow
  <1>3. (((a + 1) % N) + k) % N =
          IF ((a + 1) % N) + k < N THEN ((a + 1) % N) + k ELSE ((a + 1) % N) + k - N
    BY <1>1, <1>2, ModWindow
  <1>4. (a + (k + 1)) % N = IF a + (k + 1) < N THEN a + (k + 1) ELSE a + (k + 1) - N
    BY <1>1, ModWindow
  <1> QED
    BY <1>2, <1>3, <1>4, NAssumption DEF Pos

(* Every slot is some offset away from any position. *)
LEMMA ModOnto ==
  ASSUME NEW a \in Pos, NEW p \in Pos
  PROVE  \E k \in 0 .. N - 1 : p = (a + k) % N
  <1> DEFINE k == IF p >= a THEN p - a ELSE p - a + N
  <1>1. k \in 0 .. N - 1 /\ k \in 0 .. N
    BY NAssumption DEF Pos
  <1>2. (a + k) % N = IF a + k < N THEN a + k ELSE a + k - N
    BY <1>1, ModWindow
  <1>3. (a + k) % N = p
    BY <1>2, NAssumption DEF Pos
  <1> QED
    BY <1>1, <1>3

-----------------------------------------------------------------------------
\* The empty ring.
LEMMA InitInv == Init => Inv
  <1> SUFFICES ASSUME Init PROVE Inv
    OBVIOUS
  <1> USE NAssumption DEF Init
  <1>1. TypeOK
    BY DEF TypeOK, Pos, Slot, Content
  <1>2. OwnershipWindow
    <2>1. HeadPos = 0 /\ TailPos = 0 /\ inflight = 0 /\ 0 \in Pos
      BY DEF HeadPos, TailPos, Pos
    <2>2. TailPos = (HeadPos + inflight) % N
      BY <2>1, ModWindow DEF Pos
    <2>3. ASSUME NEW k \in 0 .. N - 1
          PROVE  slots[(HeadPos + k) % N].own = "PRO" /\ ~(k < inflight)
      <3>1. (HeadPos + k) % N \in Pos
        BY <2>1, ModWindow
      <3> QED
        BY <3>1, <2>1
    <2> QED
      BY <2>2, <2>3 DEF OwnershipWindow
  <1>3. Progress
    BY DEF Progress
  <1> QED
    BY <1>1, <1>2, <1>3 DEF Inv

(* The ends of the window: the slot at the tail is the producer's unless the   *)
(* ring is full, the slot at the head is the consumer's unless it is empty.   *)
LEMMA WindowEnds ==
  ASSUME Inv
  PROVE  /\ HeadPos \in Pos /\ TailPos \in Pos /\ inflight \in 0 .. N
         /\ slots[TailPos].own = "PRO" <=> inflight < N
         /\ slots[HeadPos].own = "CON" <=> inflight > 0
  <1> USE NAssumption DEF Inv
  <1>1. HeadPos \in Pos /\ TailPos \in Pos /\ inflight \in 0 .. N
    BY DEF TypeOK, HeadPos, TailPos
  <1>2. (HeadPos + 0) % N = HeadPos
    BY <1>1 DEF Pos
  <1>3. slots[HeadPos].own = "CON" <=> inflight > 0
    <2>1. 0 \in 0 .. N - 1
      OBVIOUS
    <2> QED
      BY <1>1, <1>2, <2>1 DEF OwnershipWindow
  <1>4. CASE inflight < N
    <2>1. inflight \in 0 .. N - 1
      BY <1>1, <1>4
    <2>2. slots[TailPos].own # "CON"
      BY <1>1, <2>1 DEF OwnershipWindow
    <2> QED
      BY <1>1, <1>3, <1>4, <2>2 DEF TypeOK, Slot
  <1>5. CASE inflight = N
    <2>1. (HeadPos + inflight) % N = HeadPos
      BY <1>1, <1>5 DEF Pos
    <2>2. TailPos = HeadPos
      BY <2>1 DEF OwnershipWindow
    <2> QED
      BY <1>1, <1>3, <1>5, <2>2
  <1> QED
    BY <1>1, <1>4, <1>5

\* The window implies that a slot has one user at a time.
LEMMA InvNoSharedAccess == Inv => NoSharedAccess
  <1> SUFFICES ASSUME Inv PROVE NoSharedAccess
    OBVIOUS
  <1> QED
    BY WindowEnds DEF NoSharedAccess, Inv, Progress, HeadPos, TailPos

\* Every load and store of either process keeps the invariant.
LEMMA NextInv == Inv /\ [Next]_vars => Inv'
  <1> SUFFICES ASSUME Inv, [Next]_vars PROVE Inv'
    OBVIOUS
  <1> USE NAssumption DEF Inv
  <1>0. /\ HeadPos \in Pos /\ TailPos \in Pos /\ inflight \in 0 .. N
        /\ slots[TailPos].own = "PRO" <=> inflight < N
        /\ slots[HeadPos].own = "CON" <=> inflight > 0
        /\ NoSharedAccess
    BY WindowEnds, InvNoSharedAccess
  <1>p. ASSUME NEW p \in Pos PROVE (p + 1) % N \in Pos
    BY <1>p, ModWindow DEF Pos
  <1>1. ASSUME NEW m \in Data, OutAlloc(m) PROVE Inv'
    <2> USE <1>1 DEF OutAlloc, inVars
    <2>1. TypeOK'
      BY <1>p DEF TypeOK, Slot, Content
    <2>2. HeadPos' = HeadPos /\ TailPos' = TailPos /\ inflight' = inflight
      BY DEF HeadPos, TailPos
    <2>3. ASSUME NEW p \in Pos PROVE slots'[p].own = slots[p].own
      BY DEF TypeOK, Slot
    <2>4. OwnershipWindow'
      BY <2>2, <2>3, <1>0, ModWindow DEF OwnershipWindow
    <2>5. inflight < N
      BY <1>0 DEF TailPos
    <2>6. Progress'
      BY <2>5, <2>3, <1>0 DEF NoSharedAccess, Progress, TypeOK, Slot
    <2> QED
      BY <2>1, <2>4, <2>6
  <1>2. CASE Fill
    <2> USE <1>2 DEF Fill, inVars
    <2>1. TypeOK'
      BY DEF TypeOK, Slot, Content
    <2>2. HeadPos' = HeadPos /\ TailPos' = TailPos /\ inflight' = inflight
      BY DEF HeadPos, TailPos
    <2>3. ASSUME NEW p \in Pos PROVE slots'[p].own = slots[p].own
      BY DEF TypeOK, Slot
    <2>4. OwnershipWindow'
      BY <2>2, <2>3, <1>0, ModWindow DEF OwnershipWindow
    <2>6. Progress'
      BY <2>3, <1>0 DEF NoSharedAccess, Progress, TypeOK, Slot
    <2> QED
      BY <2>1, <2>4, <2>6
  <1>3. CASE OutSend
    <2> USE <1>3 DEF OutSend, inVars
    <2>1. /\ HeadPos' = HeadPos /\ TailPos = txmsg /\ TailPos' = out_pos
          /\ inflight < N /\ inflight' = inflight + 1 /\ inflight \in 0 .. N - 1
      BY <1>0 DEF HeadPos, TailPos, Progress
    <2>2. TypeOK'
      BY <2>1 DEF TypeOK, Slot
    <2>3. TailPos' = (HeadPos' + inflight') % N
      <3>1. txmsg = (HeadPos + inflight) % N /\ out_pos = (txmsg + 1) % N
        BY <2>1 DEF OwnershipWindow, Progress
      <3>2. (HeadPos + inflight) % N = IF HeadPos + inflight < N THEN HeadPos + inflight
                                       ELSE HeadPos + inflight - N
        BY <1>0, ModWindow
      <3>3. (HeadPos + (inflight + 1)) % N =
               IF HeadPos + (inflight + 1) < N THEN HeadPos + (inflight + 1)
               ELSE HeadPos + (inflight + 1) - N
        BY <1>0, <2>1, ModWindow
      <3>4. (txmsg + 1) % N = IF txmsg + 1 < N THEN txmsg + 1 ELSE txmsg + 1 - N
        BY <1>0, <2>1, ModWindow
      <3> QED
        BY <1>0, <2>1, <3>1, <3>2, <3>3, <3>4 DEF Pos
    <2>4. ASSUME NEW k \in 0 .. N - 1
          PROVE  slots'[(HeadPos' + k) % N].own = "CON" <=> k < inflight'
      <3>1. (HeadPos + k) % N \in Pos
        BY <1>0, ModWindow
      <3>2. (HeadPos + k) % N = txmsg <=> k = inflight
        BY <1>0, <2>1, ModInjective DEF OwnershipWindow
      <3>3. slots'[(HeadPos + k) % N].own =
              IF k = inflight THEN "CON" ELSE slots[(HeadPos + k) % N].own
        BY <3>1, <3>2 DEF TypeOK, Slot
      <3> QED
        BY <2>1, <3>3 DEF OwnershipWindow
    <2>5. OwnershipWindow'
      BY <2>3, <2>4 DEF OwnershipWindow
    <2>6. Progress'
      BY <1>0, <2>1 DEF Progress, TypeOK, Slot, NoSharedAccess
    <2> QED
      BY <2>2, <2>5, <2>6
  <1>4. CASE InPoll
    <2> USE <1>4 DEF InPoll, outVars
    <2>1. /\ HeadPos = in_pos /\ HeadPos' = in_pos /\ TailPos' = TailPos
          /\ inflight' = inflight /\ inflight > 0
      BY <1>0 DEF HeadPos, TailPos
    <2>2. TypeOK'
      BY <1>p DEF TypeOK, Slot, Content
    <2>3. OwnershipWindow'
      BY <2>1 DEF OwnershipWindow
    <2>4. Progress'
      BY <2>1 DEF Progress, TypeOK, Slot
    <2> QED
      BY <2>2, <2>3, <2>4
  <1>5. CASE Read
    <2> USE <1>5 DEF Read, outVars
    <2>1. HeadPos' = HeadPos /\ TailPos' = TailPos /\ inflight' = inflight
      BY DEF HeadPos, TailPos
    <2>2. TypeOK'
      BY DEF TypeOK, Slot, Content
    <2>3. OwnershipWindow'
      BY <2>1 DEF OwnershipWindow
    <2>4. Progress'
      BY <2>1 DEF Progress, TypeOK, Slot
    <2> QED
      BY <2>2, <2>3, <2>4
  <1>6. CASE InDone
    <2> USE <1>6 DEF InDone, outVars
    <2>1. /\ HeadPos = rxmsg /\ HeadPos' = in_pos /\ TailPos' = TailPos
          /\ inflight > 0 /\ inflight' = inflight - 1 /\ inflight - 1 \in 0 .. N - 1
          /\ in_pos = (rxmsg + 1) % N /\ in_pos \in Pos
      BY <1>0 DEF HeadPos, TailPos, Progress, TypeOK
    <2>2. TypeOK'
      BY <2>1 DEF TypeOK, Slot
    <2>3. ASSUME NEW k \in 0 .. N - 1
          PROVE  (HeadPos' + k) % N = (HeadPos + (k + 1)) % N
      BY <1>0, <2>1, ModShift
    <2>4. TailPos' = (HeadPos' + inflight') % N
      <3>1. (HeadPos' + (inflight - 1)) % N = (HeadPos + ((inflight - 1) + 1)) % N
        BY <2>1, <2>3
      <3> QED
        BY <1>0, <2>1, <3>1 DEF OwnershipWindow, Pos
    <2>5. ASSUME NEW k \in 0 .. N - 1
          PROVE  slots'[(HeadPos' + k) % N].own = "CON" <=> k < inflight'
      <3>1. CASE k = N - 1
        <4>1. (HeadPos' + k) % N = HeadPos
          <5>1. (HeadPos + (k + 1)) % N = HeadPos
            BY <1>0, <3>1 DEF Pos
          <5> QED
            BY <2>3, <5>1
        <4>2. slots'[HeadPos].own = "PRO"
          BY <1>0, <2>1 DEF TypeOK, Slot
        <4> QED
          BY <1>0, <2>1, <3>1, <4>1, <4>2
      <3>2. CASE k < N - 1
        <4>1. k + 1 \in 0 .. N - 1 /\ 0 \in 0 .. N - 1
          BY <3>2
        <4>2. (HeadPos + (k + 1)) % N # HeadPos
          <5>1. (HeadPos + 0) % N = HeadPos
            BY <1>0 DEF Pos
          <5> QED
            BY <1>0, <4>1, <5>1, ModInjective
        <4>3. (HeadPos + (k + 1)) % N \in Pos
          BY <1>0, <4>1, ModWindow
        <4>4. slots'[(HeadPos + (k + 1)) % N].own = slots[(HeadPos + (k + 1)) % N].own
          BY <2>1, <4>2, <4>3 DEF TypeOK, Slot
        <4>5. slots[(HeadPos + (k + 1)) % N].own = "CON" <=> k + 1 < inflight
          BY <4>1 DEF OwnershipWindow
        <4> QED
          BY <1>0, <2>1, <2>3, <4>4, <4>5
      <3> QED
        BY <3>1, <3>2
    <2>6. OwnershipWindow'
      BY <2>4, <2>5 DEF OwnershipWindow
    <2>7. Progress'
      BY <1>0, <2>1 DEF Progress, TypeOK, Slot, NoSharedAccess
    <2> QED
      BY <2>2, <2>6, <2>7
  <1>7. CASE UNCHANGED vars
    BY <1>7 DEF vars, inVars, outVars, TypeOK, OwnershipWindow, HeadPos, TailPos, Progress
  <1> QED
    BY <1>1, <1>2, <1>3, <1>4, <1>5, <1>6, <1>7 DEF Next

(* The ownership bits always form the window between the consumer's and the   *)
(* producer's private index (SimbricksBaseIfOutAlloc/OutSend/InPoll/InDone).  *)
THEOREM RingWindow == Spec => []OwnershipWindow
  <1>1. Spec => []Inv
    BY InitInv, NextInv, PTL DEF Spec
  <1>2. Inv => OwnershipWindow
    BY DEF Inv
  <1> QED
    BY <1>1, <1>2, PTL

(* A slot under construction is invisible to the consumer and a slot being   *)
(* read is out of the producer's reach, whatever the interleaving.           *)
THEOREM RingNoSharedAccess == Spec => []NoSharedAccess
  <1>1. Spec => []Inv
    BY InitInv, NextInv, PTL DEF Spec
  <1> QED
    BY <1>1, InvNoSharedAccess, PTL

-----------------------------------------------------------------------------
(* Refinement. *)

Entry(p) == [hdr |-> slots[p].hdr, pay |-> slots[p].pay]

(* A step that leaves the head, the length and the handed-over slots alone    *)
(* leaves the channel alone.                                                  *)
LEMMA ChanUnchanged ==
  ASSUME Inv, HeadPos' = HeadPos, inflight' = inflight,
         \A p \in Pos : slots[p].own = "CON" =>
             slots'[p].hdr = slots[p].hdr /\ slots'[p].pay = slots[p].pay
  PROVE  chanBar' = chanBar
  <1> USE NAssumption
  <1>0. HeadPos \in Pos /\ inflight \in 0 .. N
    BY WindowEnds
  <1>1. ASSUME NEW k \in 1 .. inflight
        PROVE  /\ slots'[(HeadPos + k - 1) % N].hdr = slots[(HeadPos + k - 1) % N].hdr
               /\ slots'[(HeadPos + k - 1) % N].pay = slots[(HeadPos + k - 1) % N].pay
    <2>1. k - 1 \in 0 .. N - 1 /\ k - 1 < inflight /\ HeadPos + k - 1 = HeadPos + (k - 1)
      BY <1>0 DEF Pos
    <2>2. (HeadPos + (k - 1)) % N \in Pos
      BY <1>0, <2>1, ModWindow
    <2>3. slots[(HeadPos + (k - 1)) % N].own = "CON"
      BY <2>1 DEF Inv, OwnershipWindow
    <2> QED
      BY <2>1, <2>2, <2>3
  <1> QED
    BY <1>1 DEF chanBar

\* The empty ring is the empty channel.
LEMMA RefinesInit == Init => Fifo!ChanInit
  <1> SUFFICES ASSUME Init PROVE chanBar = << >>
    BY DEF Fifo!ChanInit
  <1>1. 1 .. inflight = {}
    BY DEF Init
  <1> QED
    BY <1>1 DEF chanBar

\* OutSend appends to the channel, InDone removes from it, and all other steps
\* leave it alone.
LEMMA RefinesNext == Inv /\ [Next]_vars => [Fifo!ChanNext]_(Fifo!ChanVars)
  <1> SUFFICES ASSUME Inv, [Next]_vars PROVE [Fifo!ChanNext]_(Fifo!ChanVars)
    OBVIOUS
  <1> USE NAssumption
  <1>0. /\ HeadPos \in Pos /\ TailPos \in Pos /\ inflight \in 0 .. N
        /\ slots[TailPos].own = "PRO" <=> inflight < N
        /\ NoSharedAccess
    BY WindowEnds, InvNoSharedAccess
  <1>1. ASSUME NEW m \in Data, OutAlloc(m) PROVE UNCHANGED <<chanBar, got>>
    <2>1. HeadPos' = HeadPos /\ inflight' = inflight /\ got' = got
      BY <1>1 DEF OutAlloc, inVars, HeadPos
    <2>2. ASSUME NEW p \in Pos, slots[p].own = "CON" PROVE slots'[p] = slots[p]
      BY <1>1, <2>2 DEF OutAlloc, Inv, TypeOK, Slot
    <2> QED
      BY <2>1, <2>2, ChanUnchanged
  <1>2. CASE Fill
    <2>1. HeadPos' = HeadPos /\ inflight' = inflight /\ got' = got
      BY <1>2 DEF Fill, inVars, HeadPos
    <2>2. ASSUME NEW p \in Pos, slots[p].own = "CON" PROVE slots'[p] = slots[p]
      BY <1>0, <1>2, <2>2 DEF Fill, Inv, TypeOK, Slot, NoSharedAccess
    <2>3. UNCHANGED <<chanBar, got>>
      BY <2>1, <2>2, ChanUnchanged
    <2> QED
      BY <2>3 DEF Fifo!ChanVars
  <1>4. CASE InPoll \/ Read \/ UNCHANGED vars
    <2>1. HeadPos' = HeadPos /\ inflight' = inflight /\ got' = got /\ slots' = slots
      BY <1>4 DEF InPoll, Read, vars, inVars, HeadPos
    <2>2. UNCHANGED <<chanBar, got>>
      BY <2>1, ChanUnchanged
    <2> QED
      BY <2>2 DEF Fifo!ChanVars
  <1>3. CASE OutSend
    <2>0. /\ HeadPos' = HeadPos /\ got' = got /\ TailPos = txmsg /\ tx # "idle"
          /\ inflight' = inflight + 1 /\ inflight < N
          /\ txmsg = (HeadPos + inflight) % N
          /\ slots[txmsg].hdr = txval /\ slots[txmsg].pay = txval /\ txval \in Data
      BY <1>3 DEF OutSend, inVars, HeadPos, TailPos, Inv, Progress, OwnershipWindow
    <2> DEFINE m == [hdr |-> txval, pay |-> txval]
    <2>1. ASSUME NEW p \in Pos
          PROVE  slots'[p].hdr = slots[p].hdr /\ slots'[p].pay = slots[p].pay
      BY <1>3 DEF OutSend, Inv, TypeOK, Slot
    <2>2. Len(chanBar) = inflight /\ Len(chanBar) < N
      BY <1>0, <2>0 DEF chanBar
    <2>3. ASSUME NEW k \in 1 .. inflight + 1
          PROVE  /\ (HeadPos + k - 1) % N \in Pos
                 /\ k = inflight + 1 => (HeadPos + k - 1) % N = txmsg
      <3>1. k - 1 \in 0 .. N /\ HeadPos + k - 1 = HeadPos + (k - 1)
        BY <1>0, <2>0 DEF Pos
      <3>2. (HeadPos + (k - 1)) % N \in Pos
        BY <1>0, <3>1, ModWindow
      <3>3. k = inflight + 1 => k - 1 = inflight
        BY <1>0
      <3> QED
        BY <2>0, <3>1, <3>2, <3>3
    <2>4. chanBar' = [k \in 1 .. inflight + 1 |-> Entry((HeadPos + k - 1) % N)]
      BY <2>0, <2>1, <2>3 DEF chanBar, Entry
    <2>5. chanBar' = Append(chanBar, m)
      <3>1. Append(chanBar, m) =
              [k \in 1 .. inflight + 1 |-> IF k = inflight + 1 THEN m ELSE chanBar[k]]
        BY <1>0, <2>2 DEF chanBar
      <3>2. ASSUME NEW k \in 1 .. inflight + 1
            PROVE  Entry((HeadPos + k - 1) % N) = IF k = inflight + 1 THEN m ELSE chanBar[k]
        BY <1>0, <2>0, <2>3 DEF Entry, chanBar
      <3> QED
        BY <2>4, <3>1, <3>2, Zenon
    <2>6. m \in Whole
      BY <2>0 DEF Whole
    <2>7. Fifo!Send(m)
      BY <2>0, <2>2, <2>5 DEF Fifo!Send
    <2> QED
      BY <2>6, <2>7 DEF Fifo!ChanNext
  <1>5. CASE InDone
    <2>0. /\ HeadPos = rxmsg /\ HeadPos' = (HeadPos + 1) % N /\ rx # "idle" /\ got' = rxval
          /\ inflight > 0 /\ inflight' = inflight - 1
          /\ rxval.hdr = slots[rxmsg].hdr /\ rxval.pay = slots[rxmsg].pay
          /\ rxval \in [hdr : Content, pay : Content]
      BY <1>5 DEF InDone, HeadPos, Inv, TypeOK, Progress
    <2>1. ASSUME NEW p \in Pos
          PROVE  slots'[p].hdr = slots[p].hdr /\ slots'[p].pay = slots[p].pay
      BY <1>5 DEF InDone, Inv, TypeOK, Slot
    <2>2. Len(chanBar) = inflight /\ chanBar # << >>
      BY <1>0, <2>0 DEF chanBar
    <2>3. got' = Head(chanBar)
      <3>1. (HeadPos + 1 - 1) % N = HeadPos
        BY <1>0 DEF Pos
      <3>2. Head(chanBar) = Entry(HeadPos)
        BY <1>0, <2>0, <2>2, <3>1 DEF chanBar, Entry
      <3> QED
        BY <2>0, <3>2 DEF Entry
    <2>4. ASSUME NEW k \in 1 .. inflight - 1
          PROVE  /\ (HeadPos' + k - 1) % N = (HeadPos + (k + 1) - 1) % N
                 /\ (HeadPos' + k - 1) % N \in Pos
      <3>1. k - 1 \in 0 .. N - 1
        BY <1>0
      <3>2. (((HeadPos + 1) % N) + (k - 1)) % N = (HeadPos + ((k - 1) + 1)) % N
        BY <1>0, <3>1, ModShift
      <3>3. (HeadPos + ((k - 1) + 1)) % N \in Pos
        BY <1>0, ModWindow
      <3>4. HeadPos' \in Int
        BY <1>0, <2>0, ModWindow DEF Pos
      <3> QED
        BY <1>0, <2>0, <3>2, <3>3, <3>4 DEF Pos
    <2>5. chanBar' = [k \in 1 .. inflight - 1 |-> Entry((HeadPos + (k + 1) - 1) % N)]
      BY <2>0, <2>1, <2>4 DEF chanBar, Entry
    <2>6. chanBar' = Tail(chanBar)
      <3>1. Tail(chanBar) = [k \in 1 .. inflight - 1 |-> chanBar[k + 1]]
        BY <1>0, <2>0, <2>2 DEF chanBar
      <3>2. ASSUME NEW k \in 1 .. inflight - 1
            PROVE  chanBar[k + 1] = Entry((HeadPos + (k + 1) - 1) % N)
        BY <1>0 DEF chanBar, Entry
      <3> QED
        BY <2>5, <3>1, <3>2
    <2>7. Fifo!Deliver
      BY <2>2, <2>3, <2>6 DEF Fifo!Deliver
    <2> QED
      BY <2>7 DEF Fifo!ChanNext
  <1> QED
    BY <1>1, <1>2, <1>3, <1>4, <1>5 DEF Next, Fifo!ChanVars

(* For every queue length the shared-memory ring implements the bounded FIFO *)
(* channel: no message is lost, duplicated, reordered or torn.               *)
THEOREM RingImplementsChannel == Spec => ImplementsChannel
  <1>1. Spec => []Inv
    BY InitInv, NextInv, PTL DEF Spec
  <1> QED
    BY <1>1, RefinesInit, RefinesNext, PTL DEF Spec, ImplementsChannel, Fifo!ChanSpec
=============================================================================
