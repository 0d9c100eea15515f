----------------------------- MODULE DistProxy -----------------------------
(***************************************************************************)
(* Two proxies of dist/ (common/base.c over the transport of sockets) that *)
(* join a simulator on one machine to a simulator on another.  Proxy       *)
(* "lis" serves the simulator that listens, proxy "con" the one that       *)
(* connects.  Each polls a local ring and ships its entries to the same    *)
(* positions of the ring on the other side.  Slots are given back late:    *)
(* the source reports how far it has written, the destination watches for  *)
(* slots that its simulator has freed and reports how far, and only then   *)
(* the source frees its own copies.                                        *)
(*                                                                         *)
(* One direction of one channel, from proxy src to proxy dst.  A report is *)
(* also sent when other channels or the other direction ask for one, which *)
(* may happen at any poll.  Of a proxy, the poll thread and the I/O thread *)
(* interleave.  The simulators see BaseRing queues; an access to a slot by *)
(* its owner is one step, and the content of a free slot is not kept.      *)
(* The connections do not break.  SockEvent waits for as many bytes as the *)
(* longest header has, 304; no message is shorter, as intros are padded    *)
(* and entries have 1600 bytes or more (the DefaultParams functions).      *)
(***************************************************************************)
EXTENDS Integers, Sequences

CONSTANTS Data, NoData,
          N,                      \* local_enum, cleanup_enum: entries of the rings
          kPollMax, kCleanupMax,  \* entries per poll
          kPollReportThreshold, kCleanReportThreshold,
          Word                    \* positions are unsigned integers modulo Word

Sides == {"lis", "con"}
Other(x) == IF x = "lis" THEN "con" ELSE "lis"
Pos == 0 .. N - 1

ASSUME DistAssumption ==
  /\ NoData \notin Data /\ {N, kPollMax} \subseteq Nat \ {0} /\ kCleanupMax \in Nat
  /\ Word \in Nat /\ Word > N

VARIABLES src,                 \* the side whose simulator sends
          accepted,            \* proxy con has accepted its simulator's connection
          introLocal,          \* introLocal[x]: intro_valid_local
          introRemote,         \* introRemote[x]: intro_valid_remote
          ready,               \* ready[x]
          introduced,          \* introduced[x]: the simulator of x has the peer's intro
          net,                 \* net[x]: the byte stream from proxy x to the other proxy
          local, cleanup,      \* the rings at src and at dst
          out_pos, in_pos,     \* positions of the simulators in them
          local_pos, local_pos_reported, local_pos_cleaned,
          freed,               \* where the I/O thread of src is in BasePeerReport
          cleanup_pos_next, cleanup_pos_last, cleanup_pos_reported,
          unread, got          \* history: entries not read yet, and the last one read

setupVars == <<accepted, introLocal, introRemote, ready, introduced>>
localVars == <<local_pos, local_pos_reported>>
cleanupVars == <<cleanup_pos_next, cleanup_pos_reported>>
simVars == <<out_pos, in_pos, unread, got>>
vars == <<src, setupVars, net, local, cleanup, localVars, local_pos_cleaned, freed,
          cleanupVars, cleanup_pos_last, simVars>>

dst == Other(src)
Empty == [own |-> "PRO", val |-> NoData]

Init == /\ src \in Sides
        /\ accepted = FALSE
        /\ introLocal = [x \in Sides |-> FALSE] /\ introRemote = [x \in Sides |-> FALSE]
        /\ ready = [x \in Sides |-> FALSE] /\ introduced = [x \in Sides |-> FALSE]
        /\ net = [x \in Sides |-> << >>]
        /\ local = [p \in Pos |-> Empty] /\ cleanup = [p \in Pos |-> Empty]
        /\ out_pos = 0 /\ in_pos = 0 /\ unread = 0 /\ got = NoData
        /\ local_pos = 0 /\ local_pos_reported = 0 /\ local_pos_cleaned = 0 /\ freed = 0
        /\ cleanup_pos_next = 0 /\ cleanup_pos_last = 0 /\ cleanup_pos_reported = 0

Send(x, m) == net' = [net EXCEPT ![x] = Append(@, m)]
Received(x) == net' = [net EXCEPT ![Other(x)] = Tail(@)]
Nothing == [type |-> "Nothing"]
Report(pos) == [type |-> "Report", pos |-> pos]
Incoming(x, type) == net[Other(x)] # << >> /\ Head(net[Other(x)]).type = type

-----------------------------------------------------------------------------
(* The I/O threads: introductions. *)

\* PeerAcceptEvent; an intro that came before the simulator did is sent now.
AcceptEvent ==
  /\ ~accepted /\ accepted' = TRUE
  /\ introduced' = [introduced EXCEPT !["con"] = introRemote["con"]]
  /\ UNCHANGED <<src, introLocal, introRemote, ready, net, local, cleanup, localVars,
                 local_pos_cleaned, freed, cleanupVars, cleanup_pos_last, simVars>>

\* BasePeerEvent: the intro of the simulator is passed on before ready is set.
PeerEvent(x) ==
  /\ ~introLocal[x] /\ (x = "con" => accepted)
  /\ introLocal' = [introLocal EXCEPT ![x] = TRUE]
  /\ Send(x, [type |-> "Intro"])
  /\ ready' = [ready EXCEPT ![x] = introRemote[x]]
  /\ UNCHANGED <<src, accepted, introRemote, introduced, local, cleanup, localVars,
                 local_pos_cleaned, freed, cleanupVars, cleanup_pos_last, simVars>>

\* SockMsgRxIntro with BasePeerSetupQueues and BasePeerSendIntro.
RxIntro(x) ==
  /\ Incoming(x, "Intro") /\ Received(x)
  /\ introRemote' = [introRemote EXCEPT ![x] = TRUE]
  /\ introduced' = [introduced EXCEPT ![x] = x = "con" => accepted]
  /\ ready' = [ready EXCEPT ![x] = introLocal[x]]
  /\ UNCHANGED <<src, accepted, introLocal, local, cleanup, localVars,
                 local_pos_cleaned, freed, cleanupVars, cleanup_pos_last, simVars>>

-----------------------------------------------------------------------------
(* The simulators. *)

Produce(m) ==
  /\ introLocal[src] /\ introduced[src] /\ local[out_pos].own = "PRO"
  /\ local' = [local EXCEPT ![out_pos] = [own |-> "CON", val |-> m]]
  /\ out_pos' = (out_pos + 1) % N /\ unread' = unread + 1
  /\ UNCHANGED <<src, setupVars, net, cleanup, localVars, local_pos_cleaned, freed,
                 cleanupVars, cleanup_pos_last, in_pos, got>>

Consume ==
  /\ introduced[dst] /\ cleanup[in_pos].own = "CON"
  /\ cleanup' = [cleanup EXCEPT ![in_pos] = Empty]
  /\ got' = cleanup[in_pos].val
  /\ in_pos' = (in_pos + 1) % N /\ unread' = unread - 1
  /\ UNCHANGED <<src, setupVars, net, local, localVars, local_pos_cleaned, freed,
                 cleanupVars, cleanup_pos_last, out_pos>>

-----------------------------------------------------------------------------
(* Mutants. *)

MayCleanUnwritten(i) == cleanup[(cleanup_pos_next + i) % N].own = "PRO"
DueLate(a, b, threshold) == ((a - b) % Word) % N > threshold

-----------------------------------------------------------------------------
(* The poll threads: BasePoll. *)

\* PollPeerTransfer goes on to the entry i after local_pos.
MayTransfer(i) == /\ local_pos + i < N
                  /\ (local_pos + i + 1) % N # local_pos_cleaned
                  /\ local[local_pos + i].own = "CON"
\* PollPeerCleanup goes on to the entry i after cleanup_pos_next.
MayClean(i) == /\ (cleanup_pos_next + i) % N # cleanup_pos_last
               /\ cleanup[(cleanup_pos_next + i) % N].own = "PRO"

\* As many entries as the loop handles, at most limit.
IsRun(n, limit, May(_)) ==
  n \in 0 .. limit /\ (\A i \in 0 .. n - 1 : May(i)) /\ (n < limit => ~May(n))

\* Unsigned subtraction of positions; N need not divide Word.
Due(a, b, threshold) == ((a - b) % Word) % N >= threshold

\* The proxy sends what there is of entries and of a report.
Pass(x, entries, report) ==
  net' = [net EXCEPT ![x] = @ \o SelectSeq(<<entries, report>>, LAMBDA m : m # Nothing)]

\* At src: PollPeerTransfer, and BaseOpPassReport if this channel or others ask
\* for it.  A report without news has no effect and is left out.
PollSrc(others) ==
  \E n \in 0 .. kPollMax :
    LET pos == (local_pos + n) % N
        report == others \/ (n > 0 /\ Due(pos, local_pos_reported, kPollReportThreshold)) IN
    /\ ready[src] /\ IsRun(n, kPollMax, MayTransfer)
    /\ others => pos # local_pos_reported
    /\ Pass(src, IF n = 0 THEN Nothing
                 ELSE [type |-> "Entries", pos |-> local_pos,
                       vals |-> [i \in 1 .. n |-> local[local_pos + i - 1].val]],
                 IF report THEN Report(pos) ELSE Nothing)
    /\ local_pos' = pos
    /\ local_pos_reported' = IF report THEN pos ELSE local_pos_reported
    /\ UNCHANGED <<src, setupVars, local, cleanup, local_pos_cleaned, freed, cleanupVars,
                   cleanup_pos_last, simVars>>

\* At dst: PollPeerCleanup, which handles one entry more than kCleanupMax.
PollDst(others) ==
  \E n \in 0 .. kCleanupMax + 1 :
    LET pos == (cleanup_pos_next + n) % N
        report == others \/ (n > 0 /\ Due(pos, cleanup_pos_reported, kCleanReportThreshold)) IN
    /\ ready[dst] /\ IsRun(n, kCleanupMax + 1, MayClean)
    /\ others => pos # cleanup_pos_reported
    /\ Pass(dst, Nothing, IF report THEN Report(pos) ELSE Nothing)
    /\ cleanup_pos_next' = pos
    /\ cleanup_pos_reported' = IF report THEN pos ELSE cleanup_pos_reported
    /\ UNCHANGED <<src, setupVars, local, cleanup, localVars, local_pos_cleaned, freed,
                   cleanup_pos_last, simVars>>

-----------------------------------------------------------------------------
(* The I/O threads: entries and reports. *)

\* SockMsgRxEntries, one BaseEntryReceived at a time.
RxEntry ==
  LET m == Head(net[src]) IN
  /\ Incoming(dst, "Entries")
  /\ cleanup' = [cleanup EXCEPT ![m.pos] = [own |-> "CON", val |-> Head(m.vals)]]
  /\ IF Len(m.vals) = 1 THEN Received(dst)
     ELSE net' = [net EXCEPT ![src][1] = [@ EXCEPT !.pos = @ + 1, !.vals = Tail(@)]]
  /\ UNCHANGED <<src, setupVars, local, localVars, local_pos_cleaned, freed, cleanupVars,
                 cleanup_pos_last, simVars>>

\* BasePeerReport at dst.
RxWritten ==
  /\ Incoming(dst, "Report") /\ Received(dst)
  /\ cleanup_pos_last' = Head(net[src]).pos
  /\ UNCHANGED <<src, setupVars, local, cleanup, localVars, local_pos_cleaned, freed,
                 cleanupVars, simVars>>

\* BasePeerReport at src: all slots up to the reported position are freed, then
\* local_pos_cleaned is set for the poll thread to see.
Behind(p, from, to) == (p - from) % N < (to - from) % N
RxCleaned ==
  LET clean == Head(net[dst]).pos IN
  /\ Incoming(src, "Report") /\ Received(src)
  /\ freed = local_pos_cleaned
  /\ local' = [p \in Pos |-> IF Behind(p, freed, clean) THEN Empty ELSE local[p]]
  /\ freed' = clean
  /\ UNCHANGED <<src, setupVars, cleanup, localVars, local_pos_cleaned, cleanupVars,
                 cleanup_pos_last, simVars>>

SetCleaned ==
  /\ freed # local_pos_cleaned
  /\ local_pos_cleaned' = freed
  /\ UNCHANGED <<src, setupVars, net, local, cleanup, localVars, freed, cleanupVars,
                 cleanup_pos_last, simVars>>

-----------------------------------------------------------------------------
Io(x) == \/ PeerEvent(x) \/ RxIntro(x)
         \/ x = "con" /\ AcceptEvent
         \/ x = dst /\ (RxEntry \/ RxWritten)
         \/ x = src /\ (RxCleaned \/ SetCleaned)

Next == \/ (\E m \in Data : Produce(m)) \/ Consume
        \/ (\E others \in BOOLEAN : PollSrc(others) \/ PollDst(others))
        \/ \E x \in Sides : Io(x)

Spec == Init /\ [][Next]_vars

\* The threads of the proxies keep running and the receiving simulator polls;
\* nothing obliges the sender to send or other channels to ask for reports.
FairSpec == /\ Spec
            /\ WF_vars(Consume) /\ WF_vars(PollSrc(FALSE)) /\ WF_vars(PollDst(FALSE))
            /\ \A x \in Sides : WF_vars(Io(x))

-----------------------------------------------------------------------------
(* Properties. *)

\* The two simulators cannot tell the proxies from a queue of N entries in
\* shared memory: what is sent is read once, in order, and never changed.
chanBar == [i \in 1 .. unread |-> local[(in_pos + i - 1) % N].val]
Chan == INSTANCE Channel WITH chan <- chanBar, Capacity <- N
ImplementsChannel == Chan!ChanSpec

\* What has been sent is read in the end.  Reports are only sent when a
\* threshold is reached, so this takes rings of at least two thresholds:
\* otherwise both sides wait for a report the other one does not owe yet.
EntriesArrive == \A p \in Pos : unread > 0 /\ in_pos = p ~> in_pos # p

=============================================================================
