------------------------------ MODULE RpmsgIpc ------------------------------
(***************************************************************************)
(* The STM32MP257 side of RPMsg: ipc.c's three threads and the endpoint of   *)
(* rpmsg_processor.c.  Linux puts messages into shared buffers; an interrupt  *)
(* wakes rpmsg_mng_task, which hands each one to its endpoint's callback.     *)
(*                                                                           *)
(* The threads are cooperative and rpmsg_mng_task is the lowest.  One loses   *)
(* the processor only where it waits: for its semaphore, or in rpmsg_send     *)
(* for a transmit buffer.  An action goes from wait to wait, except that      *)
(* rpmsg_mng_task takes one message at a time, in which nobody else runs.     *)
(*                                                                           *)
(* External: OpenAMP (buffers, their being held, waiting 15 s for a transmit  *)
(* buffer) and what vehicle_control_manager_submit_command returns: the       *)
(* build of this board does not contain it.                                   *)
(***************************************************************************)
EXTENDS Integers, Sequences, FiniteSets

CONSTANTS
    Buffers,        \* receive buffers in shared memory
    TxBuffers,      \* the number of transmit buffers
    ReplyLimit,     \* 100 in app_rpmsg_client_sample
    Sizes,          \* the lengths of tty messages
    MaxMessages,    \* bound on the messages sent
    NONE            \* NULL

ASSUME RpmsgAssumption ==
    /\ NONE \notin Buffers /\ IsFiniteSet(Buffers)
    /\ {TxBuffers, ReplyLimit, MaxMessages} \subseteq Nat \ {0}
    /\ Sizes \subseteq Nat

Thread == {"sc", "tty"}

VARIABLES
    mng,            \* where rpmsg_mng_task is
    thread,         \* where app_rpmsg_client_sample and app_rpmsg_tty are
    sem,            \* data_sem, data_sc_sem, data_tty_sem
    kicked,         \* the mailbox interrupt is pending
    endpoints,      \* the endpoints that exist
    avail,          \* receive buffers Linux may fill
    ring,           \* filled buffers
    held,           \* buffers held back by rpmsg_hold_rx_buffer
    tx,             \* transmit buffers that are free
    sc_msg,         \* the message copied to rx_sc_msg
    tty_msg,
    out,            \* the message app_rpmsg_tty waits to answer
    msg_cnt,
    \* history
    sent,           \* the endpoint of each message sent
    replies, acks,  \* what was answered
    dropped,        \* answers given up
    unlucky         \* tty messages that were empty or met another one

linux == <<kicked, sent>>
buffers == <<avail, ring, held>>
messages == <<sc_msg, tty_msg, out, msg_cnt>>
answers == <<replies, acks, dropped, unlucky>>
vars == <<mng, thread, sem, kicked, endpoints, avail, ring, held, tx, sc_msg, tty_msg,
          out, msg_cnt, sent, replies, acks, dropped, unlucky>>

\* Messages are numbered; zero is none.
NoMessage == [buffer |-> NONE, id |-> 0, size |-> 0]

Init ==
    /\ mng = "boot" /\ thread = [t \in Thread |-> "starting"]
    /\ sem = [s \in Thread \cup {"data"} |-> 0] /\ kicked = FALSE /\ endpoints = {}
    /\ avail = Buffers /\ ring = <<>> /\ held = {} /\ tx = TxBuffers
    /\ sc_msg = 0 /\ tty_msg = NoMessage /\ out = 0 /\ msg_cnt = 0
    /\ sent = <<>> /\ replies = [t \in Thread |-> <<>>] /\ acks = <<>>
    /\ dropped = {} /\ unlucky = {}
-----------------------------------------------------------------------------
(* Linux *)

\* A message to an endpoint that was announced, and the mailbox interrupt.
LinuxSends(to, size) ==
    /\ Len(sent) < MaxMessages /\ to \in endpoints
    /\ sent' = Append(sent, to)
    /\ \E b \in avail :
        /\ avail' = avail \ {b}
        /\ ring' = Append(ring, [buffer |-> b, id |-> Len(sent) + 1, to |-> to,
                                 size |-> size])
    /\ kicked' = TRUE
    /\ UNCHANGED <<mng, thread, sem, endpoints, held, tx, messages, answers>>

LinuxReads ==
    /\ tx < TxBuffers /\ tx' = tx + 1
    /\ UNCHANGED <<mng, thread, sem, endpoints, linux, buffers, messages, answers>>

\* platform_ipm_callback.  k_sem_give hands over to a thread that waits.
Interrupt ==
    /\ kicked /\ mng # "ended" /\ kicked' = FALSE
    /\ IF mng = "waiting" THEN mng' = "woken" /\ UNCHANGED sem
                          ELSE sem' = [sem EXCEPT !["data"] = 1] /\ UNCHANGED mng
    /\ UNCHANGED <<thread, endpoints, buffers, tx, messages, sent, answers>>
-----------------------------------------------------------------------------
(* rpmsg_mng_task *)

\* k_sem_take(&data_sem) at the head of receive_message.
TakeDataSem(before) ==
    IF before["data"] = 1
    THEN mng' = "dispatching" /\ sem' = [before EXCEPT !["data"] = 0]
    ELSE mng' = "waiting" /\ sem' = before

\* Creates the vehicle endpoint, starts the other two threads and listens; or
\* any step before fails, cleanup_system undoes what was done, and the thread ends.
MngBoots ==
    /\ mng = "boot"
    /\ \/ /\ endpoints' = {"cmd"}
          /\ TakeDataSem([sem EXCEPT !["sc"] = 1, !["tty"] = 1])
       \/ mng' = "ended" /\ UNCHANGED <<sem, endpoints>>
    /\ UNCHANGED <<thread, linux, buffers, tx, messages, answers>>

MngWakes ==
    /\ mng = "woken" /\ \A t \in Thread : thread[t] # "woken"
    /\ mng' = "dispatching"
    /\ UNCHANGED <<thread, sem, endpoints, linux, buffers, tx, messages, answers>>

\* Mutant: the semaphore counts the messages.
GiveUncapped(t) ==
    IF thread[t] = "waiting"
    THEN thread' = [thread EXCEPT ![t] = "woken"] /\ UNCHANGED sem
    ELSE sem' = [sem EXCEPT ![t] = @ + 1] /\ UNCHANGED thread

\* k_sem_give(&data_sc_sem), k_sem_give(&data_tty_sem)
Give(t) ==
    IF thread[t] = "waiting"
    THEN thread' = [thread EXCEPT ![t] = "woken"] /\ UNCHANGED sem
    ELSE sem' = [sem EXCEPT ![t] = 1] /\ UNCHANGED thread

Next1 == Head(ring)
Dispatching(to) ==
    mng = "dispatching" /\ ring # <<>> /\ Next1.to = to /\ to \in endpoints

\* OpenAMP gives the buffer back after the callback.
ReturnBuffer == ring' = Tail(ring) /\ avail' = avail \cup {Next1.buffer}

\* rpmsg_recv_cs_callback copies over whatever sc_msg was.  The copy is of any length
\* (ipc.c:104) into twenty bytes (ipc.c:83); messages here have the twelve bytes of
\* "Hello world!" for which these are meant, so that they always fit.
DispatchClient ==
    /\ Dispatching("sc")
    /\ sc_msg' = Next1.id
    /\ Give("sc") /\ ReturnBuffer
    /\ UNCHANGED <<mng, endpoints, held, tx, tty_msg, out, msg_cnt, linux, answers>>

Meets == IF tty_msg.buffer = NONE THEN {} ELSE {tty_msg.id, Next1.id}

\* Mutant: the buffer is not held.
DispatchTtyUnheld ==
    /\ Dispatching("tty")
    /\ tty_msg' = [buffer |-> Next1.buffer, id |-> Next1.id, size |-> Next1.size]
    /\ unlucky' = unlucky \cup Meets \cup (IF Next1.size = 0 THEN {Next1.id} ELSE {})
    /\ Give("tty") /\ ReturnBuffer
    /\ UNCHANGED <<mng, endpoints, held, tx, sc_msg, out, msg_cnt, linux, replies, acks,
                   dropped>>

\* rpmsg_recv_tty_callback keeps the buffer, and forgets the one it kept before.
DispatchTty ==
    /\ Dispatching("tty")
    /\ tty_msg' = [buffer |-> Next1.buffer, id |-> Next1.id, size |-> Next1.size]
    /\ unlucky' = unlucky \cup Meets \cup (IF Next1.size = 0 THEN {Next1.id} ELSE {})
    /\ Give("tty")
    /\ ring' = Tail(ring) /\ held' = held \cup {Next1.buffer}
    /\ UNCHANGED <<mng, endpoints, avail, tx, sc_msg, out, msg_cnt, linux, replies, acks,
                   dropped>>

\* The endpoint was destroyed while the message was on its way.
DispatchNobody ==
    /\ mng = "dispatching" /\ ring # <<>> /\ Next1.to \notin endpoints
    /\ ReturnBuffer
    /\ UNCHANGED <<mng, thread, sem, endpoints, held, tx, messages, linux, answers>>

\* vehicle_cmd_rpmsg_cb checks the command, may submit it, and on every path calls
\* vehicle_send_ack once, which finds a transmit buffer or waits for one.
DispatchCommand ==
    /\ Dispatching("cmd")
    /\ IF tx > 0
       THEN /\ acks' = Append(acks, Next1.id) /\ tx' = tx - 1
            /\ ReturnBuffer /\ UNCHANGED mng
       ELSE mng' = "acking" /\ UNCHANGED <<acks, tx, avail, ring>>
    /\ UNCHANGED <<thread, sem, endpoints, held, messages, linux, replies, dropped, unlucky>>

\* The wait ends with a buffer, or after 15 s without one; nobody looks at the
\* result.
MngAcks ==
    /\ mng = "acking" /\ \A t \in Thread : thread[t] # "woken"
    /\ IF tx > 0
       THEN acks' = Append(acks, Next1.id) /\ tx' = tx - 1 /\ UNCHANGED dropped
       ELSE dropped' = dropped \cup {Next1.id} /\ UNCHANGED <<acks, tx>>
    /\ ReturnBuffer /\ mng' = "dispatching"
    /\ UNCHANGED <<thread, sem, endpoints, held, messages, linux, replies, unlucky>>

\* Mutant: the ring is not looked through to its end.
DispatchEndsEarly ==
    /\ mng = "dispatching"
    /\ TakeDataSem(sem)
    /\ UNCHANGED <<thread, endpoints, linux, buffers, tx, messages, answers>>

\* Interrupts that came together, or during the dispatch, count once: the ring has
\* been emptied.
DispatchEnds ==
    /\ mng = "dispatching" /\ ring = <<>>
    /\ TakeDataSem(sem)
    /\ UNCHANGED <<thread, endpoints, linux, buffers, tx, messages, answers>>

MngStep == \/ MngBoots \/ MngWakes \/ DispatchClient \/ DispatchTty \/ DispatchNobody
           \/ DispatchCommand \/ MngAcks \/ DispatchEnds
-----------------------------------------------------------------------------
(* app_rpmsg_client_sample and app_rpmsg_tty *)

Runs(t, at) == thread[t] = at /\ mng # "dispatching"

\* The first take is the start signal; an endpoint that cannot be created ends
\* the thread.
ThreadStarts(t) ==
    /\ Runs(t, "starting") /\ sem[t] = 1 /\ sem' = [sem EXCEPT ![t] = 0]
    /\ \/ thread' = [thread EXCEPT ![t] = "waiting"] /\ endpoints' = endpoints \cup {t}
       \/ thread' = [thread EXCEPT ![t] = "ended"] /\ UNCHANGED endpoints
    /\ UNCHANGED <<mng, linux, buffers, tx, messages, answers>>

\* k_sem_take in the loop
TakeAgain(t) ==
    /\ thread' = [thread EXCEPT ![t] = IF sem[t] = 1 THEN "woken" ELSE "waiting"]
    /\ sem' = [sem EXCEPT ![t] = 0]

\* while (msg_cnt < 100), and rpmsg_destroy_ept
ClientLoops(count) ==
    IF count < ReplyLimit
    THEN TakeAgain("sc") /\ UNCHANGED endpoints
    ELSE /\ thread' = [thread EXCEPT !["sc"] = "ended"]
         /\ endpoints' = endpoints \ {"sc"} /\ UNCHANGED sem

\* rpmsg_send copies what sc_msg holds when it has a buffer to copy it to.
ReplyClient ==
    /\ tx > 0 /\ tx' = tx - 1
    /\ replies' = [replies EXCEPT !["sc"] = Append(@, sc_msg)]

ClientRuns ==
    /\ Runs("sc", "woken")
    /\ msg_cnt' = msg_cnt + 1
    /\ IF tx > 0
       THEN ReplyClient /\ ClientLoops(msg_cnt + 1)
       ELSE /\ thread' = [thread EXCEPT !["sc"] = "sending"]
            /\ UNCHANGED <<sem, endpoints, tx, replies>>
    /\ UNCHANGED <<mng, linux, buffers, sc_msg, tty_msg, out, acks, dropped, unlucky>>

ClientSends ==
    /\ Runs("sc", "sending")
    /\ IF tx > 0 THEN ReplyClient /\ UNCHANGED dropped
                 ELSE dropped' = dropped \cup {sc_msg} /\ UNCHANGED <<tx, replies>>
    /\ ClientLoops(msg_cnt)
    /\ UNCHANGED <<mng, linux, buffers, messages, acks, unlucky>>

ReplyTty(id) ==
    /\ tx > 0 /\ tx' = tx - 1
    /\ replies' = [replies EXCEPT !["tty"] = Append(@, id)]

\* Mutant: len and data are left as they are.
FinishTtyKeeps ==
    /\ avail' = avail \cup {tty_msg.buffer} /\ held' = held \ {tty_msg.buffer}
    /\ TakeAgain("tty") /\ UNCHANGED tty_msg

\* rpmsg_release_rx_buffer of the present data, len = 0, data = NULL and the next
\* k_sem_take.
FinishTty ==
    /\ avail' = avail \cup {tty_msg.buffer} /\ held' = held \ {tty_msg.buffer}
    /\ TakeAgain("tty") /\ tty_msg' = NoMessage

\* The answer is put together from the message before it waits for a buffer.
TtyRuns ==
    /\ Runs("tty", "woken") /\ tty_msg.size > 0
    /\ IF tx > 0
       THEN ReplyTty(tty_msg.id) /\ FinishTty /\ UNCHANGED out
       ELSE /\ thread' = [thread EXCEPT !["tty"] = "sending"]
            /\ out' = tty_msg.id
            /\ UNCHANGED <<sem, tx, replies, avail, held, tty_msg>>
    /\ UNCHANGED <<mng, endpoints, linux, ring, sc_msg, msg_cnt, acks, dropped, unlucky>>

\* len is zero: the message was empty, or was finished off with an earlier one.
TtySkips ==
    /\ Runs("tty", "woken") /\ tty_msg.size = 0
    /\ TakeAgain("tty") /\ tty_msg' = NoMessage
    /\ UNCHANGED <<mng, endpoints, linux, buffers, tx, sc_msg, out, msg_cnt, answers>>

TtySends ==
    /\ Runs("tty", "sending")
    /\ IF tx > 0 THEN ReplyTty(out) /\ UNCHANGED dropped
                 ELSE dropped' = dropped \cup {out} /\ UNCHANGED <<tx, replies>>
    /\ FinishTty /\ out' = 0
    /\ UNCHANGED <<mng, endpoints, linux, ring, sc_msg, msg_cnt, acks, unlucky>>

ThreadStep(t) ==
    \/ ThreadStarts(t)
    \/ t = "sc" /\ (ClientRuns \/ ClientSends)
    \/ t = "tty" /\ (TtyRuns \/ TtySkips \/ TtySends)

Next ==
    \/ LinuxSends("cmd", 24) \/ LinuxSends("sc", 12)
    \/ \E n \in Sizes : LinuxSends("tty", n)
    \/ LinuxReads \/ Interrupt
    \/ MngStep
    \/ \E t \in Thread : ThreadStep(t)

Spec == Init /\ [][Next]_vars

\* Interrupts come, and the processor idles only when every thread waits.  Linux
\* need not read what it is sent.
FairSpec == /\ Spec
            /\ WF_vars(Interrupt) /\ WF_vars(MngStep)
            /\ \A t \in Thread : WF_vars(ThreadStep(t))
-----------------------------------------------------------------------------
(* What must hold of messages and their buffers *)

\* Every variable keeps its type; the semaphores never count beyond one and the
\* client stops at its limit.
TypeOK ==
    /\ mng \in {"boot", "waiting", "woken", "dispatching", "acking", "ended"}
    /\ thread \in [Thread -> {"starting", "waiting", "woken", "sending", "ended"}]
    /\ sem \in [Thread \cup {"data"} -> 0..1] /\ kicked \in BOOLEAN
    /\ endpoints \subseteq {"cmd", "sc", "tty"}
    /\ avail \subseteq Buffers /\ held \subseteq Buffers /\ tx \in 0..TxBuffers
    /\ \A i \in DOMAIN ring : ring[i].buffer \in Buffers /\ ring[i].id \in Nat
    /\ tty_msg \in [buffer : Buffers \cup {NONE}, id : Nat, size : Nat]
    /\ sc_msg \in Nat /\ out \in Nat /\ msg_cnt \in 0..ReplyLimit
    /\ sent \in Seq({"cmd", "sc", "tty"})

Filled == {ring[i].buffer : i \in DOMAIN ring}

\* A receive buffer is in one place: Linux may fill it, or it is filled, or the
\* tty keeps it.  The tty reads only a buffer it keeps and gives none back twice,
\* even if the message changes while it waits to answer; and a buffer is kept for
\* ever only after messages that were empty or came too close together.
BuffersAccounted ==
    /\ Buffers = avail \cup Filled \cup held
    /\ avail \cap Filled = {} /\ avail \cap held = {} /\ Filled \cap held = {}
    /\ \A i, j \in DOMAIN ring : ring[i].buffer = ring[j].buffer => i = j
    /\ tty_msg.size > 0 \/ thread["tty"] = "sending" => tty_msg.buffer \in held
    /\ Cardinality(held \ {tty_msg.buffer}) <= Cardinality(unlucky)

Increasing(s) == \A i, j \in DOMAIN s : i < j => s[i] < s[j]

\* Every command is acknowledged at most once and every tty message answered at
\* most once, in the order sent.  The client's answers may skip a message that
\* another one overwrote, and give the later one in its place, but never an older
\* one again, and none more than twice.
AnswersInOrder ==
    /\ Increasing(acks) /\ Increasing(replies["tty"])
    /\ \A i, j \in DOMAIN replies["sc"] : i < j =>
          /\ replies["sc"][i] <= replies["sc"][j]
          /\ j >= i + 2 => replies["sc"][i] # replies["sc"][j]

InSeq(s, id) == \E i \in DOMAIN s : s[i] = id

Answered(id) ==
    \/ id \in dropped \cup unlucky
    \/ InSeq(acks, id) \/ InSeq(replies["tty"], id)
    \/ id \in DOMAIN sent /\ sent[id] = "sc" /\
       (\/ \E i \in DOMAIN replies["sc"] : replies["sc"][i] >= id
        \/ \E d \in dropped : d > id /\ sent[d] = "sc"
        \/ thread["sc"] = "ended")

\* Interrupts and semaphores that merge lose nothing: every message is dispatched
\* and answered (the client's perhaps by the answer to a later one), unless the
\* answer was given up for want of a transmit buffer, the client has ended, or the
\* tty message was empty or met another one.
EveryMessageAnswered ==
    \A id \in 1..MaxMessages : Len(sent) >= id ~> Answered(id)

=============================================================================
