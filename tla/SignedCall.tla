------------------------------ MODULE SignedCall ------------------------------
(* How a device has an operation done on its permanent spaces: it asks the       *)
(* server for a challenge that names the operation, signs it and sends it with   *)
(* the operation (spaces/client.rs, device/key.rs).  The server keeps challenges *)
(* (device.rs), a bounded number of handlers (spaces/server.rs) and one thread   *)
(* behind a bounded queue that runs operations on the database                   *)
(* (storage/worker.rs).  A client waits for an answer for so long; its requests  *)
(* go on without it.                                                             *)
(*                                                                               *)
(* What the operations do is SpaceStore's; here an operation fails or makes      *)
(* something, and one that carries a request id leaves a receipt, which goes     *)
(* with the space or the membership it was for.  Requests are delayed for ever,  *)
(* repeated or changed on the way.  Keys and hashes are what they stand for.     *)
EXTENDS Naturals, Sequences, FiniteSets

CONSTANTS
    Device,
    Request,        \* request ids, and Anew for an operation without one
    Anew, None,
    Ttl,            \* a challenge lives this long, 60 s
    Capacity,       \* challenges kept, 1024
    Slots,          \* handlers at once, 32
    QueueCap,       \* tasks that wait for the database, 64
    MaxCalls,       \* bound: calls made
    MaxRepeats,     \* bound: requests that arrive twice, or changed
    MaxClock        \* bound: the time

ASSUME LimitsAssumption == {Ttl, Capacity, Slots, QueueCap} \subseteq Nat
ASSUME CountsAssumption == {MaxCalls, MaxRepeats, MaxClock} \subseteq Nat

VARIABLES
    calls,          \* a call: [at, device, op, nonce]
    messages,       \* requests and answers under way
    pending,        \* Challenges: [nonce, device, op, expires]
    issued,         \* nonces drawn
    handlers,       \* execute: calls that hold a slot and wait for the database
    queue,          \* tasks of the database thread: [call, nonce, device, op]
    receipts,       \* creation_requests, redemptions: what was made for a request id
    made,           \* history: what operations made: [nonce, device, op]
    runs,           \* history: tasks that ran
    repeats, clock

clientVars == <<calls>>
serverVars == <<pending, issued, handlers, queue, receipts, made, runs>>
callVars == <<clientVars, messages, serverVars, repeats, clock>>

Call == 1 .. MaxCalls
NoCall == [at |-> "none", device |-> None, op |-> None, nonce |-> 0]
Ask(c) == [kind |-> "ask", call |-> c]
Challenged(c, nonce) == [kind |-> "challenge", call |-> c, nonce |-> nonce]
Execute(c, op) == [kind |-> "execute", call |-> c, op |-> op]
Answer(c, result) == [kind |-> "answer", call |-> c, result |-> result]

CallInit ==
    /\ calls = [c \in Call |-> NoCall] /\ messages = {}
    /\ pending = {} /\ issued = 0 /\ handlers = {} /\ queue = <<>>
    /\ receipts = {} /\ made = {} /\ runs = {} /\ repeats = 0 /\ clock = 0

-----------------------------------------------------------------------------
(* The client *)

Waits(c) == calls[c].at \in {"asked", "executed"}
Begin(c) ==
    /\ calls[c] = NoCall /\ \A b \in Call : b < c => calls[b] # NoCall
    /\ \E d \in Device, op \in Request \cup {Anew} :
          calls' = [calls EXCEPT ![c] = [at |-> "asked", device |-> d, op |-> op, nonce |-> 0]]
    /\ messages' = messages \cup {Ask(c)} /\ UNCHANGED <<serverVars, repeats, clock>>
Sign(m) ==
    /\ m.kind = "challenge" /\ calls[m.call].at = "asked"
    /\ calls' = [calls EXCEPT ![m.call].at = "executed", ![m.call].nonce = m.nonce]
    /\ messages' = (messages \ {m}) \cup {Execute(m.call, calls[m.call].op)}
    /\ UNCHANGED <<serverVars, repeats, clock>>
HearAnswer(m) ==
    /\ m.kind = "answer" /\ Waits(m.call)
    /\ calls' = [calls EXCEPT ![m.call].at = m.result]
    /\ messages' = messages \ {m} /\ UNCHANGED <<serverVars, repeats, clock>>
\* Fifteen seconds, or an error of the connection: what was for the client is lost.
GiveUp(c) ==
    /\ Waits(c) /\ calls' = [calls EXCEPT ![c].at = "lost"]
    /\ messages' = {m \in messages : m.call = c => m.kind \in {"ask", "execute"}}
    /\ UNCHANGED <<serverVars, repeats, clock>>

-----------------------------------------------------------------------------
(* The server *)

Busy == Cardinality(handlers) >= Slots
\* A request is taken; it may come again.  Who has given up hears no answer.
Heard(answers) == {m \in answers : Waits(m.call)}
Take(m, answers) ==
    \/ messages' = (messages \ {m}) \cup Heard(answers) /\ UNCHANGED repeats
    \/ repeats < MaxRepeats /\ repeats' = repeats + 1 /\ messages' = messages \cup Heard(answers)
Refuse(m) == Take(m, {Answer(m.call, "refused")})

\* A signed request is changed on the way: its signature is for another operation.
Alter(m) ==
    /\ m.kind = "execute" /\ repeats < MaxRepeats /\ repeats' = repeats + 1
    /\ \E op \in (Request \cup {Anew}) \ {m.op} : messages' = (messages \ {m}) \cup {Execute(m.call, op)}
    /\ UNCHANGED <<clientVars, serverVars, clock>>

Issue(m) ==
    /\ m.kind = "ask"
    /\ LET kept == {p \in pending : p.expires > clock}
           call == calls[m.call]
       IN IF Busy THEN Refuse(m) /\ UNCHANGED <<pending, issued>>
          ELSE IF Cardinality(kept) >= Capacity
               THEN Refuse(m) /\ pending' = kept /\ UNCHANGED issued
               ELSE /\ issued' = issued + 1
                    /\ pending' = kept \cup {[nonce |-> issued', device |-> call.device,
                                              op |-> call.op, expires |-> clock + Ttl]}
                    /\ Take(m, {Challenged(m.call, issued')})
    /\ UNCHANGED <<clientVars, handlers, queue, receipts, made, runs, clock>>

\* Every attempt consumes the challenge.  Mutant: one that succeeds does not.
Unconsumed(nonce) == {p \in pending : p.nonce = nonce => clock < p.expires}
Consumed(nonce) == {p \in pending : p.nonce # nonce}
\* The challenge is for what has come, and the signature, made for call, is for the challenge.
Proven(call, op) == \E p \in pending :
    /\ p.nonce = call.nonce /\ clock < p.expires /\ p.op = op
    /\ p.device = call.device /\ p.op = call.op
\* A creation needs the server's password too.
Verify(m) ==
    /\ m.kind = "execute"
    /\ LET call == calls[m.call]
       IN IF Busy THEN Refuse(m) /\ UNCHANGED <<pending, handlers, queue>>
          ELSE /\ pending' = Consumed(call.nonce)
               /\ \/ /\ Proven(call, m.op) /\ Len(queue) < QueueCap
                     /\ queue' = Append(queue, [call |-> m.call, nonce |-> call.nonce,
                                                device |-> call.device, op |-> m.op])
                     /\ handlers' = handlers \cup {[call |-> m.call, nonce |-> call.nonce]}
                     /\ Take(m, {})
                  \/ /\ Proven(call, m.op) /\ Len(queue) < QueueCap => m.op \in Request
                     /\ Refuse(m) /\ UNCHANGED <<handlers, queue>>
    /\ UNCHANGED <<clientVars, issued, receipts, made, runs, clock>>

\* The thread runs the next task and answers the handler, if that is still there; it goes
\* on without.  Mutant: it does not.
GoesOnIfHeard(t) == [call |-> t.call, nonce |-> t.nonce] \in handlers
GoesOn(t) == TRUE
\* A repeated request id is answered by what was made for it.  Mutant: it is not known.
NeverMade(t) == FALSE
MadeBefore(t) == t.op # Anew /\ \E x \in receipts : x.device = t.device /\ x.op = t.op
Make(t) ==
    LET x == [nonce |-> t.nonce, device |-> t.device, op |-> t.op]
    IN  IF MadeBefore(t) THEN UNCHANGED <<receipts, made>>
        ELSE /\ made' = made \cup {x}
             /\ receipts' = IF t.op = Anew THEN receipts ELSE receipts \cup {x}
\* It fails: nothing is made, or something after it fails.
RunTask ==
    /\ queue # <<>> /\ GoesOn(Head(queue)) /\ queue' = Tail(queue)
    /\ LET t == Head(queue)
           handler == [call |-> t.call, nonce |-> t.nonce]
       IN /\ runs' = runs \cup {t} /\ handlers' = handlers \ {handler}
          /\ \E result \in {"done", "refused"} :
                /\ \/ Make(t)
                   \/ result = "refused" /\ UNCHANGED <<receipts, made>>
                /\ messages' = IF handler \in handlers
                                  THEN messages \cup Heard({Answer(t.call, result)}) ELSE messages
    /\ UNCHANGED <<clientVars, pending, issued, repeats, clock>>

\* A space is deleted or expires, a member leaves or is removed: the receipt goes with it.
Forget(x) ==
    /\ receipts' = receipts \ {x}
    /\ UNCHANGED <<clientVars, messages, pending, issued, handlers, queue, made, runs, repeats, clock>>

\* The client is gone: the handler is dropped with its slot, the task is not.
Abandon(h) ==
    /\ ~Waits(h.call) /\ handlers' = handlers \ {h}
    /\ UNCHANGED <<clientVars, messages, pending, issued, queue, receipts, made, runs, repeats, clock>>

Tick == clock < MaxClock /\ clock' = clock + 1 /\ UNCHANGED <<clientVars, messages, serverVars, repeats>>

-----------------------------------------------------------------------------
CallNext ==
    \/ RunTask \/ Tick
    \/ \E c \in Call : Begin(c) \/ GiveUp(c)
    \/ \E m \in messages : Sign(m) \/ HearAnswer(m) \/ Alter(m) \/ Issue(m) \/ Verify(m)
    \/ \E x \in receipts : Forget(x)
    \/ \E h \in handlers : Abandon(h)

\* The database thread runs.
CallFairness == WF_callVars(RunTask)
CallSpec == CallInit /\ [][CallNext]_callVars /\ CallFairness

-----------------------------------------------------------------------------
(* Properties *)

CallTypeOK ==
    /\ \A c \in Call : calls[c].at \in {"none", "asked", "executed", "done", "refused", "lost"}
    /\ Cardinality(pending) <= Capacity /\ Cardinality(handlers) <= Slots /\ Len(queue) <= QueueCap

\* A signature gets one run at most, of the operation that was signed by the device that
\* signed it, whatever is repeated, changed, late, or given up by the client.
OncePerSignature ==
    LET tasks == runs \cup {queue[i] : i \in DOMAIN queue}
    IN /\ \A t \in tasks : /\ calls[t.call].nonce = t.nonce
                           /\ calls[t.call].device = t.device /\ calls[t.call].op = t.op
       /\ \A i, j \in DOMAIN queue : queue[i].nonce = queue[j].nonce => i = j
       /\ \A i \in DOMAIN queue, t \in runs : queue[i].nonce # t.nonce

\* However often a client that got no answer, or an error, tries again with its request
\* id, and in whatever order its attempts are served, what it wants is there once: it is
\* made again only when what was made before is gone, as by an attempt that comes after
\* its space was deleted.  And an answer that it is done is true.
MadeOnce ==
    /\ \A x, y \in receipts : x.op = y.op /\ x.device = y.device => x = y
    /\ \A c \in Call : calls[c].at = "done" =>
          \E x \in made : x.device = calls[c].device /\ x.op = calls[c].op

\* A slot is held for a task that waits, and for nothing else.
SlotsAreUsed == \A h \in handlers : \E i \in DOMAIN queue :
    queue[i].call = h.call /\ queue[i].nonce = h.nonce

CallsAreSound == CallTypeOK /\ OncePerSignature /\ MadeOnce /\ SlotsAreUsed

\* A slot comes back, whoever has gone while tasks waited for the database.
SlotsComeBack == \A c \in Call : (\E h \in handlers : h.call = c) ~> (\A h \in handlers : h.call # c)
=============================================================================
