-------------------------- MODULE DataDestinations --------------------------
(***************************************************************************)
(* The output side of a node: dataDestinations and the pipes it writes to  *)
(* (core/pipe.go).  Goroutines of the node call Write, other nodes connect *)
(* to it (Input), receive from their pipes and close them, and the node    *)
(* pauses, resumes and closes its output.                                  *)
(*                                                                         *)
(* Two reader/writer locks order these steps.  A Write holds the read lock *)
(* of the destinations from Enter to its last send, so that every action   *)
(* made under the write lock (Quiet) waits for it, and the read lock of a  *)
(* pipe while it sends to it (cur), so that closing the pipe waits too.    *)
(* Goroutines the code starts and does not wait for are pending sets.      *)
(*                                                                         *)
(* A tuple is <<w, k>>: the k-th one writer w writes.  A map from names to *)
(* pipes is a set of pipes, NameOf giving the key of each.                 *)
(***************************************************************************)
EXTENDS Naturals, Sequences, FiniteSets

CONSTANTS
    Name,            \* names of the connected nodes, keys of dsts
    Sender,          \* pipes; each one is made by one Input call
    NameOf,          \* the name a pipe is registered under
    None,            \* no pipe
    Writer,          \* goroutines calling Write
    MaxTuple,        \* bound, per goroutine: its number of Write calls
    Capacity,        \* capacity of the pipes
    InputMayFail     \* whether dataSources.add may refuse a pipe

ASSUME DestinationsAssumption ==
    /\ NameOf \in [Sender -> Name]
    /\ None \notin Sender
    /\ MaxTuple \in [Writer -> Nat]
    /\ Capacity \in Nat \ {0}
    /\ InputMayFail \in BOOLEAN

VARIABLES
    dsts,            \* dataDestinations.dsts: the pipes in the map
    open,            \* dsts # nil
    paused,          \* dataDestinations.paused
    lastEvent,       \* the ddEvent sent last to the callback
    numSent, numDropped,
    conn,            \* per pipe: how far the Input call that made it is
    mode,            \* per pipe: dropMode
    chan,            \* per pipe: the channel
    closed,          \* the pipes with closed = true
    closing,         \* pending goroutines of pipeReceiver.close
    removing,        \* pending goroutines go d.dst.remove(name), by pipe
    pc, count,       \* per writer: program point, number of Write calls
    todo, cur, gone, \* per writer: pipes left, pipe being sent to, var closed
    got,             \* history, per pipe: what the receiver took
    dropped,         \* history: <<t, s>>, tuple t was dropped at pipe s
    audience         \* history: <<t, s>>, s was in dsts when t was written

dvars == <<dsts, open, paused, lastEvent, numSent, numDropped>>
pvars == <<conn, mode, chan, closed, closing, removing>>
wvars == <<pc, count, todo, cur, gone>>
hvars == <<got, dropped, audience>>
vars == <<dvars, pvars, wvars, hvars>>

QueueDropMode == {"none", "latest", "oldest"}
Tuple == {t \in Writer \X Nat : t[2] \in 1..MaxTuple[t[1]]}
Conn == {"new", "added", "live", "refused", "failed"}
PC == {"idle", "start", "send", "pop", "flush"}

\* The tuple writer w is writing.
Current(w) == <<w, count[w]>>

\* dataDestinations.rwm can be locked: no Write holds its read lock.
\* pipeSender.rwm of s can be locked.
Quiet == \A w \in Writer : pc[w] \notin {"send", "pop"}
Unused(s) == \A w \in Writer : cur[w] # s

Elements(q) == {q[i] : i \in 1..Len(q)}

Init ==
    /\ dsts = {} /\ open = TRUE /\ paused \in BOOLEAN /\ lastEvent = "none"
    /\ numSent = 0 /\ numDropped = 0
    /\ conn = [s \in Sender |-> "new"]
    /\ mode \in [Sender -> QueueDropMode]
    /\ chan = [s \in Sender |-> <<>>]
    /\ closed = {} /\ closing = {} /\ removing = {}
    /\ pc = [w \in Writer |-> "idle"]
    /\ count = [w \in Writer |-> 0]
    /\ todo = [w \in Writer |-> {}]
    /\ cur = [w \in Writer |-> None]
    /\ gone = [w \in Writer |-> {}]
    /\ got = [s \in Sender |-> <<>>]
    /\ dropped = {} /\ audience = {}

-----------------------------------------------------------------------------
(* Connecting and disconnecting. *)

\* dataDestinations.add, first half of Input.  It is refused when the output is
\* closed or has a destination of that name: nothing changes then.
Add(s) ==
    /\ Quiet /\ conn[s] = "new"
    /\ open /\ \A r \in dsts : NameOf[r] # NameOf[s]
    /\ conn' = [conn EXCEPT ![s] = "added"]
    /\ dsts' = dsts \cup {s}
    /\ lastEvent' = "newConn"
    /\ UNCHANGED <<open, paused, numSent, numDropped>>
    /\ UNCHANGED <<mode, chan, closed, closing, removing, wvars, hvars>>

\* dataSources.add, second half of Input, accepts the receiver.
Accept(s) ==
    /\ conn[s] = "added"
    /\ conn' = [conn EXCEPT ![s] = "live"]
    /\ UNCHANGED <<mode, chan, closed, closing, removing, dvars, wvars, hvars>>

\* dataDestinations.remove(n): the entry of that name, if any, leaves the map and
\* is closed, which starts another removal of the same name.
RemoveName(n, own) ==
    LET hit == {r \in dsts : NameOf[r] = n} IN
    /\ Quiet
    /\ dsts' = dsts \ hit
    /\ closed' = closed \cup hit
    /\ removing' = (removing \ own) \cup (hit \ closed)
    /\ lastEvent' = IF hit # {} /\ dsts \ hit = {} THEN "disconnect" ELSE lastEvent
    /\ UNCHANGED <<open, paused, numSent, numDropped>>

\* dataSources.add refuses the receiver ...
Refuse(s) ==
    /\ InputMayFail /\ conn[s] = "added"
    /\ conn' = [conn EXCEPT ![s] = "refused"]
    /\ UNCHANGED <<mode, chan, closed, closing, removing, dvars, wvars, hvars>>

\* ... and Input takes the destination back.
TakeBack(s) ==
    /\ conn[s] = "refused"
    /\ conn' = [conn EXCEPT ![s] = "failed"]
    /\ RemoveName(NameOf[s], {})
    /\ UNCHANGED <<mode, chan, closing, wvars, hvars>>

\* pipeReceiver.close.
ReceiverClose(s) ==
    /\ conn[s] = "live" /\ s \notin closed
    /\ closing' = closing \cup {s}
    /\ UNCHANGED <<conn, mode, chan, closed, removing, dvars, wvars, hvars>>

\* Mutant: the channel is closed without the lock of the pipe.
SenderCloseUnlocked(s) ==
    /\ s \in closing
    /\ closing' = closing \ {s}
    /\ closed' = closed \cup {s}
    /\ removing' = removing \cup ({s} \ closed)
    /\ UNCHANGED <<conn, mode, chan, dvars, wvars, hvars>>

\* Mutant: the destinations are not told.
SenderCloseSilent(s) ==
    /\ s \in closing /\ Unused(s)
    /\ closing' = closing \ {s}
    /\ closed' = closed \cup {s}
    /\ UNCHANGED <<conn, mode, chan, removing, dvars, wvars, hvars>>

\* pipeSender.close, by the goroutine of pipeReceiver.close.
SenderClose(s) ==
    /\ s \in closing /\ Unused(s)
    /\ closing' = closing \ {s}
    /\ closed' = closed \cup {s}
    /\ removing' = removing \cup ({s} \ closed)
    /\ UNCHANGED <<conn, mode, chan, dvars, wvars, hvars>>

\* The goroutine go d.dst.remove(d.registeredName) of pipe s.
RemoveGoroutine(s) ==
    /\ s \in removing
    /\ RemoveName(NameOf[s], {s})
    /\ UNCHANGED <<conn, mode, chan, closing, wvars, hvars>>

\* Mutant: the tuples left in a pipe that is closed by its receiver are not read.
ReceiveUndrained(s) ==
    /\ conn[s] = "live" /\ s \notin closing /\ chan[s] # <<>>
    /\ got' = [got EXCEPT ![s] = Append(@, Head(chan[s]))]
    /\ chan' = [chan EXCEPT ![s] = Tail(@)]
    /\ UNCHANGED <<conn, mode, closed, closing, removing, dvars, wvars>>
    /\ UNCHANGED <<dropped, audience>>

\* The node at the other end takes a tuple: to process it, or to drain the pipe.
Receive(s) ==
    /\ conn[s] = "live" /\ chan[s] # <<>>
    /\ got' = [got EXCEPT ![s] = Append(@, Head(chan[s]))]
    /\ chan' = [chan EXCEPT ![s] = Tail(@)]
    /\ UNCHANGED <<conn, mode, closed, closing, removing, dvars, wvars>>
    /\ UNCHANGED <<dropped, audience>>

-----------------------------------------------------------------------------
(* dataDestinations.Write. *)

\* A goroutine calls Write with its next tuple.
Begin(w) ==
    /\ pc[w] = "idle" /\ count[w] < MaxTuple[w]
    /\ pc' = [pc EXCEPT ![w] = "start"]
    /\ count' = [count EXCEPT ![w] = @ + 1]
    /\ UNCHANGED <<todo, cur, gone, dvars, pvars, hvars>>

\* It leaves the loop over d.paused, holding the read lock, and finds ...
EnterDrop(w) ==    \* ... no destination
    /\ pc[w] = "start" /\ ~paused /\ dsts = {}
    /\ pc' = [pc EXCEPT ![w] = "idle"]
    /\ numDropped' = numDropped + 1
    /\ UNCHANGED <<dsts, open, paused, lastEvent, numSent>>
    /\ UNCHANGED <<count, todo, cur, gone, pvars, hvars>>

EnterSend(w) ==    \* ... some destinations
    /\ pc[w] = "start" /\ ~paused /\ dsts # {}
    /\ pc' = [pc EXCEPT ![w] = "send"]
    /\ todo' = [todo EXCEPT ![w] = dsts]
    /\ gone' = [gone EXCEPT ![w] = {}]
    /\ audience' = audience \cup ({Current(w)} \X dsts)
    /\ UNCHANGED <<count, cur, got, dropped, dvars, pvars>>

\* pipeSender.write of the next destination, in any order: closed already ...
WriteClosed(w, s) ==
    /\ pc[w] = "send" /\ cur[w] = None /\ s \in todo[w] /\ s \in closed
    /\ todo' = [todo EXCEPT ![w] = @ \ {s}]
    /\ gone' = [gone EXCEPT ![w] = @ \cup {NameOf[s]}]
    /\ UNCHANGED <<pc, count, cur, dvars, pvars, hvars>>

\* ... or open: from here to WriteDone the pipe's read lock is held.
WriteOpen(w, s) ==
    /\ pc[w] = "send" /\ cur[w] = None /\ s \in todo[w] /\ s \notin closed
    /\ cur' = [cur EXCEPT ![w] = s]
    /\ UNCHANGED <<pc, count, todo, gone, dvars, pvars, hvars>>

\* Mutant: a destination written to is not crossed off.
WriteDoneAgain(w, s) ==
    /\ cur' = [cur EXCEPT ![w] = None]
    /\ UNCHANGED <<pc, count, todo, gone>>

WriteDone(w, s) ==
    /\ cur' = [cur EXCEPT ![w] = None]
    /\ todo' = [todo EXCEPT ![w] = @ \ {s}]
    /\ UNCHANGED <<pc, count, gone>>

Full(s) == Len(chan[s]) >= Capacity

\* s.out <- t
Send(w, s) ==
    /\ pc[w] = "send" /\ cur[w] = s /\ ~Full(s)
    /\ chan' = [chan EXCEPT ![s] = Append(@, Current(w))]
    /\ WriteDone(w, s)
    /\ UNCHANGED <<conn, mode, closed, closing, removing, dvars, hvars>>

\* Mutant: the destinations after a full one are skipped.
SendDropLatestAll(w, s) ==
    /\ pc[w] = "send" /\ cur[w] = s /\ mode[s] = "latest" /\ Full(s)
    /\ dropped' = dropped \cup {<<Current(w), s>>}
    /\ cur' = [cur EXCEPT ![w] = None]
    /\ todo' = [todo EXCEPT ![w] = {}]
    /\ UNCHANGED <<pc, count, gone, got, audience, dvars, pvars>>

SendDropLatest(w, s) ==
    /\ pc[w] = "send" /\ cur[w] = s /\ mode[s] = "latest" /\ Full(s)
    /\ dropped' = dropped \cup {<<Current(w), s>>}
    /\ WriteDone(w, s)
    /\ UNCHANGED <<got, audience, dvars, pvars>>

\* DropOldest is a loop of two selects: the send finds the channel full, then
\* the oldest tuple is taken out if another goroutine has not done so.
SendOldestFull(w, s) ==
    /\ pc[w] = "send" /\ cur[w] = s /\ mode[s] = "oldest" /\ Full(s)
    /\ pc' = [pc EXCEPT ![w] = "pop"]
    /\ UNCHANGED <<count, todo, cur, gone, dvars, pvars, hvars>>

DropOldest(w, s) ==
    /\ pc[w] = "pop" /\ cur[w] = s
    /\ pc' = [pc EXCEPT ![w] = "send"]
    /\ \/ /\ chan[s] # <<>>
          /\ chan' = [chan EXCEPT ![s] = Tail(@)]
          /\ dropped' = dropped \cup {<<Head(chan[s]), s>>}
       \/ chan[s] = <<>> /\ UNCHANGED <<chan, dropped>>
    /\ UNCHANGED <<count, todo, cur, gone, got, audience, dvars>>
    /\ UNCHANGED <<conn, mode, closed, closing, removing>>

\* The loop over dsts ends: no pipe was found closed ...
Finish(w) ==
    /\ pc[w] = "send" /\ cur[w] = None /\ todo[w] = {} /\ gone[w] = {}
    /\ pc' = [pc EXCEPT ![w] = "idle"]
    /\ numSent' = numSent + 1
    /\ UNCHANGED <<dsts, open, paused, lastEvent, numDropped>>
    /\ UNCHANGED <<count, todo, cur, gone, pvars, hvars>>

\* ... or some were: the read lock is given up and the write lock awaited.
Unlock(w) ==
    /\ pc[w] = "send" /\ cur[w] = None /\ todo[w] = {} /\ gone[w] # {}
    /\ pc' = [pc EXCEPT ![w] = "flush"]
    /\ UNCHANGED <<count, todo, cur, gone, dvars, pvars, hvars>>

\* Mutant: ddeDisconnect is sent although destinations are left.
FlushEager(w) ==
    /\ pc[w] = "flush" /\ Quiet
    /\ pc' = [pc EXCEPT ![w] = "idle"]
    /\ dsts' = {s \in dsts : NameOf[s] \notin gone[w]}
    /\ lastEvent' = "disconnect"
    /\ numSent' = numSent + 1
    /\ UNCHANGED <<open, paused, numDropped>>
    /\ UNCHANGED <<count, todo, cur, gone, pvars, hvars>>

Flush(w) ==
    /\ pc[w] = "flush" /\ Quiet
    /\ pc' = [pc EXCEPT ![w] = "idle"]
    /\ dsts' = {s \in dsts : NameOf[s] \notin gone[w]}
    /\ lastEvent' = IF dsts' = {} THEN "disconnect" ELSE lastEvent
    /\ numSent' = numSent + 1
    /\ UNCHANGED <<open, paused, numDropped>>
    /\ UNCHANGED <<count, todo, cur, gone, pvars, hvars>>

-----------------------------------------------------------------------------
(* Operations of the node that owns the output. *)

Pause ==
    /\ Quiet
    /\ paused' = TRUE
    /\ UNCHANGED <<dsts, open, lastEvent, numSent, numDropped, pvars, wvars, hvars>>

Resume ==
    /\ Quiet
    /\ paused' = FALSE
    /\ UNCHANGED <<dsts, open, lastEvent, numSent, numDropped, pvars, wvars, hvars>>

Close ==
    /\ Quiet
    /\ closed' = closed \cup dsts
    /\ removing' = removing \cup (dsts \ closed)
    /\ dsts' = {} /\ open' = FALSE /\ paused' = FALSE
    /\ UNCHANGED <<lastEvent, numSent, numDropped>>
    /\ UNCHANGED <<conn, mode, chan, closing, wvars, hvars>>

-----------------------------------------------------------------------------
WriteStep(w) ==
    \/ EnterDrop(w) \/ EnterSend(w) \/ Finish(w) \/ Unlock(w) \/ Flush(w)
    \/ \E s \in Sender :
          \/ WriteClosed(w, s) \/ WriteOpen(w, s) \/ Send(w, s)
          \/ SendDropLatest(w, s) \/ SendOldestFull(w, s) \/ DropOldest(w, s)

PipeStep(s) ==
    \/ Add(s) \/ Accept(s) \/ Refuse(s) \/ TakeBack(s) \/ ReceiverClose(s)
    \/ SenderClose(s) \/ RemoveGoroutine(s) \/ Receive(s)

Next ==
    \/ \E w \in Writer : Begin(w) \/ WriteStep(w)
    \/ \E s \in Sender : PipeStep(s)
    \/ Pause \/ Resume \/ Close

Spec == Init /\ [][Next]_vars

\* A Write that was called goes on, an Input call that was started ends, the
\* goroutines started by close run, and a connected node keeps reading: it
\* processes its input or, once it has stopped, drains it.  Nobody has to call
\* Input, pause, resume or close.
Fairness ==
    /\ \A w \in Writer : WF_vars(WriteStep(w))
    /\ \A s \in Sender :
          /\ WF_vars(Accept(s) \/ Refuse(s))
          /\ WF_vars(TakeBack(s))
          /\ WF_vars(SenderClose(s))
          /\ WF_vars(RemoveGoroutine(s))
          /\ WF_vars(Receive(s))

FairSpec == Spec /\ Fairness
-----------------------------------------------------------------------------
(* Properties. *)

\* The variables have their types and no channel exceeds its capacity.
TypeOK ==
    /\ dsts \subseteq Sender /\ open \in BOOLEAN /\ paused \in BOOLEAN
    /\ lastEvent \in {"none", "newConn", "disconnect"}
    /\ numSent \in Nat /\ numDropped \in Nat
    /\ conn \in [Sender -> Conn] /\ mode \in [Sender -> QueueDropMode]
    /\ chan \in [Sender -> Seq(Tuple)]
    /\ \A s \in Sender : Len(chan[s]) <= Capacity
    /\ closed \subseteq Sender /\ closing \subseteq Sender /\ removing \subseteq Sender
    /\ pc \in [Writer -> PC] /\ count \in [Writer -> Nat]
    /\ \A w \in Writer : count[w] <= MaxTuple[w]
    /\ todo \in [Writer -> SUBSET Sender] /\ cur \in [Writer -> Sender \cup {None}]
    /\ gone \in [Writer -> SUBSET Name]
    /\ got \in [Sender -> Seq(Tuple)]
    /\ dropped \subseteq Tuple \X Sender /\ audience \subseteq Tuple \X Sender

\* A goroutine that is about to send on a channel (pipeSender.write past the
\* check of closed) never finds it closed, whoever closes the pipe meanwhile: the
\* receiver, a removal or Close.  Go panics otherwise.
NoSendOnClosed == \A w \in Writer : cur[w] # None => cur[w] \notin closed

\* A Write that returned has put its tuple into every pipe that was connected
\* when it started and is still open, unless the pipe's drop mode dropped it.
AudienceServed ==
    \A a \in audience :
        LET t == a[1]
            s == a[2]
            w == t[1]
        IN  count[w] > t[2] \/ pc[w] \in {"idle", "flush"}
            => \/ s \in closed
               \/ a \in dropped
               \/ t \in Elements(got[s]) \cup Elements(chan[s])

\* A pipe hands the tuples of one goroutine over in the order they were written
\* and none of them twice, whatever was dropped in between.
InOrderOnce ==
    \A s \in Sender :
        LET q == got[s] \o chan[s] IN
        \A i, j \in 1..Len(q) : i < j /\ q[i][1] = q[j][1] => q[i][2] < q[j][2]

\* Once pause has returned, no Write is sending: nothing leaves a paused source.
PausedIsQuiet == paused => Quiet

\* A send meets neither a closed channel nor a paused output: between the checks of a
\* Write and its sends, whoever closes the pipe or pauses the output has to wait.
SendsAreSafe == NoSendOnClosed /\ PausedIsQuiet

\* ddeDisconnect is sent only when every connection has been closed: the comment
\* at its declaration.  It makes a source with StopOnDisconnect stop itself.
DisconnectMeansAllClosed ==
    lastEvent = "disconnect" =>
        \A s \in Sender : conn[s] # "new" => s \in closed

\* When the last destination has left an open output, the last event sent is
\* ddeDisconnect: a node with StopOnDisconnect(Outbound) does not miss it.
EmptyIsReported ==
    open /\ dsts = {} /\ (\E s \in Sender : conn[s] # "new")
        => lastEvent = "disconnect"

\* ddeDisconnect is sent when the last destination has gone, and only then, in
\* whatever order writes, removals and closing receivers find out.
DisconnectIsExact == DisconnectMeansAllClosed /\ EmptyIsReported

\* A pipe became full before its receiver refused it: nobody will ever read it, and
\* the Write that waits in it keeps the read lock that taking it back waits for.
RefusedFull == \E s \in Sender : conn[s] = "refused" /\ mode[s] = "none" /\ Full(s) /\ ~Unused(s)

\* Write returns: a Write that is sending does, and so does one that waits for a
\* resume when the output is closed, unless somebody pauses it again.  The exception
\* is a Write into a full pipe whose receiver was refused.
WritesReturn ==
    \A w \in Writer :
        /\ pc[w] \in {"send", "pop", "flush"} ~> (pc[w] = "idle" \/ RefusedFull)
        /\ (pc[w] = "start" /\ ~open) ~> (pc[w] = "idle" \/ paused)

\* A pipe its receiver closed leaves the map even if nothing is written any more.
ClosedIsForgotten == \A s \in Sender : s \in closed ~> (s \notin dsts \/ RefusedFull)

\* The removal a closing pipe starts ("Remove the sender from all destinations")
\* takes no other pipe out of the map.
RemovesItself ==
    [][ \A s \in removing \ removing' : dsts \ dsts' \subseteq {s} ]_vars
=============================================================================
