----------------------- MODULE DataDestinationsProofs -----------------------
(***************************************************************************)
(* What dataDestinations guarantees for any number of goroutines, pipes    *)
(* and tuples.                                                             *)
(*                                                                         *)
(* Locks is the invariant behind the two read/write locks: a goroutine     *)
(* that sends to a pipe holds the read lock of the destinations and found  *)
(* the pipe open, and nobody holds that lock while the output is paused.   *)
(* Accounted says where a connected pipe can be: in the map or closed.  It *)
(* is kept only if no name is used by two pipes (DistinctNames).           *)
(***************************************************************************)
EXTENDS DataDestinations, TLAPS

DistinctNames == \A r, s \in Sender : NameOf[r] = NameOf[s] => r = s

USE DestinationsAssumption

\* A goroutine inside Write has a tuple.
Counted == \A w \in Writer : pc[w] # "idle" => count[w] # 0

TypeInv == TypeOK /\ Counted

\* The tuple a goroutine inside Write is writing is one of the tuples.
LEMMA CurrentType ==
    ASSUME TypeInv, NEW w \in Writer, pc[w] # "idle"
    PROVE  Current(w) \in Tuple
  BY DEF TypeInv, Counted, TypeOK, Current, Tuple

\* Taking the oldest tuple out of a channel leaves well-formed channels.
LEMMA TailChannel ==
    ASSUME NEW c \in [Sender -> Seq(Tuple)], NEW s \in Sender, c[s] # <<>>,
           \A r \in Sender : Len(c[r]) <= Capacity
    PROVE  /\ [c EXCEPT ![s] = Tail(c[s])] \in [Sender -> Seq(Tuple)]
           /\ \A r \in Sender : Len([c EXCEPT ![s] = Tail(c[s])][r]) <= Capacity
<1>1. c[s] \in Seq(Tuple) /\ Len(c[s]) <= Capacity
  OBVIOUS
<1>2. Tail(c[s]) \in Seq(Tuple) /\ Len(Tail(c[s])) <= Capacity
  BY <1>1, SMTT(30)
<1>3. QED
  BY <1>2

\* Every step keeps the types.
LEMMA TypeStep == TypeInv /\ [Next]_vars => TypeInv'
<1> SUFFICES ASSUME TypeInv, [Next]_vars PROVE TypeInv'
  OBVIOUS
<1>0. ASSUME NEW w \in Writer, pc[w] # "idle" PROVE Current(w) \in Tuple
  BY <1>0, CurrentType
<1> USE DEF TypeInv, Counted, TypeOK, PC, Conn, dvars, pvars, wvars, hvars
<1>1. CASE UNCHANGED vars
  BY <1>1 DEF vars
<1>2. ASSUME NEW w \in Writer, Begin(w) PROVE TypeInv'
  BY <1>2 DEF Begin
<1>3. ASSUME NEW w \in Writer, EnterDrop(w) PROVE TypeInv'
  BY <1>3 DEF EnterDrop
<1>4. ASSUME NEW w \in Writer, EnterSend(w) PROVE TypeInv'
  BY <1>4, <1>0 DEF EnterSend
<1>5. ASSUME NEW w \in Writer, Finish(w) PROVE TypeInv'
  BY <1>5 DEF Finish
<1>6. ASSUME NEW w \in Writer, Unlock(w) PROVE TypeInv'
  BY <1>6 DEF Unlock
<1>7. ASSUME NEW w \in Writer, Flush(w) PROVE TypeInv'
  BY <1>7 DEF Flush
<1>8. ASSUME NEW w \in Writer, NEW s \in Sender, WriteClosed(w, s) PROVE TypeInv'
  <2>1. NameOf[s] \in Name
    OBVIOUS
  <2>2. gone[w] \cup {NameOf[s]} \in SUBSET Name
    BY <2>1
  <2>3. gone' \in [Writer -> SUBSET Name]
    BY <1>8, <2>2 DEF WriteClosed
  <2>4. todo' \in [Writer -> SUBSET Sender]
    BY <1>8 DEF WriteClosed
  <2>5. QED
    BY <1>8, <2>3, <2>4, SMTT(30) DEF WriteClosed
<1>9. ASSUME NEW w \in Writer, NEW s \in Sender, WriteOpen(w, s) PROVE TypeInv'
  BY <1>9 DEF WriteOpen
<1>10. ASSUME NEW w \in Writer, NEW s \in Sender, Send(w, s) PROVE TypeInv'
  BY <1>10, <1>0 DEF Send, WriteDone, Full
<1>11. ASSUME NEW w \in Writer, NEW s \in Sender, SendDropLatest(w, s) PROVE TypeInv'
  <2>1. <<Current(w), s>> \in Tuple \X Sender
    BY <1>11, <1>0 DEF SendDropLatest
  <2>2. dropped' \subseteq Tuple \X Sender
    BY <1>11, <2>1 DEF SendDropLatest
  <2>3. cur' \in [Writer -> Sender \cup {None}] /\ todo' \in [Writer -> SUBSET Sender]
    BY <1>11 DEF SendDropLatest, WriteDone
  <2>4. QED
    BY <1>11, <2>2, <2>3 DEF SendDropLatest, WriteDone
<1>12. ASSUME NEW w \in Writer, NEW s \in Sender, SendOldestFull(w, s) PROVE TypeInv'
  BY <1>12 DEF SendOldestFull
<1>13. ASSUME NEW w \in Writer, NEW s \in Sender, DropOldest(w, s) PROVE TypeInv'
  <2>1. <<Current(w), s>> \in Tuple \X Sender
    BY <1>13, <1>0 DEF DropOldest
  <2>2. chan' \in [Sender -> Seq(Tuple)] /\ \A r \in Sender : Len(chan'[r]) <= Capacity
    <3>1. CASE chan[s] # <<>>
      <4>1. chan' = [chan EXCEPT ![s] = Tail(chan[s])]
        BY <1>13, <3>1 DEF DropOldest
      <4>2. QED
        BY <3>1, <4>1, TailChannel
    <3>2. CASE chan[s] = <<>>
      BY <1>13, <3>2 DEF DropOldest
    <3>3. QED
      BY <3>1, <3>2
  <2>3. chan[s] # <<>> => Head(chan[s]) \in Tuple
    <3>1. chan[s] \in Seq(Tuple)
      OBVIOUS
    <3>2. QED
      BY <3>1
  <2>4. dropped' \subseteq Tuple \X Sender
    BY <1>13, <2>1, <2>3 DEF DropOldest
  <2>5. pc' \in [Writer -> PC] /\ Counted'
    BY <1>13 DEF DropOldest
  <2>6. UNCHANGED <<dvars, conn, mode, closed, closing, removing, count, todo, cur, gone, got, audience>>
    BY <1>13 DEF DropOldest
  <2>7. QED
    BY <2>2, <2>4, <2>5, <2>6, ZenonT(30)
<1>14. ASSUME NEW s \in Sender, Add(s) \/ Accept(s) \/ Refuse(s) PROVE TypeInv'
  BY <1>14, ZenonT(30) DEF Add, Accept, Refuse
<1>15. ASSUME NEW s \in Sender, TakeBack(s) PROVE TypeInv'
  BY <1>15 DEF TakeBack, RemoveName
<1>16. ASSUME NEW s \in Sender, ReceiverClose(s) \/ SenderClose(s) PROVE TypeInv'
  BY <1>16 DEF ReceiverClose, SenderClose
<1>17. ASSUME NEW s \in Sender, RemoveGoroutine(s) PROVE TypeInv'
  BY <1>17 DEF RemoveGoroutine, RemoveName
<1>18. ASSUME NEW s \in Sender, Receive(s) PROVE TypeInv'
  BY <1>18 DEF Receive
<1>19. CASE Pause \/ Resume \/ Close
  BY <1>19, ZenonT(30) DEF Pause, Resume, Close
<1>20. QED
  BY <1>1, <1>2, <1>3, <1>4, <1>5, <1>6, <1>7, <1>8, <1>9, <1>10, <1>11, <1>12,
     <1>13, <1>14, <1>15, <1>16, <1>17, <1>18, <1>19
  DEF Next, WriteStep, PipeStep

\* The variables keep their types and no channel grows beyond its capacity.
THEOREM TypeCorrect == Spec => []TypeOK
<1>1. Init => TypeInv
  BY DEF Init, TypeInv, Counted, TypeOK, PC, Conn
<1>2. TypeInv => TypeOK
  BY DEF TypeInv
<1>3. QED
  BY <1>1, <1>2, TypeStep, PTL DEF Spec

-----------------------------------------------------------------------------
LockTypes ==
    /\ pc \in [Writer -> PC] /\ cur \in [Writer -> Sender \cup {None}]
    /\ dsts \subseteq Sender

Locks ==
    /\ \A w \in Writer :
          cur[w] # None => pc[w] \in {"send", "pop"} /\ cur[w] \notin closed
    /\ PausedIsQuiet

\* Every step keeps what the read/write locks guarantee.
LEMMA LocksStep ==
    ASSUME LockTypes, Locks, [Next]_vars
    PROVE  Locks'
<1> USE DEF LockTypes, Locks, PausedIsQuiet, Quiet, dvars, pvars, wvars, hvars
<1>1. CASE UNCHANGED vars
  BY <1>1 DEF vars
<1>2. ASSUME NEW w \in Writer, Begin(w) \/ EnterDrop(w) PROVE Locks'
  BY <1>2 DEF Begin, EnterDrop
<1>3. ASSUME NEW w \in Writer, EnterSend(w) PROVE Locks'
  BY <1>3 DEF EnterSend
<1>4. ASSUME NEW w \in Writer, Finish(w) \/ Unlock(w) \/ Flush(w) PROVE Locks'
  BY <1>4 DEF Finish, Unlock, Flush
<1>5. ASSUME NEW w \in Writer, NEW s \in Sender, WriteClosed(w, s) \/ WriteOpen(w, s)
      PROVE  Locks'
  BY <1>5 DEF WriteClosed, WriteOpen
<1>6. ASSUME NEW w \in Writer, NEW s \in Sender, Send(w, s) \/ SendDropLatest(w, s)
      PROVE  Locks'
  BY <1>6 DEF Send, SendDropLatest, WriteDone
<1>7. ASSUME NEW w \in Writer, NEW s \in Sender, SendOldestFull(w, s) \/ DropOldest(w, s)
      PROVE  Locks'
  BY <1>7 DEF SendOldestFull, DropOldest
<1>8. ASSUME NEW s \in Sender, Add(s) \/ Accept(s) \/ Refuse(s) PROVE Locks'
  BY <1>8 DEF Add, Accept, Refuse
<1>9. ASSUME NEW s \in Sender, TakeBack(s) \/ RemoveGoroutine(s) PROVE Locks'
  BY <1>9 DEF TakeBack, RemoveGoroutine, RemoveName
<1>10. ASSUME NEW s \in Sender, ReceiverClose(s) \/ SenderClose(s) \/ Receive(s)
       PROVE  Locks'
  BY <1>10 DEF ReceiverClose, SenderClose, Receive, Unused
<1>11. CASE Pause \/ Resume \/ Close
  BY <1>11 DEF Pause, Resume, Close
<1>12. QED
  BY <1>1, <1>2, <1>3, <1>4, <1>5, <1>6, <1>7, <1>8, <1>9, <1>10, <1>11, ZenonT(30)
  DEF Next, WriteStep, PipeStep

\* No goroutine ever sends on a closed channel and nothing is sent while the output
\* is paused, however many writers, pipes and closers there are.
THEOREM SafeSends == Spec => []SendsAreSafe
<1>1. Init => Locks
  BY DEF Init, Locks, PausedIsQuiet, Quiet
<1>2. TypeOK /\ Locks /\ [Next]_vars => Locks'
  BY LocksStep DEF TypeOK, LockTypes
<1>3. Locks => SendsAreSafe
  BY DEF Locks, SendsAreSafe, NoSendOnClosed
<1>4. QED
  BY <1>1, <1>2, <1>3, TypeCorrect, PTL DEF Spec

-----------------------------------------------------------------------------
\* What the events depend on.
EventTypes ==
    /\ pc \in [Writer -> PC] /\ conn \in [Sender -> Conn]
    /\ dsts \subseteq Sender /\ closed \subseteq Sender
    /\ gone \in [Writer -> SUBSET Name] /\ todo \in [Writer -> SUBSET Sender]

\* Whoever takes the last destination out of an open output sends ddeDisconnect:
\* remove, the goroutine of a closed pipe or a Write that found pipes closed.
THEOREM LastOneIsReported == Spec => []EmptyIsReported
<1>1. Init => EmptyIsReported
  BY DEF Init, EmptyIsReported
<1>2. TypeOK /\ EmptyIsReported /\ [Next]_vars => EmptyIsReported'
  <2> SUFFICES ASSUME EventTypes, EmptyIsReported, [Next]_vars PROVE EmptyIsReported'
    BY DEF TypeOK, EventTypes
  <2> USE DEF EventTypes, EmptyIsReported, dvars, pvars, wvars, hvars
  <2>1. CASE UNCHANGED vars
    BY <2>1 DEF vars
  <2>2. ASSUME NEW w \in Writer, Begin(w) \/ EnterDrop(w) \/ EnterSend(w) \/ Finish(w)
               \/ Unlock(w)
        PROVE  EmptyIsReported'
    BY <2>2, ZenonT(30) DEF Begin, EnterDrop, EnterSend, Finish, Unlock
  <2>3. ASSUME NEW w \in Writer, Flush(w) PROVE EmptyIsReported'
    BY <2>3 DEF Flush
  <2>4. ASSUME NEW w \in Writer, NEW s \in Sender,
               WriteClosed(w, s) \/ WriteOpen(w, s) \/ Send(w, s) \/ SendDropLatest(w, s)
               \/ SendOldestFull(w, s) \/ DropOldest(w, s)
        PROVE  EmptyIsReported'
    BY <2>4, ZenonT(30) DEF WriteClosed, WriteOpen, Send, SendDropLatest, SendOldestFull, DropOldest
  <2>5. ASSUME NEW s \in Sender, Add(s) PROVE EmptyIsReported'
    BY <2>5 DEF Add
  <2>6. ASSUME NEW s \in Sender, Accept(s) \/ Refuse(s) PROVE EmptyIsReported'
    BY <2>6, ZenonT(30) DEF Accept, Refuse
  <2>7. ASSUME NEW s \in Sender, TakeBack(s) \/ RemoveGoroutine(s) PROVE EmptyIsReported'
    BY <2>7, ZenonT(30) DEF TakeBack, RemoveGoroutine, RemoveName
  <2>8. ASSUME NEW s \in Sender, ReceiverClose(s) \/ SenderClose(s) \/ Receive(s)
        PROVE  EmptyIsReported'
    BY <2>8, ZenonT(30) DEF ReceiverClose, SenderClose, Receive
  <2>9. CASE Pause \/ Resume \/ Close
    BY <2>9, ZenonT(30) DEF Pause, Resume, Close
  <2>10. QED
    BY <2>1, <2>2, <2>3, <2>4, <2>5, <2>6, <2>7, <2>8, <2>9 DEF Next, WriteStep, PipeStep
<1>3. QED
  BY <1>1, <1>2, TypeCorrect, PTL DEF Spec

\* Where a connected pipe can be, and what a Write remembers as closed.
Accounted ==
    /\ \A s \in Sender : conn[s] # "new" => s \in dsts \cup closed
    /\ \A w \in Writer : \A n \in gone[w] : \E s \in closed : NameOf[s] = n
    /\ lastEvent = "disconnect" => dsts = {}

\* If no two pipes have the same name, ddeDisconnect is sent when the last destination
\* goes (LastOneIsReported) and only when every pipe that was ever connected is closed:
\* a source neither misses it nor stops under a live receiver.
THEOREM DisconnectIsTrue ==
    ASSUME DistinctNames
    PROVE  Spec => []DisconnectIsExact
<1>1. Init => Accounted
  BY DEF Init, Accounted
<1>2. TypeOK /\ Accounted /\ [Next]_vars => Accounted'
  <2> SUFFICES ASSUME EventTypes, Accounted, [Next]_vars PROVE Accounted'
    BY DEF TypeOK, EventTypes
  <2> USE DEF EventTypes, Accounted, dvars, pvars, wvars, hvars
  <2>1. CASE UNCHANGED vars
    BY <2>1 DEF vars
  <2>2. ASSUME NEW w \in Writer, Begin(w) \/ EnterDrop(w) \/ EnterSend(w) \/ Finish(w)
               \/ Unlock(w)
        PROVE  Accounted'
    BY <2>2 DEF Begin, EnterDrop, EnterSend, Finish, Unlock
  <2>3. ASSUME NEW w \in Writer, Flush(w) PROVE Accounted'
    <3>1. ASSUME NEW s \in Sender, s \in dsts, s \notin dsts' PROVE s \in closed
      BY <2>3, <3>1 DEF Flush, DistinctNames
    <3>2. QED
      BY <2>3, <3>1 DEF Flush
  <2>4. ASSUME NEW w \in Writer, NEW s \in Sender, WriteClosed(w, s) PROVE Accounted'
    <3>1. \A v \in Writer : gone'[v] \subseteq gone[v] \cup {NameOf[s]}
      BY <2>4 DEF WriteClosed
    <3>2. s \in closed /\ UNCHANGED <<dsts, closed, conn, lastEvent>>
      BY <2>4 DEF WriteClosed
    <3>3. QED
      BY <3>1, <3>2
  <2>5. ASSUME NEW w \in Writer, NEW s \in Sender,
               WriteOpen(w, s) \/ Send(w, s) \/ SendDropLatest(w, s)
               \/ SendOldestFull(w, s) \/ DropOldest(w, s)
        PROVE  Accounted'
    BY <2>5 DEF WriteOpen, Send, SendDropLatest, WriteDone, SendOldestFull, DropOldest
  <2>6. ASSUME NEW s \in Sender, Add(s) PROVE Accounted'
    BY <2>6 DEF Add
  <2>7. ASSUME NEW s \in Sender, Accept(s) \/ Refuse(s) PROVE Accounted'
    BY <2>7 DEF Accept, Refuse
  <2>8. ASSUME NEW s \in Sender, TakeBack(s) \/ RemoveGoroutine(s) PROVE Accounted'
    BY <2>8 DEF TakeBack, RemoveGoroutine, RemoveName
  <2>9. ASSUME NEW s \in Sender, ReceiverClose(s) \/ SenderClose(s) \/ Receive(s)
        PROVE  Accounted'
    BY <2>9 DEF ReceiverClose, SenderClose, Receive
  <2>10. CASE Pause \/ Resume \/ Close
    BY <2>10 DEF Pause, Resume, Close
  <2>11. QED
    BY <2>1, <2>2, <2>3, <2>4, <2>5, <2>6, <2>7, <2>8, <2>9, <2>10, ZenonT(30)
    DEF Next, WriteStep, PipeStep
<1>3. Accounted => DisconnectMeansAllClosed
  BY DEF Accounted, DisconnectMeansAllClosed
<1>4. QED
  BY <1>1, <1>2, <1>3, TypeCorrect, LastOneIsReported, PTL DEF Spec, DisconnectIsExact

\* If no two pipes have the same name, the late removal of a closed pipe never
\* takes another pipe out of the map.
THEOREM LateRemovalIsHarmless ==
    ASSUME DistinctNames
    PROVE  Spec => RemovesItself
<1> DEFINE Own == \A s \in removing \ removing' : dsts \ dsts' \subseteq {s}
<1>1. TypeOK /\ [Next]_vars => [Own]_vars
  <2> SUFFICES ASSUME dsts \subseteq Sender, removing \subseteq Sender, Next PROVE Own
    BY DEF TypeOK
  <2> USE DEF dvars, pvars, wvars, hvars
  <2>1. ASSUME NEW s \in Sender, RemoveGoroutine(s) PROVE Own
    BY <2>1 DEF RemoveGoroutine, RemoveName, DistinctNames
  <2>2. ASSUME NEW s \in Sender,
               Add(s) \/ Accept(s) \/ Refuse(s) \/ TakeBack(s) \/ ReceiverClose(s)
               \/ SenderClose(s) \/ Receive(s)
        PROVE  Own
    BY <2>2, SMTT(30) DEF Add, Accept, Refuse, TakeBack, RemoveName, ReceiverClose, SenderClose, Receive
  <2>3. ASSUME NEW w \in Writer, Begin(w) \/ EnterDrop(w) \/ EnterSend(w) \/ Finish(w)
               \/ Unlock(w) \/ Flush(w)
        PROVE  Own
    BY <2>3, ZenonT(30) DEF Begin, EnterDrop, EnterSend, Finish, Unlock, Flush
  <2>4. ASSUME NEW w \in Writer, NEW s \in Sender,
               WriteClosed(w, s) \/ WriteOpen(w, s) \/ Send(w, s) \/ SendDropLatest(w, s)
               \/ SendOldestFull(w, s) \/ DropOldest(w, s)
        PROVE  Own
    BY <2>4 DEF WriteClosed, WriteOpen, Send, SendDropLatest, SendOldestFull, DropOldest
  <2>5. CASE Pause \/ Resume \/ Close
    BY <2>5 DEF Pause, Resume, Close
  <2>6. QED
    BY <2>1, <2>2, <2>3, <2>4, <2>5 DEF Next, WriteStep, PipeStep
<1>2. QED
  BY <1>1, TypeCorrect, PTL DEF Spec, RemovesItself

-----------------------------------------------------------------------------
(* Order.  Stream(s) is all that a pipe has carried and still holds. *)

Stream(s) == got[s] \o chan[s]
Earlier(t, u) == t[1] = u[1] => t[2] < u[2]
Sorted(q) == \A i, j \in 1..Len(q) : i < j => Earlier(q[i], q[j])

\* A Write of w that has not sent to s yet.
Unsent(w, s) == pc[w] = "start" \/ (pc[w] \in {"send", "pop"} /\ s \in todo[w])

\* A later tuple of the same goroutine may follow a sorted stream.
LEMMA SortedAppend ==
    ASSUME NEW q \in Seq(Tuple), NEW t \in Tuple, Sorted(q),
           \A i \in 1..Len(q) : Earlier(q[i], t)
    PROVE  Sorted(Append(q, t))
  BY DEF Sorted

\* A receive moves a tuple within the stream of its pipe.
LEMMA ReceiveKeepsStream ==
    ASSUME NEW g \in Seq(Tuple), NEW c \in Seq(Tuple), c # <<>>
    PROVE  Append(g, Head(c)) \o Tail(c) = g \o c
  OBVIOUS

\* A send extends the stream of its pipe.
LEMMA SendExtendsStream ==
    ASSUME NEW g \in Seq(Tuple), NEW c \in Seq(Tuple), NEW t \in Tuple
    PROVE  g \o Append(c, t) = Append(g \o c, t)
  OBVIOUS

\* Dropping the oldest queued tuple leaves a part of the stream in order.
LEMMA DropKeepsSorted ==
    ASSUME NEW g \in Seq(Tuple), NEW c \in Seq(Tuple), c # <<>>, Sorted(g \o c)
    PROVE  /\ Sorted(g \o Tail(c))
           /\ \A i \in 1..Len(g \o Tail(c)) :
                 \E j \in 1..Len(g \o c) : (g \o Tail(c))[i] = (g \o c)[j]
<1> DEFINE q == g \o c
           r == g \o Tail(c)
           old(i) == IF i <= Len(g) THEN i ELSE i + 1
<1>1. Len(q) = Len(g) + Len(c) /\ Len(r) = Len(g) + Len(c) - 1 /\ Len(c) > 0
  OBVIOUS
<1>2. \A i \in 1..Len(r) : old(i) \in 1..Len(q) /\ r[i] = q[old(i)]
  OBVIOUS
<1>3. \A i, j \in 1..Len(r) : i < j => old(i) < old(j)
  BY <1>1
<1>4. Sorted(r)
  BY <1>2, <1>3 DEF Sorted
<1>5. QED
  BY <1>2, <1>4

\* The tuples of w in the stream q are older than its n-th.
Before(q, w, n) == \A i \in 1..Len(q) : q[i][1] = w => q[i][2] < n

LEMMA BeforeLater ==
    ASSUME NEW q \in Seq(Tuple), NEW w \in Writer, NEW m \in Nat, NEW n \in Nat, m <= n,
           Before(q, w, m)
    PROVE  Before(q, w, n)
  BY DEF Before, Tuple

LEMMA BeforeAppend ==
    ASSUME NEW q \in Seq(Tuple), NEW t \in Tuple, NEW w \in Writer, NEW n \in Nat,
           Before(q, w, n), t[1] = w => t[2] < n
    PROVE  Before(Append(q, t), w, n)
  BY DEF Before

\* Streams are sorted, and what they hold of a goroutine it has written before.
Stamped(s) ==
    \A w \in Writer :
        /\ Before(Stream(s), w, count[w] + 1)
        /\ Unsent(w, s) => Before(Stream(s), w, count[w])

Ordered ==
    /\ \A w \in Writer : cur[w] # None => cur[w] \in todo[w]
    /\ \A s \in Sender : Sorted(Stream(s)) /\ Stamped(s)

OrderTypes ==
    /\ pc \in [Writer -> PC] /\ count \in [Writer -> Nat]
    /\ todo \in [Writer -> SUBSET Sender] /\ cur \in [Writer -> Sender \cup {None}]
    /\ chan \in [Sender -> Seq(Tuple)] /\ got \in [Sender -> Seq(Tuple)]

\* A stream that does not change stays sorted and stamped when no goroutine gets
\* something new to send to it and no count decreases.
LEMMA StreamKept ==
    ASSUME OrderTypes, NEW s \in Sender, Sorted(Stream(s)), Stamped(s),
           Stream(s)' = Stream(s),
           \A w \in Writer : /\ count'[w] \in Nat
                             /\ \/ count'[w] > count[w]
                                \/ count'[w] = count[w] /\ (Unsent(w, s)' => Unsent(w, s))
    PROVE  Sorted(Stream(s))' /\ Stamped(s)'
<1>1. Stream(s) \in Seq(Tuple) /\ \A w \in Writer : count[w] \in Nat
  BY DEF OrderTypes, Stream
<1>2. Sorted(Stream(s))'
  BY SMTT(30) DEF Sorted, Earlier
<1>3. ASSUME NEW w \in Writer
      PROVE  /\ Before(Stream(s), w, count'[w] + 1)
             /\ Unsent(w, s)' => Before(Stream(s), w, count'[w])
  <2>1. CASE count'[w] > count[w]
    <3>1. Before(Stream(s), w, count[w] + 1) /\ count[w] + 1 \in Nat /\ count'[w] + 1 \in Nat
      BY <1>1 DEF Stamped
    <3>2. count[w] + 1 <= count'[w] /\ count[w] + 1 <= count'[w] + 1
      BY <1>1, <2>1
    <3>3. QED
      BY <1>1, <3>1, <3>2, BeforeLater
  <2>2. CASE count'[w] = count[w] /\ (Unsent(w, s)' => Unsent(w, s))
    BY <2>2 DEF Stamped
  <2>3. QED
    BY <2>1, <2>2
<1>4. Stamped(s)'
  BY <1>3 DEF Stamped, Before
<1>5. QED
  BY <1>2, <1>4

\* Crossing a pipe off the list of a Write gives no goroutine a pipe to send to.
LEMMA CrossedOff ==
    ASSUME todo \in [Writer -> SUBSET Sender], NEW w \in Writer, NEW s \in Sender,
           todo' = [todo EXCEPT ![w] = todo[w] \ {s}], UNCHANGED pc
    PROVE  \A v \in Writer, r \in Sender : Unsent(v, r)' => Unsent(v, r)
<1>1. \A v \in Writer : todo'[v] = IF v = w THEN todo[w] \ {s} ELSE todo[v]
  OBVIOUS
<1>2. \A v \in Writer, r \in Sender : r \in todo'[v] => r \in todo[v]
  BY <1>1
<1>3. QED
  BY <1>2 DEF Unsent

\* Every step keeps the streams of all pipes in order.
LEMMA OrderedStep ==
    ASSUME OrderTypes, OrderTypes', Locks, Ordered, [Next]_vars,
           \A w \in Writer : pc[w] # "idle" => Current(w) \in Tuple
    PROVE  Ordered'
<1> USE DEF OrderTypes, dvars, pvars, wvars, hvars
<1> DEFINE CurOK == \A w \in Writer : cur'[w] # None => cur'[w] \in todo'[w]
           Kept == /\ UNCHANGED <<chan, got>>
                   /\ \A w \in Writer, s \in Sender :
                         \/ count'[w] > count[w]
                         \/ count'[w] = count[w] /\ (Unsent(w, s)' => Unsent(w, s))
<1>2. ASSUME Kept, CurOK PROVE Ordered'
  <2>1. ASSUME NEW s \in Sender PROVE Sorted(Stream(s))' /\ Stamped(s)'
    <3>1. Stream(s)' = Stream(s)
      BY <1>2 DEF Stream
    <3>2. Sorted(Stream(s)) /\ Stamped(s)
      BY DEF Ordered
    <3>3. \A w \in Writer : count'[w] \in Nat
      OBVIOUS
    <3>4. QED
      BY <1>2, <3>1, <3>2, <3>3, StreamKept
  <2>2. QED
    BY <1>2, <2>1 DEF Ordered
<1>1. CASE UNCHANGED vars
  <2>1. UNCHANGED <<chan, got, count, pc, todo, cur>>
    BY <1>1, SMTT(30) DEF vars
  <2>2. CurOK
    BY <2>1, ZenonT(30) DEF Ordered
  <2>3. \A w \in Writer, s \in Sender : Unsent(w, s)' => Unsent(w, s)
    BY <2>1 DEF Unsent
  <2>4. QED
    BY <1>2, <2>1, <2>2, <2>3
<1>3. ASSUME NEW w \in Writer, Begin(w) PROVE Ordered'
  <2>1. UNCHANGED <<chan, got, todo, cur>>
    BY <1>3 DEF Begin
  <2>2. /\ count' = [count EXCEPT ![w] = @ + 1]
        /\ \A v \in Writer : v # w => pc'[v] = pc[v]
    BY <1>3 DEF Begin
  <2>3. CurOK
    BY <2>1 DEF Ordered
  <2>4. \A v \in Writer, s \in Sender : v # w => (Unsent(v, s)' => Unsent(v, s))
    BY <2>1, <2>2 DEF Unsent
  <2>5. count'[w] > count[w] /\ \A v \in Writer : v # w => count'[v] = count[v]
    BY <2>2
  <2>6. Kept
    BY <2>1, <2>4, <2>5
  <2>7. QED
    BY <1>2, <2>3, <2>6
<1>4. ASSUME NEW w \in Writer, EnterDrop(w) \/ EnterSend(w) PROVE Ordered'
  <2>1. Kept
    BY <1>4 DEF EnterDrop, EnterSend, Unsent
  <2>2. CurOK
    BY <1>4, ZenonT(30) DEF EnterDrop, EnterSend, Ordered, Locks
  <2>3. QED
    BY <1>2, <2>1, <2>2
<1>5. ASSUME NEW w \in Writer, Finish(w) \/ Unlock(w) \/ Flush(w) PROVE Ordered'
  <2>1. Kept /\ CurOK
    BY <1>5, ZenonT(30) DEF Finish, Unlock, Flush, Unsent, Ordered
  <2>2. QED
    BY <1>2, <2>1
<1>6. ASSUME NEW w \in Writer, NEW s \in Sender,
             WriteClosed(w, s) \/ WriteOpen(w, s) \/ SendDropLatest(w, s) \/ SendOldestFull(w, s)
      PROVE  Ordered'
  <2>1. /\ UNCHANGED <<chan, got, count>>
        /\ \/ UNCHANGED pc /\ todo' = [todo EXCEPT ![w] = todo[w] \ {s}]
           \/ UNCHANGED <<pc, todo>>
           \/ pc[w] = "send" /\ pc' = [pc EXCEPT ![w] = "pop"] /\ UNCHANGED todo
    BY <1>6, ZenonT(30) DEF WriteClosed, WriteOpen, SendDropLatest, WriteDone, SendOldestFull
  <2>2. \A v \in Writer, r \in Sender : Unsent(v, r)' => Unsent(v, r)
    <3>1. CASE UNCHANGED pc /\ todo' = [todo EXCEPT ![w] = todo[w] \ {s}]
      BY <3>1, CrossedOff, ZenonT(30)
    <3>2. CASE UNCHANGED <<pc, todo>>
      BY <3>2, ZenonT(30) DEF Unsent
    <3>3. CASE pc[w] = "send" /\ pc' = [pc EXCEPT ![w] = "pop"] /\ UNCHANGED todo
      BY <3>3 DEF Unsent
    <3>4. QED
      BY <2>1, <3>1, <3>2, <3>3, SMTT(30)
  <2>3. Kept
    BY <2>1, <2>2, SMTT(30)
  <2>4. CurOK
    BY <1>6, ZenonT(30) DEF WriteClosed, WriteOpen, SendDropLatest, WriteDone, SendOldestFull, Ordered
  <2>5. QED
    BY <1>2, <2>3, <2>4, SMTT(30)
<1>8. ASSUME NEW w \in Writer, NEW s \in Sender, Send(w, s) PROVE Ordered'
  <2>1. /\ s \in todo[w] /\ pc[w] = "send" /\ s # None
        /\ chan' = [chan EXCEPT ![s] = Append(chan[s], Current(w))]
        /\ todo' = [todo EXCEPT ![w] = todo[w] \ {s}]
        /\ cur' = [cur EXCEPT ![w] = None]
        /\ UNCHANGED <<pc, count, got>>
    BY <1>8, ZenonT(30) DEF Send, WriteDone, Ordered
  <2>2. CurOK
    BY <2>1, ZenonT(30) DEF Ordered
  <2>21. \A v \in Writer, r \in Sender : Unsent(v, r)' => Unsent(v, r)
    BY <2>1, CrossedOff, ZenonT(30)
  <2>3. ASSUME NEW r \in Sender, r # s PROVE Sorted(Stream(r))' /\ Stamped(r)'
    <3>1. Stream(r)' = Stream(r)
      BY <2>1, <2>3, ZenonT(30) DEF Stream
    <3>2. \A v \in Writer : Unsent(v, r)' => Unsent(v, r)
      BY <2>21, SMTT(30)
    <3>3. \A v \in Writer : count'[v] \in Nat /\ count'[v] = count[v]
      BY <2>1, ZenonT(30)
    <3>4. Sorted(Stream(r)) /\ Stamped(r)
      BY DEF Ordered
    <3>5. QED
      BY <3>1, <3>2, <3>3, <3>4, StreamKept
  <2>4. Sorted(Stream(s))' /\ Stamped(s)'
    <3>1. Current(w) \in Tuple /\ Current(w) = <<w, count[w]>> /\ count[w] \in Nat
      BY <2>1 DEF Current
    <3>2. Stream(s) \in Seq(Tuple) /\ Sorted(Stream(s)) /\ Stamped(s)
      BY DEF Ordered, Stream
    <3>3. Stream(s)' = Append(Stream(s), Current(w))
      <4>1. chan'[s] = Append(chan[s], Current(w)) /\ got'[s] = got[s]
        BY <2>1
      <4>2. QED
        BY <4>1, <3>1, SendExtendsStream, SMTT(30) DEF Stream
    <3>4. \A i \in 1..Len(Stream(s)) : Earlier(Stream(s)[i], Current(w))
      <4>1. Unsent(w, s)
        BY <2>1 DEF Unsent
      <4>2. Before(Stream(s), w, count[w])
        BY <3>2, <4>1 DEF Stamped
      <4>3. QED
        BY <3>1, <4>2 DEF Before, Earlier
    <3>5. Sorted(Append(Stream(s), Current(w)))
      BY <3>1, <3>2, <3>4, SortedAppend, ZenonT(30)
    <3>6. Sorted(Stream(s))'
      BY <3>3, <3>5, ZenonT(30) DEF Sorted, Earlier
    <3> DEFINE ns == Append(Stream(s), Current(w))
    <3>7. ASSUME NEW v \in Writer
          PROVE  /\ Before(ns, v, count'[v] + 1)
                 /\ Unsent(v, s)' => Before(ns, v, count'[v])
      <4>0. count'[v] = count[v]
        BY <2>1
      <4>1. /\ count'[v] = count[v] /\ count[v] \in Nat /\ count[v] + 1 \in Nat
            /\ Unsent(v, s)' => Unsent(v, s)
        <5>1. count[v] \in Nat
          OBVIOUS
        <5>2. Unsent(v, s)' => Unsent(v, s)
          BY <2>21
        <5>3. QED
          BY <4>0, <5>1, <5>2
      <4> ~Unsent(w, s)'
        BY <2>1 DEF Unsent
      <4>2. /\ Before(Stream(s), v, count[v] + 1)
            /\ Unsent(v, s) => Before(Stream(s), v, count[v])
        BY <3>2 DEF Stamped
      <4>3. Current(w)[1] = w /\ Current(w)[2] < count[w] + 1
        BY <3>1
      <4>4. Before(ns, v, count[v] + 1)
        BY <3>1, <3>2, <4>1, <4>2, <4>3, BeforeAppend, SMTT(30)
      <4>5. Unsent(v, s)' => Before(ns, v, count[v])
        BY <3>1, <3>2, <4>1, <4>2, <4>3, BeforeAppend, SMTT(30)
      <4>6. QED
        BY <4>1, <4>4, <4>5
    <3>8. Stream(s)' = ns
      BY <3>3
    <3> HIDE DEF ns
    <3>9. Stamped(s)'
      BY <3>7, <3>8, ZenonT(30) DEF Stamped, Before
    <3>10. QED
      BY <3>6, <3>9
  <2>5. QED
    BY <2>2, <2>3, <2>4, SMTT(30) DEF Ordered
<1>9. ASSUME NEW w \in Writer, NEW s \in Sender, DropOldest(w, s) PROVE Ordered'
  <2>1. /\ pc[w] = "pop" /\ pc' = [pc EXCEPT ![w] = "send"]
        /\ UNCHANGED <<count, todo, cur, got>>
        /\ \/ chan[s] # <<>> /\ chan' = [chan EXCEPT ![s] = Tail(chan[s])]
           \/ UNCHANGED chan
    BY <1>9, SMTT(30) DEF DropOldest
  <2>2. CurOK
    BY <2>1, SMTT(30) DEF Ordered
  <2>3. \A v \in Writer, r \in Sender :
           /\ count'[v] \in Nat /\ count'[v] = count[v]
           /\ Unsent(v, r)' => Unsent(v, r)
    BY <2>1 DEF Unsent
  <2>4. ASSUME NEW r \in Sender, Stream(r)' = Stream(r)
        PROVE  Sorted(Stream(r))' /\ Stamped(r)'
    <3>1. Sorted(Stream(r)) /\ Stamped(r)
      BY DEF Ordered
    <3>2. QED
      BY <2>3, <2>4, <3>1, StreamKept
  <2>5. CASE UNCHANGED chan
    <3>1. \A r \in Sender : Stream(r)' = Stream(r)
      BY <2>1, <2>5, ZenonT(30) DEF Stream
    <3>2. QED
      BY <2>2, <2>4, <3>1, SMTT(30) DEF Ordered
  <2>6. CASE chan[s] # <<>> /\ chan' = [chan EXCEPT ![s] = Tail(chan[s])]
    <3>1. \A r \in Sender : r # s => Stream(r)' = Stream(r)
      BY <2>1, <2>6, ZenonT(30) DEF Stream
    <3>2. Stream(s)' = got[s] \o Tail(chan[s]) /\ Stream(s) = got[s] \o chan[s]
      BY <2>1, <2>6, ZenonT(30) DEF Stream
    <3>3. Sorted(Stream(s)) /\ Stamped(s)
      BY SMTT(30) DEF Ordered
    <3>4. /\ Sorted(got[s] \o Tail(chan[s]))
          /\ \A i \in 1..Len(got[s] \o Tail(chan[s])) :
                \E j \in 1..Len(got[s] \o chan[s]) :
                    (got[s] \o Tail(chan[s]))[i] = (got[s] \o chan[s])[j]
      <4>1. /\ got[s] \in Seq(Tuple) /\ chan[s] \in Seq(Tuple) /\ chan[s] # <<>>
            /\ Sorted(got[s] \o chan[s])
        BY <2>6, <3>2, <3>3
      <4>2. QED
        BY <4>1, DropKeepsSorted, SMTT(30)
    <3>5. Sorted(Stream(s))'
      BY <3>2, <3>4, ZenonT(30) DEF Sorted, Earlier
    <3>6. ASSUME NEW v \in Writer, NEW n \in Nat, Before(got[s] \o chan[s], v, n)
          PROVE  Before(got[s] \o Tail(chan[s]), v, n)
      BY <3>4, <3>6, ZenonT(30) DEF Before
    <3>7. ASSUME NEW v \in Writer
          PROVE  /\ Before(got[s] \o Tail(chan[s]), v, count[v] + 1)
                 /\ Unsent(v, s)' => Before(got[s] \o Tail(chan[s]), v, count[v])
      <4>1. count[v] \in Nat /\ count[v] + 1 \in Nat
        BY SMTT(30)
      <4>2. QED
        BY <2>3, <3>2, <3>3, <3>6, <4>1 DEF Stamped
    <3>8. Stamped(s)'
      BY <2>3, <3>2, <3>7, ZenonT(30) DEF Stamped, Before
    <3>9. QED
      BY <2>2, <2>4, <3>1, <3>5, <3>8, SMTT(30) DEF Ordered
  <2>7. QED
    BY <2>1, <2>5, <2>6, SMTT(30)
<1>10. ASSUME NEW s \in Sender, Receive(s) PROVE Ordered'
  <2>1. /\ chan[s] # <<>> /\ chan' = [chan EXCEPT ![s] = Tail(chan[s])]
        /\ got' = [got EXCEPT ![s] = Append(got[s], Head(chan[s]))]
        /\ UNCHANGED wvars
    BY <1>10 DEF Receive
  <2>2. ASSUME NEW r \in Sender PROVE Stream(r)' = Stream(r)
    <3>1. CASE r = s
      <4>1. Stream(r)' = Append(got[s], Head(chan[s])) \o Tail(chan[s])
        BY <2>1, <3>1 DEF Stream
      <4>2. QED
        BY <2>1, <3>1, <4>1, ReceiveKeepsStream DEF Stream
    <3>2. CASE r # s
      BY <2>1, <3>2 DEF Stream
    <3>3. QED
      BY <3>1, <3>2
  <2>3. \A v \in Writer, r \in Sender :
           /\ count'[v] \in Nat /\ count'[v] = count[v]
           /\ Unsent(v, r)' => Unsent(v, r)
    BY <2>1 DEF Unsent
  <2>4. ASSUME NEW r \in Sender PROVE Sorted(Stream(r))' /\ Stamped(r)'
    <3>1. Sorted(Stream(r)) /\ Stamped(r)
      BY DEF Ordered
    <3>2. QED
      BY <2>2, <2>3, <3>1, StreamKept
  <2>5. QED
    BY <2>1, <2>4 DEF Ordered
<1>11. CASE UNCHANGED <<chan, got, wvars>>
  <2>1. Kept /\ CurOK
    BY <1>11, SMTT(30) DEF Unsent, Ordered
  <2>2. QED
    BY <1>2, <2>1
<1>12. ASSUME NEW s \in Sender,
              Add(s) \/ Accept(s) \/ Refuse(s) \/ TakeBack(s) \/ ReceiverClose(s)
              \/ SenderClose(s) \/ RemoveGoroutine(s)
       PROVE  Ordered'
  BY <1>11, <1>12, ZenonT(30) DEF Add, Accept, Refuse, TakeBack, ReceiverClose, SenderClose, RemoveGoroutine
<1>13. CASE Pause \/ Resume \/ Close
  BY <1>11, <1>13 DEF Pause, Resume, Close
<1>14. QED
  BY <1>1, <1>3, <1>4, <1>5, <1>6, <1>8, <1>9, <1>10, <1>12, <1>13
  DEF Next, WriteStep, PipeStep

\* Every pipe hands the tuples of a goroutine over in the order written and none
\* of them twice, in all drop modes, for any number of goroutines and pipes.
THEOREM PipesKeepOrder == Spec => []InOrderOnce
<1>1. Init => Ordered /\ Locks /\ TypeInv
  <2> SUFFICES ASSUME Init PROVE Ordered /\ Locks /\ TypeInv
    OBVIOUS
  <2>1. \A s \in Sender : Len(Stream(s)) = 0
    BY DEF Init, Stream
  <2>2. ASSUME NEW s \in Sender PROVE Sorted(Stream(s)) /\ Stamped(s)
    <3>1. 1..Len(Stream(s)) = {}
      BY <2>1
    <3>2. QED
      BY <3>1 DEF Sorted, Stamped, Before
  <2>3. Ordered
    BY <2>2 DEF Init, Ordered
  <2>4. Locks
    BY DEF Init, Locks, PausedIsQuiet, Quiet
  <2>5. TypeInv
    BY DEF Init, TypeInv, Counted, TypeOK, PC, Conn
  <2>6. QED
    BY <2>3, <2>4, <2>5
<1>2. TypeInv /\ Locks /\ Ordered /\ [Next]_vars /\ TypeOK' => Ordered'
  <2> SUFFICES ASSUME TypeInv, Locks, Ordered, [Next]_vars, TypeOK' PROVE Ordered'
    OBVIOUS
  <2>1. OrderTypes /\ OrderTypes'
    BY DEF TypeInv, TypeOK, OrderTypes
  <2>2. \A w \in Writer : pc[w] # "idle" => Current(w) \in Tuple
    BY CurrentType
  <2>3. QED
    BY <2>1, <2>2, OrderedStep
<1>3. TypeOK /\ Ordered => InOrderOnce
  BY ZenonT(30) DEF Ordered, InOrderOnce, Stream, Sorted, Earlier
<1>4. TypeOK /\ Locks /\ [Next]_vars => Locks'
  BY LocksStep DEF TypeOK, LockTypes
<1>5. TypeInv => TypeOK
  BY DEF TypeInv
<1>6. QED
  BY <1>1, <1>2, <1>3, <1>4, <1>5, TypeStep, PTL DEF Spec
=============================================================================
