------------------------ MODULE ChannelManager_proofs ------------------------
(***************************************************************************)
(* Proofs about the channel manager, for every CHANNEL_MAX_COUNT, every  *)
(* number of reconnections, and all sets of plugins, names and writes:   *)
(* type correctness, the soundness of g_ChannelHandles across close and   *)
(* reload, and the safety part of the refinement of WriteService.          *)
(***************************************************************************)
EXTENDS ChannelManager, TLAPS

(* Handles above g_OpenHandleSeq have not been given out yet.             *)
Fresh == \A h \in Handles : seq < h => handles[h] = -1

(* Every live slot carries a handle that was given out.                   *)
LiveHandles == \A i \in 0 .. openCount - 1 : opens[i].handle \in 2 .. seq

(* g_OpenHandleSeq grows by at most CHANNEL_MAX_COUNT per connection: by  *)
(* the live slots in this one, and by all of them once it is closed.      *)
SeqBound ==
  seq <= 1 + cycle * MaxCount
           + (IF mpc \in {"closed", "freed"} THEN MaxCount ELSE openCount)

(* Each message of the queue is a write, queued, and in it once.          *)
QueueOK ==
  /\ \A k \in 1 .. Len(queue) : queue[k] # Quit => wr[queue[k]].st = "queued"
  /\ \A j, k \in 1 .. Len(queue) : queue[j] = queue[k] /\ queue[j] # Quit => j = k

(* Each write queued and not yet answered is in the queue.                *)
Pending ==
  \A w \in Writes : wr[w].st = "queued" => \E k \in 1 .. Len(queue) : queue[k] = w

(* freerdp_channels_close resets openDataCount, and nothing registers    *)
(* again before the next connection.                                       *)
ClosedEmpty == mpc \in {"closed", "freed"} => openCount = 0

IInv ==
  /\ TypeOK /\ HandleTableSound /\ Fresh /\ LiveHandles /\ SeqBound
  /\ QueueOK /\ Pending /\ ClosedEmpty

-----------------------------------------------------------------------------
(* Arithmetic on the handle range.                                         *)

(* One more connection adds CHANNEL_MAX_COUNT to the bound.                *)
LEMMA MulStep ==
  ASSUME NEW c \in Nat, NEW m \in Nat
  PROVE  (c + 1) * m = c * m + m
OBVIOUS

(* A connection before the last one stays below the last one's bound.     *)
LEMMA MulMono ==
  ASSUME NEW c \in Nat, NEW C \in Nat, NEW m \in Nat, c <= C
  PROVE  c * m + m <= (C + 1) * m
OBVIOUS

(* Handles given out in any connection lie in the range Handles.          *)
LEMMA SeqRange ==
  ASSUME CountAssumption, NEW c \in 0 .. MaxCycles, NEW k \in 0 .. MaxCount,
         NEW s \in Int, s <= 1 + c * MaxCount + k
  PROVE  s <= 1 + (MaxCycles + 1) * MaxCount
<1>1. c * MaxCount + MaxCount <= (MaxCycles + 1) * MaxCount
  BY CountAssumption, MulMono
<1>2. c * MaxCount \in Int
  BY CountAssumption
<1>. QED  BY <1>1, <1>2

-----------------------------------------------------------------------------
(* The initial state.                                                      *)

LEMMA InitIInv == Init => IInv
<1>. SUFFICES ASSUME Init PROVE IInv
  OBVIOUS
<1>1. TypeOK
  <2>1. 1 \in 1 .. 1 + (MaxCycles + 1) * MaxCount
    <3>. (MaxCycles + 1) * MaxCount \in Nat
      BY CountAssumption
    <3>. QED  OBVIOUS
  <2>2. opens \in [Slots -> Slot]
    BY DEF Init, Slot
  <2>3. handles \in [Handles -> Slots \cup {-1}]
    BY DEF Init
  <2>4. wr \in [Writes -> Write]
    BY DEF Init, Write
  <2>5. clients \in Seq(Plugins) /\ Len(clients) <= MaxCount
    BY CountAssumption DEF Init
  <2>6. queue \in Seq(Writes \cup {Quit})
    BY DEF Init
  <2>7. cycle \in 0 .. MaxCycles /\ initCount \in Nat /\ openCount \in 0 .. MaxCount
    BY CountAssumption DEF Init
  <2>8. tried \subseteq Plugins /\ connected \in BOOLEAN
    BY DEF Init
  <2>9. mpc = "load" /\ seq = 1
    BY DEF Init
  <2>. QED  BY <2>1, <2>2, <2>3, <2>4, <2>5, <2>6, <2>7, <2>8, <2>9 DEF TypeOK
<1>2. SeqBound
  <2>. 0 * MaxCount = 0
    BY CountAssumption
  <2>. QED  BY CountAssumption DEF Init, SeqBound
<1>. QED
  BY <1>1, <1>2 DEF Init, IInv, HandleTableSound, Fresh, LiveHandles, QueueOK, Pending,
                    ClosedEmpty

-----------------------------------------------------------------------------
(* Steps of the main thread that leave the tables alone.                   *)

(* Connection and disconnection move mpc among the open states and set or *)
(* clear `connected`.                                                      *)
LEMMA LifecycleIInv ==
  ASSUME IInv, PostConnect \/ Disconnect \/ DisconnectFlushed \/ DisconnectDone
  PROVE  IInv'
<1>1. UNCHANGED <<queue, wr>>
  BY DEF PostConnect, Disconnect, DisconnectFlushed, DisconnectDone
<1>2. Pending' /\ QueueOK'
  BY <1>1 DEF IInv, Pending, QueueOK
<1>. QED
  BY <1>2 DEF IInv, TypeOK, HandleTableSound, Fresh, LiveHandles, SeqBound,
              ClosedEmpty, PostConnect, Disconnect, DisconnectFlushed, DisconnectDone

(* freerdp_channels_close's first half posts WMQ_QUIT.                     *)
LEMMA CloseIInv ==
  ASSUME IInv, Close
  PROVE  IInv'
<1>1. /\ Len(queue') = Len(queue) + 1
      /\ \A k \in 1 .. Len(queue) : queue'[k] = queue[k]
      /\ queue'[Len(queue) + 1] = Quit
      /\ queue' \in Seq(Writes \cup {Quit})
      /\ Len(queue) \in Nat /\ wr' = wr
  BY DEF IInv, TypeOK, Close
<1>2. Pending'
  BY <1>1 DEF IInv, Pending
<1>3. QueueOK'
  <2>1. \A k \in 1 .. Len(queue') : queue'[k] # Quit => wr'[queue'[k]].st = "queued"
    BY <1>1 DEF IInv, QueueOK
  <2>2. \A j, k \in 1 .. Len(queue') : queue'[j] = queue'[k] /\ queue'[j] # Quit => j = k
    BY <1>1 DEF IInv, QueueOK
  <2>. QED  BY <2>1, <2>2 DEF QueueOK
<1>. QED
  BY <1>1, <1>2, <1>3 DEF IInv, TypeOK, HandleTableSound, Fresh, LiveHandles,
                          SeqBound, ClosedEmpty, Close

(* A new connection after a close starts from empty tables.                *)
LEMMA ReconnectIInv ==
  ASSUME IInv, Reconnect
  PROVE  IInv'
<1>. USE CountAssumption
<1>1. seq <= 1 + (cycle + 1) * MaxCount + 0
  BY MulStep DEF IInv, TypeOK, SeqBound, ClosedEmpty, Reconnect
<1>. QED
  BY <1>1 DEF IInv, TypeOK, HandleTableSound, Fresh, LiveHandles, SeqBound,
              QueueOK, Pending, ClosedEmpty, Reconnect

-----------------------------------------------------------------------------
(* Plugin threads.                                                         *)

(* Opening or closing a channel changes only the slot's flags, never its  *)
(* name or handle, so g_ChannelHandles stays in step.                      *)
LEMMA FlagsFrame ==
  ASSUME IInv, NEW x, NEW v \in 0 .. 2,
         opens' = [opens EXCEPT ![x].flags = v],
         UNCHANGED <<mpc, cycle, tried, connected, clients, initCount, openCount,
                     handles, seq, queue, wr>>
  PROVE  IInv'
<1>1. opens' \in [Slots -> Slot]
  BY DEF IInv, TypeOK, Slot
<1>2. \A i \in Slots : opens'[i].handle = opens[i].handle
  BY DEF IInv, TypeOK, Slot
<1>. QED
  BY <1>1, <1>2 DEF IInv, TypeOK, HandleTableSound, Fresh, LiveHandles,
                    SeqBound, QueueOK, Pending, ClosedEmpty

LEMMA OpenChannelIInv ==
  ASSUME IInv, NEW n \in Names, OpenChannel(n)
  PROVE  IInv'
<1>1. opens' = [opens EXCEPT ![FindByName(n)].flags = 2]
  BY DEF OpenChannel
<1>2. UNCHANGED <<mpc, cycle, tried, connected, clients, initCount, openCount,
                  handles, seq, queue, wr>>
  BY DEF OpenChannel
<1>3. 2 \in 0 .. 2 /\ 0 \in 0 .. 2
  OBVIOUS
<1>. QED  BY <1>1, <1>2, <1>3, FlagsFrame

LEMMA CloseChannelIInv ==
  ASSUME IInv, NEW h \in Handles, CloseChannel(h)
  PROVE  IInv'
<1>1. opens' = [opens EXCEPT ![handles[h]].flags = 0]
  BY DEF CloseChannel
<1>2. UNCHANGED <<mpc, cycle, tried, connected, clients, initCount, openCount,
                  handles, seq, queue, wr>>
  BY DEF CloseChannel
<1>3. 2 \in 0 .. 2 /\ 0 \in 0 .. 2
  OBVIOUS
<1>. QED  BY <1>1, <1>2, <1>3, FlagsFrame

(* The first half of a write moves an idle write, which is in no queue.   *)
LEMMA WriteCheckIInv ==
  ASSUME IInv, NEW w \in Writes, NEW h \in Handles, WriteCheck(w, h)
  PROVE  IInv'
<1>1. wr' \in [Writes -> Write]
  <2>. DEFINE ok == handles[h] # -1 /\ connected /\ opens[handles[h]].flags = 2
  <2>1. wr' = [wr EXCEPT ![w].st = IF ok THEN "checked" ELSE "refused",
                         ![w].slot = IF ok THEN handles[h] ELSE -1]
    BY DEF WriteCheck
  <2>2. handles[h] \in Slots \cup {-1}
    BY DEF IInv, TypeOK
  <2>3. wr[w] \in Write
    BY DEF IInv, TypeOK
  <2>4. CASE ok
    <3>1. handles[h] \in Slots
      BY <2>2, <2>4
    <3>2. wr' = [wr EXCEPT ![w] = [wr[w] EXCEPT !.st = "checked", !.slot = handles[h]]]
      BY <2>1, <2>4
    <3>3. [wr[w] EXCEPT !.st = "checked", !.slot = handles[h]] \in Write
      BY <2>3, <3>1 DEF Write
    <3>. QED  BY <3>2, <3>3 DEF IInv, TypeOK
  <2>5. CASE ~ok
    <3>2. wr' = [wr EXCEPT ![w] = [wr[w] EXCEPT !.st = "refused", !.slot = -1]]
      BY <2>1, <2>5
    <3>3. [wr[w] EXCEPT !.st = "refused", !.slot = -1] \in Write
      BY <2>3 DEF Write
    <3>. QED  BY <3>2, <3>3 DEF IInv, TypeOK
  <2>. QED  BY <2>4, <2>5
<1>2. \A k \in 1 .. Len(queue) : queue[k] # w
  BY ValuesAssumption DEF IInv, QueueOK, WriteCheck
<1>3. QueueOK'
  BY <1>2 DEF IInv, TypeOK, QueueOK, WriteCheck
<1>4. Pending'
  <2>1. wr'[w].st \in {"checked", "refused"} /\ \A x \in Writes \ {w} : wr'[x] = wr[x]
    BY DEF IInv, TypeOK, WriteCheck
  <2>. QED  BY <2>1 DEF IInv, Pending, WriteCheck
<1>. QED
  BY <1>1, <1>3, <1>4 DEF IInv, TypeOK, HandleTableSound, Fresh, LiveHandles,
                          SeqBound, ClosedEmpty, WriteCheck

(* The dispatch appends a checked write, which is in no queue yet.         *)
LEMMA WriteDispatchIInv ==
  ASSUME IInv, NEW w \in Writes, WriteDispatch(w)
  PROVE  IInv'
<1>1. wr' \in [Writes -> Write] /\ queue' \in Seq(Writes \cup {Quit})
  <2>1. [wr[w] EXCEPT !.st = "queued"] \in Write
    BY DEF IInv, TypeOK, Write
  <2>2. wr' = [wr EXCEPT ![w] = [wr[w] EXCEPT !.st = "queued"]]
    BY DEF WriteDispatch
  <2>. QED  BY <2>1, <2>2 DEF IInv, TypeOK, WriteDispatch
<1>2. \A k \in 1 .. Len(queue) : queue[k] # w
  BY ValuesAssumption DEF IInv, QueueOK, WriteDispatch
<1>3. QueueOK'
  <2>1. /\ Len(queue') = Len(queue) + 1
        /\ queue'[Len(queue) + 1] = w
        /\ \A k \in 1 .. Len(queue) : queue'[k] = queue[k]
    BY DEF IInv, TypeOK, WriteDispatch
  <2>2. wr'[w].st = "queued" /\ \A x \in Writes \ {w} : wr'[x] = wr[x]
    BY DEF IInv, TypeOK, WriteDispatch
  <2>3. \A k \in 1 .. Len(queue') : queue'[k] # Quit => wr'[queue'[k]].st = "queued"
    BY <1>2, <2>1, <2>2 DEF IInv, TypeOK, QueueOK
  <2>4. \A j, k \in 1 .. Len(queue') :
          queue'[j] = queue'[k] /\ queue'[j] # Quit => j = k
    <3> SUFFICES ASSUME NEW j \in 1 .. Len(queue'), NEW k \in 1 .. Len(queue'),
                        queue'[j] = queue'[k], queue'[j] # Quit
                 PROVE  j = k
      OBVIOUS
    <3>1. Len(queue) \in Nat
      BY DEF IInv, TypeOK
    <3>2. CASE j <= Len(queue) /\ k <= Len(queue)
      BY <2>1, <3>1, <3>2 DEF IInv, QueueOK
    <3>3. CASE j = Len(queue) + 1 /\ k <= Len(queue)
      BY <1>2, <2>1, <3>1, <3>3
    <3>4. CASE k = Len(queue) + 1 /\ j <= Len(queue)
      BY <1>2, <2>1, <3>1, <3>4
    <3>. QED  BY <2>1, <3>1, <3>2, <3>3, <3>4
  <2>. QED  BY <2>3, <2>4 DEF QueueOK
<1>4. Pending'
  <2>1. /\ Len(queue') = Len(queue) + 1
        /\ queue'[Len(queue) + 1] = w
        /\ \A k \in 1 .. Len(queue) : queue'[k] = queue[k]
        /\ \A x \in Writes \ {w} : wr'[x] = wr[x]
        /\ Len(queue) \in Nat
    BY DEF IInv, TypeOK, WriteDispatch
  <2>2. SUFFICES ASSUME NEW x \in Writes, wr'[x].st = "queued"
                 PROVE  \E k \in 1 .. Len(queue') : queue'[k] = x
    BY DEF Pending
  <2>3. CASE x = w
    BY <2>1, <2>3
  <2>4. CASE x # w
    <3>1. \E k \in 1 .. Len(queue) : queue[k] = x
      BY <2>1, <2>2, <2>4 DEF IInv, Pending
    <3>. QED  BY <2>1, <3>1
  <2>. QED  BY <2>3, <2>4
<1>. QED
  BY <1>1, <1>3, <1>4 DEF IInv, TypeOK, HandleTableSound, Fresh, LiveHandles,
                          SeqBound, ClosedEmpty, WriteDispatch

-----------------------------------------------------------------------------
(* The main thread's queue and tables.                                      *)

(* channel_queue_free on every queued message leaves each write typed.     *)
LEMMA CancelAllType ==
  ASSUME TypeOK
  PROVE  CancelAll \in [Writes -> Write]
<1>. SUFFICES ASSUME NEW w \in Writes
              PROVE  [wr[w] EXCEPT !.st = "done", !.ev = "cancelled"] \in Write
  BY DEF CancelAll, TypeOK
<1>. QED  BY DEF TypeOK, Write

(* After channel_queue_free on every queued message no write is left      *)
(* queued: those in the queue are cancelled, and no other is queued.       *)
LEMMA CancelAllPending ==
  ASSUME TypeOK, Pending, NEW x \in Writes
  PROVE  CancelAll[x].st # "queued"
<1>1. CASE \E k \in 1 .. Len(queue) : queue[k] = x
  <2>1. CancelAll[x] = [wr[x] EXCEPT !.st = "done", !.ev = "cancelled"]
    BY <1>1 DEF CancelAll
  <2>. QED  BY <2>1 DEF TypeOK, Write
<1>2. CASE ~\E k \in 1 .. Len(queue) : queue[k] = x
  <2>1. CancelAll[x] = wr[x]
    BY <1>2 DEF CancelAll
  <2>. QED  BY <1>2, <2>1 DEF Pending
<1>. QED  BY <1>1, <1>2

(* MessageQueue_Clear in freerdp_channels_pre_connect.                     *)
LEMMA PreConnectIInv ==
  ASSUME IInv, PreConnect
  PROVE  IInv'
<1>1. Pending'
  BY CancelAllPending DEF IInv, Pending, PreConnect
<1>. QED
  BY <1>1, CancelAllType DEF IInv, TypeOK, HandleTableSound, Fresh, LiveHandles,
                             SeqBound, QueueOK, ClosedEmpty, PreConnect

(* MessageQueue_Free in freerdp_channels_free.                             *)
LEMMA FreeIInv ==
  ASSUME IInv, Free
  PROVE  IInv'
<1>1. Pending'
  BY CancelAllPending DEF IInv, Pending, Free
<1>. QED
  BY <1>1, CancelAllType DEF IInv, TypeOK, HandleTableSound, Fresh, LiveHandles,
                             SeqBound, QueueOK, ClosedEmpty, Free

(* The last step of freerdp_channels_close empties g_ChannelHandles of   *)
(* every handle the table held: each of them belongs to a live slot.      *)
LEMMA CloseDoneIInv ==
  ASSUME IInv, CloseDone
  PROVE  IInv'
<1>. USE CountAssumption
<1>1. \A h \in Handles : handles'[h] = -1
  <2> SUFFICES ASSUME NEW h \in Handles, handles[h] # -1
               PROVE  \E i \in 0 .. openCount - 1 : opens[i].handle = h
    BY DEF CloseDone
  <2>1. handles[h] \in 0 .. openCount - 1 /\ opens[handles[h]].handle = h
    BY DEF IInv, TypeOK, HandleTableSound, Slots
  <2>. QED  BY <2>1
<1>2. handles' \in [Handles -> Slots \cup {-1}]
  BY <1>1 DEF CloseDone
<1>3. SeqBound'
  BY DEF IInv, TypeOK, SeqBound, CloseDone
<1>. QED
  BY <1>1, <1>2, <1>3 DEF IInv, TypeOK, HandleTableSound, Fresh, LiveHandles,
                          QueueOK, Pending, ClosedEmpty, CloseDone

(* One message taken off the queue: the rest stay queued and distinct.   *)
LEMMA ProcessMessageIInv ==
  ASSUME IInv, ProcessMessage
  PROVE  IInv'
<1>. DEFINE w == Head(queue)
<1>1. /\ Len(queue) \in Nat \ {0}
      /\ w = queue[1]
      /\ Len(queue') = Len(queue) - 1
      /\ \A k \in 1 .. Len(queue') : queue'[k] = queue[k + 1]
      /\ queue' \in Seq(Writes \cup {Quit})
  BY DEF IInv, TypeOK, ProcessMessage
<1>2. \A k \in 2 .. Len(queue) : w # Quit => queue[k] # w
  BY <1>1 DEF IInv, QueueOK
<1>3. /\ wr' \in [Writes -> Write]
      /\ \A x \in Writes : x # w => wr'[x] = wr[x]
  <2>1. CASE w = Quit
    BY <2>1 DEF ProcessMessage, IInv, TypeOK
  <2>2. CASE w # Quit
    <3>1. w \in Writes
      BY <1>1, <2>2 DEF IInv, TypeOK
    <3>2. PICK ev \in {"complete", "cancelled"} : wr' = Deliver(w, ev)
      BY <2>2 DEF ProcessMessage
    <3>3. wr' = [wr EXCEPT ![w] = [wr[w] EXCEPT !.st = "done", !.ev = ev]]
      BY <3>2 DEF Deliver
    <3>4. [wr[w] EXCEPT !.st = "done", !.ev = ev] \in Write
      BY <3>1 DEF IInv, TypeOK, Write
    <3>. QED  BY <3>1, <3>3, <3>4 DEF IInv, TypeOK
  <2>. QED  BY <2>1, <2>2
<1>4. QueueOK'
  <2>1. ASSUME NEW k \in 1 .. Len(queue'), queue'[k] # Quit
        PROVE  wr'[queue'[k]].st = "queued"
    <3>1. k + 1 \in 2 .. Len(queue) /\ queue'[k] = queue[k + 1]
      BY <1>1
    <3>2. queue[k + 1] # w /\ queue[k + 1] \in Writes
      BY <1>1, <1>2, <2>1, <3>1 DEF IInv, TypeOK
    <3>3. wr[queue[k + 1]].st = "queued"
      BY <1>1, <2>1, <3>1 DEF IInv, QueueOK
    <3>. QED  BY <1>3, <3>1, <3>2, <3>3
  <2>2. ASSUME NEW j \in 1 .. Len(queue'), NEW k \in 1 .. Len(queue'),
               queue'[j] = queue'[k], queue'[j] # Quit
        PROVE  j = k
    <3>1. j + 1 \in 1 .. Len(queue) /\ k + 1 \in 1 .. Len(queue)
      BY <1>1
    <3>. QED  BY <1>1, <2>2, <3>1 DEF IInv, QueueOK
  <2>. QED  BY <2>1, <2>2 DEF QueueOK
<1>5. Pending'
  <2>1. SUFFICES ASSUME NEW x \in Writes, wr'[x].st = "queued"
                 PROVE  \E k \in 1 .. Len(queue') : queue'[k] = x
    BY DEF Pending
  <2>2. x # w
    <3>1. CASE w = Quit
      BY <3>1, ValuesAssumption
    <3>2. CASE w # Quit
      <4>1. PICK ev \in {"complete", "cancelled"} : wr' = Deliver(w, ev)
        BY <3>2 DEF ProcessMessage
      <4>2. w \in Writes
        BY <1>1, <3>2 DEF IInv, TypeOK
      <4>3. wr'[w].st = "done"
        BY <4>1, <4>2 DEF Deliver, IInv, TypeOK
      <4>. QED  BY <2>1, <4>3
    <3>. QED  BY <3>1, <3>2
  <2>3. PICK k \in 1 .. Len(queue) : queue[k] = x
    BY <1>3, <2>1, <2>2 DEF IInv, Pending
  <2>4. k # 1
    BY <1>1, <2>2, <2>3
  <2>5. k - 1 \in 1 .. Len(queue') /\ queue'[k - 1] = queue[k]
    BY <1>1, <2>3, <2>4
  <2>. QED  BY <2>3, <2>5
<1>. QED
  BY <1>1, <1>3, <1>4, <1>5 DEF IInv, TypeOK, HandleTableSound, Fresh, LiveHandles,
                                SeqBound, ClosedEmpty, ProcessMessage

-----------------------------------------------------------------------------
(* Loading a plugin.                                                       *)

(* The registration of VirtualChannelInit[Ex] gives the new slots the next *)
(* handles of g_OpenHandleSeq and enters them in g_ChannelHandles; since   *)
(* those handles were fresh and the live slots' handles are below seq,     *)
(* nothing already in the table is overwritten.                            *)
LEMMA RegisterIInv ==
  ASSUME IInv, mpc = "load", NEW p \in Plugins, NEW d \in Defs,
         ~TooMany(d), Len(clients) + 1 <= MaxCount, Register(p, d),
         tried' \subseteq Plugins, initCount' \in Nat,
         UNCHANGED <<mpc, cycle, connected, queue, wr>>
  PROVE  IInv'
<1>. USE CountAssumption
<1>. DEFINE n == Len(d)
<1>0. /\ opens \in [Slots -> Slot] /\ openCount \in 0 .. MaxCount
      /\ handles \in [Handles -> Slots \cup {-1}]
      /\ seq \in 1 .. 1 + (MaxCycles + 1) * MaxCount /\ cycle \in 0 .. MaxCycles
  BY DEF IInv, TypeOK
<1>. USE <1>0
<1>1. d \in Seq(Names) /\ n \in Nat \ {0}
  BY DefsAssumption
<1>2. /\ openCount + n <= MaxCount
      /\ seq' = seq + n /\ openCount' = openCount + n
      /\ seq + n <= 1 + cycle * MaxCount + MaxCount
  <2>1. openCount + n <= MaxCount
    BY DEF TooMany
  <2>2. seq' = seq + n /\ openCount' = openCount + n
    BY DEF Register
  <2>3. seq <= 1 + cycle * MaxCount + openCount
    BY DEF IInv, SeqBound
  <2>4. cycle * MaxCount \in Nat /\ seq \in Nat /\ openCount \in Nat
    BY DEF IInv, TypeOK
  <2>. QED  BY <1>1, <2>1, <2>2, <2>3, <2>4
<1>3. seq' \in 1 .. 1 + (MaxCycles + 1) * MaxCount
  <2>1. cycle * MaxCount + MaxCount <= (MaxCycles + 1) * MaxCount
    BY MulMono
  <2>2. cycle * MaxCount \in Nat
    OBVIOUS
  <2>. QED  BY <1>1, <1>2, <2>1, <2>2
<1>4. opens' \in [Slots -> Slot]
  <2>1. \A i \in Slots : openCount <= i /\ i < openCount + n =>
           /\ d[i - openCount + 1] \in Names
           /\ seq + (i - openCount) + 1 \in Handles
    BY <1>1, <1>2, <1>3 DEF Handles, Slots
  <2>2. ASSUME NEW i \in Slots PROVE opens'[i] \in Slot
    <3>1. CASE openCount <= i /\ i < openCount + n
      <4>1. opens'[i] = [name |-> d[i - openCount + 1], flags |-> 1,
                         handle |-> seq + (i - openCount) + 1]
        BY <3>1 DEF Register
      <4>. QED  BY <2>1, <3>1, <4>1 DEF Slot
    <3>4. CASE ~(openCount <= i /\ i < openCount + n)
      BY <3>4 DEF Register
    <3>. QED  BY <3>1, <3>4
  <2>. QED  BY <2>2 DEF Register
<1>H. \A h \in Handles :
        handles'[h] = IF seq < h /\ h <= seq + n THEN openCount + (h - seq) - 1
                      ELSE handles[h]
  BY DEF Register
<1>O. \A i \in Slots :
        opens'[i] = IF openCount <= i /\ i < openCount + n
                    THEN [name |-> d[i - openCount + 1], flags |-> 1,
                          handle |-> seq + (i - openCount) + 1]
                    ELSE opens[i]
  BY DEF Register
<1>5. handles' \in [Handles -> Slots \cup {-1}]
  <2>1. handles' = [h \in Handles |-> handles'[h]]
    BY DEF Register
  <2>2. ASSUME NEW h \in Handles, seq < h, h <= seq + n
        PROVE  openCount + (h - seq) - 1 \in Slots
    BY <1>1, <1>2, <2>2 DEF Slots, Handles
  <2>3. \A h \in Handles : handles'[h] \in Slots \cup {-1}
    BY <1>H, <2>2
  <2>. QED  BY <2>1, <2>3
<1>6. HandleTableSound'
  <2>1. ASSUME NEW h \in Handles, handles'[h] # -1
        PROVE  handles'[h] < openCount' /\ opens'[handles'[h]].handle = h
    <3>1. CASE seq < h /\ h <= seq + n
      <4>. DEFINE i == openCount + (h - seq) - 1
      <4>1. handles'[h] = i
        BY <1>H, <3>1
      <4>2. i \in Slots /\ openCount <= i /\ i < openCount + n
        BY <1>1, <1>2, <3>1 DEF Slots, Handles
      <4>3. opens'[i].handle = h
        <5>1. opens'[i] = [name |-> d[i - openCount + 1], flags |-> 1,
                           handle |-> seq + (i - openCount) + 1]
          BY <1>O, <4>2
        <5>2. seq + (i - openCount) + 1 = h
          BY DEF Handles
        <5>. QED  BY <5>1, <5>2
      <4>. QED  BY <1>2, <4>1, <4>2, <4>3
    <3>2. CASE ~(seq < h /\ h <= seq + n)
      <4>1. handles'[h] = handles[h] /\ handles[h] # -1
        BY <1>H, <2>1, <3>2
      <4>2. handles[h] \in 0 .. openCount - 1 /\ opens[handles[h]].handle = h
        BY <4>1 DEF IInv, HandleTableSound, Slots
      <4>3. handles[h] \in Slots /\ ~(openCount <= handles[h])
        BY <4>2 DEF Slots
      <4>4. opens'[handles[h]] = opens[handles[h]]
        BY <1>O, <4>3
      <4>. QED  BY <1>2, <4>1, <4>2, <4>4
    <3>. QED  BY <3>1, <3>2
  <2>2. ASSUME NEW i \in 0 .. openCount' - 1
        PROVE  handles'[opens'[i].handle] = i
    <3>1. CASE i >= openCount
      <4>1. i \in Slots /\ openCount <= i /\ i < openCount + n
        BY <1>1, <1>2, <3>1 DEF Slots
      <4>. DEFINE h == seq + (i - openCount) + 1
      <4>2. opens'[i] = [name |-> d[i - openCount + 1], flags |-> 1, handle |-> h]
        BY <1>O, <4>1
      <4>3. h \in Handles /\ seq < h /\ h <= seq + n
        BY <1>1, <1>2, <1>3, <4>1 DEF Handles
      <4>4. handles'[h] = openCount + (h - seq) - 1
        BY <1>H, <4>3
      <4>5. openCount + (h - seq) - 1 = i
        BY <4>1 DEF Slots
      <4>. QED  BY <4>2, <4>4, <4>5
    <3>2. CASE i < openCount
      <4>1. i \in Slots /\ ~(openCount <= i)
        BY <1>2, <3>2 DEF Slots
      <4>2. opens'[i] = opens[i]
        BY <1>O, <4>1
      <4>3. opens[i].handle \in 2 .. seq /\ handles[opens[i].handle] = i
        BY <3>2 DEF IInv, LiveHandles, HandleTableSound
      <4>4. opens[i].handle \in Handles /\ ~(seq < opens[i].handle)
        BY <4>3 DEF Handles
      <4>5. handles'[opens[i].handle] = handles[opens[i].handle]
        BY <1>H, <4>4
      <4>. QED  BY <4>2, <4>3, <4>5
    <3>. QED  BY <3>1, <3>2
  <2>. QED  BY <2>1, <2>2 DEF HandleTableSound
<1>7. Fresh' /\ LiveHandles'
  <2>1. Fresh'
    <3> SUFFICES ASSUME NEW h \in Handles, seq' < h PROVE handles'[h] = -1
      BY DEF Fresh
    <3>1. ~(seq < h /\ h <= seq + n) /\ seq < h
      BY <1>2 DEF Handles
    <3>2. handles'[h] = handles[h]
      BY <1>H, <3>1
    <3>. QED  BY <3>1, <3>2 DEF IInv, Fresh
  <2>2. LiveHandles'
    <3> SUFFICES ASSUME NEW i \in 0 .. openCount' - 1
                 PROVE  opens'[i].handle \in 2 .. seq'
      BY DEF LiveHandles
    <3>1. CASE i >= openCount
      <4>1. i \in Slots /\ openCount <= i /\ i < openCount + n
        BY <1>1, <1>2, <3>1 DEF Slots
      <4>2. opens'[i] = [name |-> d[i - openCount + 1], flags |-> 1,
                         handle |-> seq + (i - openCount) + 1]
        BY <1>O, <4>1
      <4>. QED  BY <1>1, <1>2, <4>1, <4>2 DEF Slots
    <3>2. CASE i < openCount
      <4>1. i \in Slots /\ ~(openCount <= i)
        BY <1>2, <3>2 DEF Slots
      <4>2. opens'[i] = opens[i]
        BY <1>O, <4>1
      <4>3. opens[i].handle \in 2 .. seq
        BY <3>2 DEF IInv, LiveHandles
      <4>4. seq \in Nat /\ seq' \in Nat /\ seq <= seq'
        BY <1>1, <1>2
      <4>. QED  BY <4>2, <4>3, <4>4
    <3>. QED  BY <3>1, <3>2
  <2>. QED  BY <2>1, <2>2
<1>8. SeqBound' /\ clients' \in Seq(Plugins) /\ Len(clients') <= MaxCount
  BY <1>2 DEF IInv, TypeOK, SeqBound, Register
<1>. QED
  BY <1>2, <1>3, <1>4, <1>5, <1>6, <1>7, <1>8
  DEF IInv, TypeOK, QueueOK, Pending, ClosedEmpty

(* A load that registers nothing changes only tried and initDataCount.    *)
LEMMA LoadFrame ==
  ASSUME IInv, tried' \subseteq Plugins, initCount' \in Nat,
         UNCHANGED <<mpc, cycle, connected, clients, opens, openCount, handles,
                     seq, queue, wr>>
  PROVE  IInv'
BY DEF IInv, TypeOK, HandleTableSound, Fresh, LiveHandles, SeqBound, QueueOK, Pending,
       ClosedEmpty

LEMMA LoadIInv ==
  ASSUME IInv, NEW p \in Plugins, Load(p)
  PROVE  IInv'
<1>1. tried' \subseteq Plugins /\ mpc = "load"
      /\ UNCHANGED <<mpc, cycle, connected, queue, wr>>
  BY DEF Load, IInv, TypeOK
<1>2. CASE /\ Len(clients) + 1 > MaxCount
           /\ UNCHANGED <<clients, initCount, opens, openCount, handles, seq>>
  BY <1>1, <1>2, LoadFrame DEF IInv, TypeOK
<1>3. CASE /\ Len(clients) + 1 <= MaxCount
           /\ \E ex \in BOOLEAN, call \in BOOLEAN, d \in Defs :
                /\ initCount' = initCount + (IF ex \/ call THEN 1 ELSE 0)
                /\ IF call THEN InitChannels(p, d)
                   ELSE UNCHANGED <<clients, opens, handles, seq, openCount>>
  <2>1. PICK ex \in BOOLEAN, call \in BOOLEAN, d \in Defs :
          /\ initCount' = initCount + (IF ex \/ call THEN 1 ELSE 0)
          /\ IF call THEN InitChannels(p, d)
             ELSE UNCHANGED <<clients, opens, handles, seq, openCount>>
    BY <1>3
  <2>2. initCount' \in Nat
    BY <2>1 DEF IInv, TypeOK
  <2>3. CASE call
    <3>1. CASE TooMany(d) \/ ~\A k \in 1 .. Len(d) : FindByName(d[k]) = -1
      <4>1. UNCHANGED <<clients, opens, handles, seq, openCount>>
        BY <2>1, <2>3, <3>1 DEF InitChannels
      <4>. QED  BY <1>1, <2>2, <4>1, LoadFrame
    <3>2. CASE ~TooMany(d) /\ \A k \in 1 .. Len(d) : FindByName(d[k]) = -1
      <4>1. Register(p, d)
        BY <2>1, <2>3, <3>2 DEF InitChannels
      <4>. QED  BY <1>1, <1>3, <2>2, <3>2, <4>1, RegisterIInv
    <3>. QED  BY <3>1, <3>2
  <2>4. CASE ~call
    BY <1>1, <2>1, <2>2, <2>4, LoadFrame
  <2>. QED  BY <2>3, <2>4
<1>. QED  BY <1>2, <1>3 DEF Load

-----------------------------------------------------------------------------
(* The invariant.                                                          *)

LEMMA NextIInv == IInv /\ [Next]_vars => IInv'
<1>. SUFFICES ASSUME IInv, [Next]_vars PROVE IInv'
  OBVIOUS
<1>1. CASE UNCHANGED vars
  BY <1>1 DEF vars, IInv, TypeOK, HandleTableSound, Fresh, LiveHandles,
              SeqBound, QueueOK, Pending, ClosedEmpty
<1>2. CASE Next
  BY <1>2, LoadIInv, PreConnectIInv, LifecycleIInv, ProcessMessageIInv,
     CloseIInv, CloseDoneIInv, ReconnectIInv, FreeIInv, OpenChannelIInv,
     CloseChannelIInv, WriteCheckIInv, WriteDispatchIInv
  DEF Next, Main, Plugin
<1>. QED  BY <1>1, <1>2

(* The strengthened invariant holds in every reachable state.              *)
THEOREM IInvInvariant == Spec => []IInv
BY InitIInv, NextIInv, PTL DEF Spec

(* Every reachable state of the channel manager is well typed: the counts *)
(* stay within CHANNEL_MAX_COUNT and every handle g_OpenHandleSeq gives  *)
(* out lies in the range the model allots it.                              *)
THEOREM TypeCorrect == Spec => []TypeOK
BY IInvInvariant, PTL DEF IInv

(* g_ChannelHandles stays in step with openDataList across every close,  *)
(* reconnect and re-registration (HandleTableSound, checked by the runs   *)
(* channels_small and channels_crowded), for every CHANNEL_MAX_COUNT and  *)
(* every number of reconnections.                                         *)
THEOREM HandleTableInvariant == Spec => []HandleTableSound
BY IInvInvariant, PTL DEF IInv

-----------------------------------------------------------------------------
(* The refinement of WriteService, its safety part.                        *)

(* A step that changes at most write w changes the plugins' view of w    *)
(* only.                                                                   *)
LEMMA AbsOne ==
  ASSUME NEW w \in Writes, wr \in [Writes -> Write], wr' \in [Writes -> Write],
         \A x \in Writes \ {w} : wr'[x] = wr[x]
  PROVE  AbsWs' = [AbsWs EXCEPT ![w] = AbsWs'[w]]
BY DEF AbsWs

(* Clearing or freeing the queue answers every queued write with          *)
(* WRITE_CANCELLED at once, or changes nothing when the queue held none.  *)
LEMMA CancelAllRefines ==
  ASSUME IInv, wr' = CancelAll
  PROVE  [WS!Next]_AbsWs
<1>. DEFINE S == {x \in Writes : \E k \in 1 .. Len(queue) : queue[k] = x}
<1>1. \A x \in Writes : wr'[x] = IF x \in S
                                  THEN [wr[x] EXCEPT !.st = "done", !.ev = "cancelled"]
                                  ELSE wr[x]
  BY DEF CancelAll
<1>2. \A x \in S : wr[x].st = "queued"
  BY ValuesAssumption DEF IInv, QueueOK
<1>3. wr \in [Writes -> Write] /\ wr' \in [Writes -> Write]
  <2>1. TypeOK
    BY DEF IInv
  <2>. QED  BY <2>1, CancelAllType DEF TypeOK
<1>4. CASE S = {}
  <2>0. \A x \in Writes : x \notin S
    BY <1>4
  <2>1. \A x \in Writes : wr'[x] = wr[x]
    BY <1>1, <2>0
  <2>2. wr' = wr
    BY <1>3, <2>1
  <2>. QED  BY <2>2 DEF AbsWs
<1>5. CASE S # {}
  <2>1. \A x \in S : AbsWs[x] = "accepted"
    BY <1>2 DEF AbsWs
  <2>2. AbsWs' = [x \in Writes |-> IF x \in S THEN "cancelled" ELSE AbsWs[x]]
    <3>1. ASSUME NEW x \in S PROVE AbsWs'[x] = "cancelled"
      <4>0. wr[x] \in Write /\ wr'[x] = [wr[x] EXCEPT !.st = "done", !.ev = "cancelled"]
        BY <1>1, <1>3
      <4>1. wr'[x].st = "done" /\ wr'[x].ev = "cancelled"
        BY <4>0 DEF Write
      <4>. QED  BY <4>1 DEF AbsWs
    <3>2. ASSUME NEW x \in Writes \ S PROVE AbsWs'[x] = AbsWs[x]
      <4>1. wr'[x] = wr[x]
        BY <1>1
      <4>. QED  BY <4>1 DEF AbsWs
    <3>. QED  BY <3>1, <3>2 DEF AbsWs
  <2>3. WS!Answer(S, "cancelled")
    BY <1>5, <2>1, <2>2 DEF WS!Answer
  <2>. QED  BY <2>3 DEF WS!Next
<1>. QED  BY <1>4, <1>5

(* Every step of the channel manager is a step of the write service or   *)
(* leaves the plugins' view of their writes alone.                         *)
LEMMA StepRefines == IInv /\ [Next]_vars => [WS!Next]_AbsWs
<1>. SUFFICES ASSUME IInv, [Next]_vars PROVE [WS!Next]_AbsWs
  OBVIOUS
<1>0. wr \in [Writes -> Write]
  BY DEF IInv, TypeOK
<1>1. CASE wr' = wr
  BY <1>1 DEF AbsWs
<1>2. ASSUME NEW w \in Writes, NEW h \in Handles, WriteCheck(w, h)
      PROVE  [WS!Next]_AbsWs
  <2>1. wr' \in [Writes -> Write] /\ \A x \in Writes \ {w} : wr'[x] = wr[x]
    BY <1>2, WriteCheckIInv DEF IInv, TypeOK, WriteCheck
  <2>2. AbsWs' = [AbsWs EXCEPT ![w] = AbsWs'[w]] /\ AbsWs[w] = "idle"
    BY <1>0, <1>2, <2>1, AbsOne DEF WriteCheck, AbsWs
  <2>3. wr'[w].st \in {"checked", "refused"}
    BY <1>0, <1>2 DEF WriteCheck
  <2>4. CASE wr'[w].st = "checked"
    <3>1. AbsWs'[w] = "idle"
      BY <2>1, <2>4 DEF AbsWs
    <3>. QED  BY <2>2, <3>1 DEF AbsWs
  <2>5. CASE wr'[w].st = "refused"
    <3>1. AbsWs'[w] = "refused"
      BY <2>1, <2>5 DEF AbsWs
    <3>2. WS!Refuse(w)
      BY <2>2, <3>1 DEF WS!Refuse
    <3>. QED  BY <3>2 DEF WS!Next
  <2>. QED  BY <2>3, <2>4, <2>5
<1>3. ASSUME NEW w \in Writes, WriteDispatch(w)
      PROVE  [WS!Next]_AbsWs
  <2>1. wr' \in [Writes -> Write] /\ \A x \in Writes \ {w} : wr'[x] = wr[x]
    BY <1>3, WriteDispatchIInv DEF IInv, TypeOK, WriteDispatch
  <2>2. AbsWs' = [AbsWs EXCEPT ![w] = AbsWs'[w]] /\ AbsWs[w] = "idle"
    BY <1>0, <1>3, <2>1, AbsOne DEF WriteDispatch, AbsWs
  <2>3. AbsWs'[w] = "accepted"
    BY <1>0, <1>3 DEF WriteDispatch, AbsWs
  <2>4. WS!Accept(w)
    BY <2>2, <2>3 DEF WS!Accept
  <2>. QED  BY <2>4 DEF WS!Next
<1>4. CASE ProcessMessage /\ Head(queue) # Quit
  <2>. DEFINE w == Head(queue)
  <2>1. w \in Writes /\ wr[w].st = "queued"
    <3>1. Len(queue) \in Nat \ {0} /\ w = queue[1]
      BY <1>4 DEF IInv, TypeOK, ProcessMessage
    <3>. QED  BY <1>4, <3>1 DEF IInv, TypeOK, QueueOK
  <2>2. PICK ev \in {"complete", "cancelled"} : wr' = Deliver(w, ev)
    BY <1>4 DEF ProcessMessage
  <2>3. wr' \in [Writes -> Write] /\ \A x \in Writes \ {w} : wr'[x] = wr[x]
    <3>1. wr' \in [Writes -> Write]
      BY <1>4, ProcessMessageIInv DEF IInv, TypeOK
    <3>. QED  BY <1>0, <2>2, <3>1 DEF Deliver
  <2>4. AbsWs' = [AbsWs EXCEPT ![w] = AbsWs'[w]] /\ AbsWs[w] = "accepted"
    BY <1>0, <2>1, <2>3, AbsOne DEF AbsWs
  <2>5. AbsWs'[w] = ev
    BY <1>0, <2>1, <2>2 DEF Deliver, AbsWs
  <2>6. WS!Answer({w}, ev)
    BY <1>0, <2>1, <2>4, <2>5 DEF WS!Answer, AbsWs
  <2>. QED  BY <2>1, <2>6 DEF WS!Next
<1>5. CASE PreConnect \/ Free
  BY <1>5, CancelAllRefines DEF PreConnect, Free
<1>. QED
  <2>1. CASE Next
    BY <1>1, <1>2, <1>3, <1>4, <1>5, <2>1
    DEF Next, Main, Plugin, Load, PostConnect, Disconnect, DisconnectFlushed,
        DisconnectDone, Close, CloseDone, Reconnect, OpenChannel, CloseChannel,
        ProcessMessage
  <2>2. CASE UNCHANGED vars
    BY <1>1, <2>2 DEF vars
  <2>. QED  BY <2>1, <2>2

(* The channel manager's writes behave as the write service allows: each *)
(* starts idle and moves only by a refusal, an acceptance, or one answer   *)
(* with WRITE_COMPLETE or WRITE_CANCELLED.  The eventual answer, the rest *)
(* of WriteServiceRefined, rests on fairness and is checked by TLC.       *)
THEOREM WriteServiceSafety == Spec => WS!Init /\ [][WS!Next]_AbsWs
<1>1. Init => WS!Init
  BY DEF Init, WS!Init, AbsWs
<1>. QED  BY <1>1, StepRefines, IInvInvariant, PTL DEF Spec

-----------------------------------------------------------------------------
(* The queue holds exactly the accepted, unanswered writes.                *)

(* QueuedExactlyOnce: no write accepted by VirtualChannelWrite[Ex] is     *)
(* dropped from channels->queue without its event, by MessageQueue_Clear,  *)
(* MessageQueue_Free or the message loop, and none is in it twice.         *)
THEOREM QueuedExactlyOnceInvariant == Spec => []QueuedExactlyOnce
<1>1. IInv => QueuedExactlyOnce
  <2>1. QueueOK /\ Pending /\ TypeOK => QueuedExactlyOnce
    <3> SUFFICES ASSUME QueueOK, Pending, TypeOK
                 PROVE  QueuedExactlyOnce
      OBVIOUS
    <3>1. ASSUME NEW w \in Writes, \E k \in 1 .. Len(queue) : queue[k] = w
          PROVE  wr[w].st = "queued"
      <4>1. PICK k \in 1 .. Len(queue) : queue[k] = w
        BY <3>1
      <4>. QED  BY <4>1, ValuesAssumption DEF QueueOK
    <3>. QED  BY <3>1 DEF Pending, QueueOK, QueuedExactlyOnce
  <2>. QED  BY <2>1 DEF IInv
<1>. QED  BY <1>1, IInvInvariant, PTL

=============================================================================
