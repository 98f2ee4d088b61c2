--------------------------- MODULE ChannelManager ---------------------------
(***************************************************************************)
(* The static virtual channel manager of libfreerdp/core/client.c.        *)
(*                                                                         *)
(* The main thread loads the channel plugins (whose entry points call     *)
(* VirtualChannelInit[Ex] while can_call_init is set), connects, pumps    *)
(* the write queue, disconnects, closes, and may reconnect or free the    *)
(* manager.  Plugin threads open and close their channels and write to    *)
(* them: VirtualChannelWrite[Ex] checks the handle, `connected` and the   *)
(* channel's flags, and then dispatches a message that the main thread    *)
(* later turns into SendChannelData and a WRITE_COMPLETE event, or into a *)
(* WRITE_CANCELLED event.  The check and the dispatch are two steps of    *)
(* the plugin thread, so the main thread may run between them.            *)
(*                                                                         *)
(* openDataList is a fixed array of CHANNEL_MAX_COUNT slots whose contents *)
(* survive freerdp_channels_close, which only resets the counts; a queued *)
(* message holds a pointer to its slot.  g_ChannelHandles maps open       *)
(* handles, drawn from the global counter g_OpenHandleSeq, to slots.       *)
(* Names and plugins are model values; payloads, user data and callbacks *)
(* are left out, and a plugin thread may pass any handle value.           *)
(***************************************************************************)
EXTENDS Integers, Sequences, FiniteSets

CONSTANTS
  Plugins,     \* the loadable channel plugins (their entry points)
  Names,       \* channel names
  Defs,        \* the CHANNEL_DEF arrays a plugin may pass to VirtualChannelInit
  Writes,      \* the write calls plugin threads make (one id per call)
  MaxCount,    \* CHANNEL_MAX_COUNT
  MaxCycles,   \* how often the manager is closed and connected again
  NoName,      \* the name of a slot never initialised
  Quit         \* the WMQ_QUIT message

ASSUME CountAssumption == MaxCount \in Nat \ {0} /\ MaxCycles \in Nat

ASSUME DefsAssumption == Defs \subseteq Seq(Names) \ {<<>>}

ASSUME ValuesAssumption ==
  /\ NoName \notin Names /\ Quit \notin Writes

VARIABLES
  mpc,        \* where the main thread is in the manager's life cycle
  cycle,      \* connections made after the first one
  tried,      \* plugins whose load was attempted since the last close
  connected,  \* channels->connected
  clients,    \* clientDataList[0 .. clientDataCount - 1], the plugins
  initCount,  \* channels->initDataCount
  opens,      \* openDataList, all CHANNEL_MAX_COUNT slots
  openCount,  \* channels->openDataCount
  handles,    \* g_ChannelHandles: handle -> slot, or -1 when absent
  seq,        \* g_OpenHandleSeq
  queue,      \* channels->queue: write ids and Quit
  wr          \* each write call: its step, the slot it holds, its event

vars == <<mpc, cycle, tried, connected, clients, initCount, opens, openCount,
          handles, seq, queue, wr>>

Slots == 0 .. MaxCount - 1
Handles == 2 .. 1 + (MaxCycles + 1) * MaxCount
Slot == [name : Names \cup {NoName}, flags : 0 .. 2, handle : Handles \cup {0}]
Write == [st : {"idle", "checked", "queued", "refused", "done"},
          slot : Slots \cup {-1}, ev : {"none", "complete", "cancelled"}]

(* freerdp_channels_find_channel_open_data_by_name: the first slot below  *)
(* openDataCount with that name, or -1.                                    *)
FindByName(n) ==
  LET S == {i \in 0 .. openCount - 1 : opens[i].name = n}
  IN  IF S = {} THEN -1 ELSE CHOOSE i \in S : \A j \in S : i <= j

(* The event reported for a message through its slot's callback.        *)
Deliver(w, ev) == [wr EXCEPT ![w].st = "done", ![w].ev = ev]

(* channel_queue_free, MessageQueue's fnObjectFree, on every message left *)
(* in the queue: WRITE_CANCELLED through the message's slot.               *)
CancelAll ==
  [w \in Writes |-> IF \E k \in 1 .. Len(queue) : queue[k] = w
                    THEN [wr[w] EXCEPT !.st = "done", !.ev = "cancelled"]
                    ELSE wr[w]]

Init ==
  /\ mpc = "load"
  /\ cycle = 0
  /\ tried = {}
  /\ connected = FALSE
  /\ clients = <<>>
  /\ initCount = 0
  /\ opens = [i \in Slots |-> [name |-> NoName, flags |-> 0, handle |-> 0]]
  /\ openCount = 0
  /\ handles = [h \in Handles |-> -1]
  /\ seq = 1
  /\ queue = <<>>
  /\ wr = [w \in Writes |-> [st |-> "idle", slot |-> -1, ev |-> "none"]]

-----------------------------------------------------------------------------
(* Channel initialisation, on the main thread inside a plugin's entry.    *)

(* Fault injection: the channel-count check off by one.                  *)
TooManyShort(d) == openCount + Len(d) > MaxCount + 1

(* The checks VirtualChannelInit and VirtualChannelInitEx share, after   *)
(* the count and the can_call_init check.                                  *)
TooMany(d) == openCount + Len(d) > MaxCount

(* The registration both make once the checks pass: a client data entry, *)
(* and one slot, handle and table entry per CHANNEL_DEF.                   *)
Register(p, d) ==
  /\ clients' = Append(clients, p)
  /\ opens' = [i \in Slots |->
                IF openCount <= i /\ i < openCount + Len(d)
                THEN [name |-> d[i - openCount + 1], flags |-> 1,
                      handle |-> seq + (i - openCount) + 1]
                ELSE opens[i]]
  /\ handles' = [h \in Handles |->
                  IF seq < h /\ h <= seq + Len(d) THEN openCount + (h - seq) - 1
                  ELSE handles[h]]
  /\ seq' = seq + Len(d)
  /\ openCount' = openCount + Len(d)

(* VirtualChannelInit[Ex]'s outcome for plugin p and CHANNEL_DEF array d: *)
(* too many channels, a name already registered, or the registration.     *)
InitChannels(p, d) ==
  \/ /\ TooMany(d)
     /\ UNCHANGED <<clients, opens, handles, seq, openCount>>
  \/ /\ ~TooMany(d)
     /\ \E k \in 1 .. Len(d) : FindByName(d[k]) # -1
     /\ UNCHANGED <<clients, opens, handles, seq, openCount>>
  \/ /\ ~TooMany(d)
     /\ \A k \in 1 .. Len(d) : FindByName(d[k]) = -1
     /\ Register(p, d)

(* freerdp_channels_client_load / _load_ex: a plugin that is not loaded   *)
(* yet; the entry point calls VirtualChannelInit[Ex] once (call) or       *)
(* fails before it.  VirtualChannelInit takes initDataList[initDataCount] *)
(* and increments the count before any of its checks; the Ex loader does *)
(* so before calling the entry.                                            *)
Load(p) ==
  /\ mpc = "load"
  /\ p \notin tried
  /\ tried' = tried \cup {p}
  /\ \/ /\ Len(clients) + 1 > MaxCount
        /\ UNCHANGED <<clients, initCount, opens, openCount, handles, seq>>
     \/ /\ Len(clients) + 1 <= MaxCount
        /\ \E ex \in BOOLEAN, call \in BOOLEAN, d \in Defs :
             /\ initCount' = initCount + (IF ex \/ call THEN 1 ELSE 0)
             /\ IF call THEN InitChannels(p, d)
                ELSE UNCHANGED <<clients, opens, handles, seq, openCount>>
  /\ UNCHANGED <<mpc, cycle, connected, queue, wr>>

-----------------------------------------------------------------------------
(* Plugin threads.                                                         *)

(* VirtualChannelOpen[Ex] of the channel named n: needs `connected`, a    *)
(* registered name and a channel not open already.                        *)
OpenChannel(n) ==
  /\ mpc # "freed"
  /\ connected
  /\ FindByName(n) # -1
  /\ opens[FindByName(n)].flags # 2
  /\ opens' = [opens EXCEPT ![FindByName(n)].flags = 2]
  /\ UNCHANGED <<mpc, cycle, tried, connected, clients, initCount, openCount,
                 handles, seq, queue, wr>>

(* VirtualChannelClose[Ex]: a handle in g_ChannelHandles whose channel is *)
(* open.                                                                   *)
CloseChannel(h) ==
  /\ mpc # "freed"
  /\ handles[h] # -1
  /\ opens[handles[h]].flags = 2
  /\ opens' = [opens EXCEPT ![handles[h]].flags = 0]
  /\ UNCHANGED <<mpc, cycle, tried, connected, clients, initCount, openCount,
                 handles, seq, queue, wr>>

(* First half of VirtualChannelWrite[Ex]: the handle lookup, the          *)
(* `connected` check and the flags check; any failure returns an error.   *)
WriteCheck(w, h) ==
  /\ mpc # "freed"
  /\ wr[w].st = "idle"
  /\ LET ok == handles[h] # -1 /\ connected /\ opens[handles[h]].flags = 2
     IN  wr' = [wr EXCEPT ![w].st = IF ok THEN "checked" ELSE "refused",
                          ![w].slot = IF ok THEN handles[h] ELSE -1]
  /\ UNCHANGED <<mpc, cycle, tried, connected, clients, initCount, opens,
                 openCount, handles, seq, queue>>

(* Second half: MessageQueue_Dispatch of the message holding the slot.    *)
WriteDispatch(w) ==
  /\ wr[w].st = "checked"
  /\ queue' = Append(queue, w)
  /\ wr' = [wr EXCEPT ![w].st = "queued"]
  /\ UNCHANGED <<mpc, cycle, tried, connected, clients, initCount, opens,
                 openCount, handles, seq>>

-----------------------------------------------------------------------------
(* The main thread.                                                        *)

(* Fault injection: MessageQueue_Clear without the queue's object-free   *)
(* callback, dropping the messages silently.                               *)
PreConnectNoCancel ==
  /\ mpc = "load"
  /\ mpc' = "pre"
  /\ queue' = <<>>
  /\ UNCHANGED <<cycle, tried, connected, clients, initCount, opens, openCount,
                 handles, seq, wr>>

(* freerdp_channels_pre_connect: MessageQueue_Clear, then INITIALIZED.     *)
PreConnect ==
  /\ mpc = "load"
  /\ mpc' = "pre"
  /\ wr' = CancelAll
  /\ queue' = <<>>
  /\ UNCHANGED <<cycle, tried, connected, clients, initCount, opens, openCount,
                 handles, seq>>

(* freerdp_channels_post_connect: connected, then CONNECTED.               *)
PostConnect ==
  /\ mpc = "pre"
  /\ mpc' = "run"
  /\ connected' = TRUE
  /\ UNCHANGED <<cycle, tried, clients, initCount, opens, openCount, handles,
                 seq, queue, wr>>

(* Fault injection: a message for a closed channel dropped without the   *)
(* WRITE_CANCELLED event.                                                  *)
ProcessMessageNoCancel ==
  /\ mpc \in {"run", "disc1", "disc2", "close1"}
  /\ queue # <<>>
  /\ queue' = Tail(queue)
  /\ LET w == Head(queue)
     IN  wr' = IF w = Quit \/ opens[wr[w].slot].flags # 2 THEN wr
               ELSE Deliver(w, "complete")
  /\ UNCHANGED <<mpc, cycle, tried, connected, clients, initCount, opens,
                 openCount, handles, seq>>

(* One message of freerdp_channels_process_sync's loop, through           *)
(* freerdp_channels_process_message: WMQ_QUIT is dropped; a message whose *)
(* slot is not open is cancelled; otherwise the data is sent and          *)
(* WRITE_COMPLETE reported.                                                *)
ProcessMessage ==
  /\ mpc \in {"run", "disc1", "disc2", "close1"}
  /\ queue # <<>>
  /\ queue' = Tail(queue)
  /\ LET w == Head(queue)
     IN  wr' = IF w = Quit THEN wr
               ELSE IF opens[wr[w].slot].flags # 2 THEN Deliver(w, "cancelled")
               ELSE Deliver(w, "complete")
  /\ UNCHANGED <<mpc, cycle, tried, connected, clients, initCount, opens,
                 openCount, handles, seq>>

(* freerdp_channels_disconnect: its first check_fds flushes the queue ... *)
Disconnect ==
  /\ mpc = "run"
  /\ mpc' = "disc1"
  /\ UNCHANGED <<cycle, tried, connected, clients, initCount, opens, openCount,
                 handles, seq, queue, wr>>

(* ... then DISCONNECTED, connected cleared, and the final flush.          *)
DisconnectFlushed ==
  /\ mpc = "disc1"
  /\ queue = <<>>
  /\ mpc' = "disc2"
  /\ connected' = FALSE
  /\ UNCHANGED <<cycle, tried, clients, initCount, opens, openCount, handles,
                 seq, queue, wr>>

DisconnectDone ==
  /\ mpc = "disc2"
  /\ queue = <<>>
  /\ mpc' = "down"
  /\ UNCHANGED <<cycle, tried, connected, clients, initCount, opens, openCount,
                 handles, seq, queue, wr>>

(* freerdp_channels_close: MessageQueue_PostQuit and a flush ...           *)
Close ==
  /\ mpc \in {"load", "pre", "down"}
  /\ mpc' = "close1"
  /\ queue' = Append(queue, Quit)
  /\ UNCHANGED <<cycle, tried, connected, clients, initCount, opens, openCount,
                 handles, seq, wr>>

(* Fault injection: the handle-removal loop stops one slot short.        *)
CloseDoneOffByOne ==
  /\ mpc = "close1"
  /\ queue = <<>>
  /\ mpc' = "closed"
  /\ handles' = [h \in Handles |->
                  IF \E i \in 0 .. openCount - 2 : opens[i].handle = h THEN -1
                  ELSE handles[h]]
  /\ openCount' = 0
  /\ initCount' = 0
  /\ clients' = <<>>
  /\ UNCHANGED <<cycle, tried, connected, opens, seq, queue, wr>>

(* ... then TERMINATED, the handles of the slots below openDataCount      *)
(* removed from g_ChannelHandles, the counts reset and g_Instance NULL.    *)
CloseDone ==
  /\ mpc = "close1"
  /\ queue = <<>>
  /\ mpc' = "closed"
  /\ handles' = [h \in Handles |->
                  IF \E i \in 0 .. openCount - 1 : opens[i].handle = h THEN -1
                  ELSE handles[h]]
  /\ openCount' = 0
  /\ initCount' = 0
  /\ clients' = <<>>
  /\ UNCHANGED <<cycle, tried, connected, opens, seq, queue, wr>>

(* freerdp_connect again: freerdp_channels_register_instance and loading. *)
Reconnect ==
  /\ mpc = "closed"
  /\ cycle < MaxCycles
  /\ mpc' = "load"
  /\ cycle' = cycle + 1
  /\ tried' = {}
  /\ UNCHANGED <<connected, clients, initCount, opens, openCount, handles, seq,
                 queue, wr>>

(* Fault injection: MessageQueue_Free without the object-free callback.  *)
FreeNoCancel ==
  /\ mpc = "closed"
  /\ \A w \in Writes : wr[w].st # "checked"
  /\ mpc' = "freed"
  /\ queue' = <<>>
  /\ UNCHANGED <<cycle, tried, connected, clients, initCount, opens, openCount,
                 handles, seq, wr>>

(* freerdp_channels_free: MessageQueue_Free cancels what is left.  The    *)
(* plugins have joined their threads on TERMINATED, so none is between   *)
(* the two halves of a write.                                              *)
Free ==
  /\ mpc = "closed"
  /\ \A w \in Writes : wr[w].st # "checked"
  /\ mpc' = "freed"
  /\ wr' = CancelAll
  /\ queue' = <<>>
  /\ UNCHANGED <<cycle, tried, connected, clients, initCount, opens, openCount,
                 handles, seq>>

Main ==
  \/ \E p \in Plugins : Load(p)
  \/ PreConnect \/ PostConnect \/ ProcessMessage \/ Disconnect
  \/ DisconnectFlushed \/ DisconnectDone \/ Close \/ CloseDone
  \/ Reconnect \/ Free

Plugin ==
  \/ \E n \in Names : OpenChannel(n)
  \/ \E h \in Handles : CloseChannel(h)
  \/ \E w \in Writes, h \in Handles : WriteCheck(w, h)
  \/ \E w \in Writes : WriteDispatch(w)

Next == Main \/ Plugin

(* The main thread keeps pumping and finishes what it starts; a plugin   *)
(* thread that passed the checks goes on to dispatch.  Loading, the       *)
(* decision to connect or disconnect, and the plugins' calls are not      *)
(* forced.                                                                 *)
Fairness ==
  /\ WF_vars(ProcessMessage)
  /\ WF_vars(PreConnect) /\ WF_vars(PostConnect)
  /\ WF_vars(DisconnectFlushed) /\ WF_vars(DisconnectDone)
  /\ WF_vars(mpc = "down" /\ Close) /\ WF_vars(CloseDone)
  /\ WF_vars(Reconnect \/ Free)
  /\ \A w \in Writes : WF_vars(WriteDispatch(w))

Spec == Init /\ [][Next]_vars /\ Fairness

-----------------------------------------------------------------------------
(* Properties.                                                             *)

TypeOK ==
  /\ mpc \in {"load", "pre", "run", "disc1", "disc2", "down", "close1",
              "closed", "freed"}
  /\ cycle \in 0 .. MaxCycles
  /\ tried \subseteq Plugins
  /\ connected \in BOOLEAN
  /\ clients \in Seq(Plugins) /\ Len(clients) <= MaxCount
  /\ initCount \in Nat
  /\ opens \in [Slots -> Slot]
  /\ openCount \in 0 .. MaxCount
  /\ handles \in [Handles -> Slots \cup {-1}]
  /\ seq \in 1 .. 1 + (MaxCycles + 1) * MaxCount
  /\ queue \in Seq(Writes \cup {Quit})
  /\ wr \in [Writes -> Write]

(* g_ChannelHandles stays in step with openDataList across close and     *)
(* reload: a handle in the table leads to a live slot (below              *)
(* openDataCount) that carries that handle, and every live slot's handle *)
(* is in the table.  A handle kept by a plugin from before a close must   *)
(* not reach a slot that has since been reused.                           *)
HandleTableSound ==
  /\ \A h \in Handles : handles[h] # -1 =>
        /\ handles[h] < openCount
        /\ opens[handles[h]].handle = h
  /\ \A i \in 0 .. openCount - 1 : handles[opens[i].handle] = i

(* The plugins' view of their writes (module WriteService): a write is   *)
(* idle until VirtualChannelWrite returns, refused when it returns an     *)
(* error, accepted once the message is dispatched, and then answered by   *)
(* the one event its message produces.                                    *)
AbsWs ==
  [w \in Writes |->
     CASE wr[w].st \in {"idle", "checked"} -> "idle"
       [] wr[w].st = "refused" -> "refused"
       [] wr[w].st = "queued" -> "accepted"
       [] OTHER -> wr[w].ev]

WS == INSTANCE WriteService WITH ws <- AbsWs

(* The channel manager implements the write service: every write accepted *)
(* by VirtualChannelWrite[Ex] is answered exactly once, with WRITE_COMPLETE *)
(* or WRITE_CANCELLED, never before it is accepted and never when it was  *)
(* refused, and eventually, whether the main thread sends it, finds its   *)
(* channel closed, or clears or frees the queue.                          *)
WriteServiceRefined == WS!Spec

(* No accepted write is lost or reported twice: a write whose message      *)
(* MessageQueue_Dispatch posted and that has no event yet is in           *)
(* channels->queue, exactly once, and every other message of the queue is *)
(* WMQ_QUIT.  MessageQueue_Clear in freerdp_channels_pre_connect and      *)
(* MessageQueue_Free must therefore cancel each message they drop, and a  *)
(* message taken off the queue must be answered.                           *)
QueuedExactlyOnce ==
  /\ \A w \in Writes :
        wr[w].st = "queued" <=> \E k \in 1 .. Len(queue) : queue[k] = w
  /\ \A j, k \in 1 .. Len(queue) : queue[j] = queue[k] /\ queue[j] # Quit => j = k

(* VirtualChannelInit only writes initDataList[initDataCount] inside the  *)
(* array of CHANNEL_MAX_COUNT entries.                                     *)
InitSlotInBounds == initCount <= MaxCount

(* "Flush pending messages": once freerdp_channels_disconnect has         *)
(* returned, no accepted write is still waiting in the queue.             *)
NoWriteOutlivesDisconnect ==
  mpc = "down" => \A w \in Writes : wr[w].st # "queued"

=============================================================================
