------------------------------- MODULE HciCmd --------------------------------
(***************************************************************************)
(* The HCI command path and the start-up of the host                       *)
(* (src/src/host/hci_core.c): bt_hci_cmd_create and bt_hci_cmd_send put    *)
(* commands on bt_dev.cmd_tx_queue, hci_send_cmd gives one per turn of the *)
(* main loop to the transport, and the controller's Command Complete and   *)
(* Command Status events come back through bt_recv.  Start-up is a chain   *)
(* of commands, each sent when the one before it is complete.              *)
(*                                                                         *)
(* What the host remembers of a command is one global, cmd_data_new: the   *)
(* opcode created last, and the flag to set when it succeeds.  The         *)
(* transport is a reliable queue here, and the controller is the           *)
(* environment: it answers every command, in order, as it likes.           *)
(***************************************************************************)
EXTENDS Naturals, FiniteSets, SequencesExt

CONSTANTS
    Flags,          \* flags that follow a command: BT_ADV_ENABLED, BT_DEV_SCANNING, ...
    Plain,          \* opcode of the application's other commands
    Prng,           \* CONFIG_BT_HOST_CRYPTO_PRNG: read a seed from the controller
    MaxInFlight,    \* bound: commands of the application without an answer
    MaxAppCmds      \* bound: commands of the application

VARIABLES
    hciState,   \* bt_dev.hci_state
    initState,  \* bt_dev.hci_init_state, named by the command it waits for
    cmdQueue,   \* bt_dev.cmd_tx_queue
    cmdData,    \* cmd_data_new: opcode and state
    ncmdSem,    \* bt_dev.ncmd_sem
    idCount,    \* bt_dev.id_count # 0
    flags,      \* the flags as the host sees them
    bredr,      \* BT_FEAT_BREDR(bt_dev.features), as the controller reports it
    boot,       \* the chipset driver has a boot_start (csr8510)
    step,       \* its step
    rebooting,  \* reset_driver_process waits for the controller to restart
    tx,         \* commands on their way to the controller
    rx,         \* events on their way to the host
    ctrl,       \* the flags as the controller has them
    credit,     \* commands the controller said in its last event it would take
    answered,   \* commands completed since the last reset, in order
    appCmds     \* commands the application has created

hostVars == <<hciState, initState, cmdQueue, cmdData, ncmdSem, idCount, flags>>
envVars  == <<bredr, boot, step, rebooting>>
linkVars == <<tx, rx, ctrl, credit, answered>>
vars == <<hostVars, envVars, linkVars, appCmds>>

NoFlag == [flag |-> "none", value |-> FALSE]

\* A command that changes a flag has the flag's name as its opcode.
SetFlag(f, v) == [op |-> f, set |-> [flag |-> f, value |-> v]]
PlainCmd(op)  == [op |-> op, set |-> NoFlag]

Nop == "NOP"

InitCmds ==
    {"READ_LOCAL_FEATURES", "READ_LOCAL_VERSION_INFO", "READ_SUPPORTED_COMMANDS",
     "LE_RAND", "LE_READ_LOCAL_FEATURES", "LE_READ_BUFFER_SIZE",
     "LE_WRITE_LE_HOST_SUPP", "LE_SET_EVENT_MASK", "READ_BUFFER_SIZE",
     "SET_EVENT_MASK", "READ_BD_ADDR", "LE_SET_RANDOM_ADDRESS"}

\* What start-up sends, and what anybody sends.
BootCmds == InitCmds \cup {"RESET", "VENDOR", "WARM_RESET"}
Opcodes  == BootCmds \cup Flags \cup {Plain}

\* The application does not send the commands of start-up.
ASSUME HciCmdAssumption ==
    /\ (Flags \cup {Plain}) \cap (BootCmds \cup {Nop}) = {}
    /\ Prng \in BOOLEAN
    /\ MaxInFlight \in Nat /\ MaxAppCmds \in Nat

Commands == {PlainCmd(op) : op \in Opcodes} \cup {SetFlag(f, v) : f \in Flags, v \in BOOLEAN}

-----------------------------------------------------------------------------
\* bt_hci_cmd_create, bt_hci_cmd_state_set_init and bt_hci_cmd_send: queue the command
\* and overwrite what is remembered of the one before it.
Send(cmd) ==
    /\ cmdQueue' = Append(cmdQueue, cmd)
    /\ cmdData' = [opcode |-> cmd.op, state |-> cmd.set]

SendNothing == UNCHANGED <<cmdQueue, cmdData>>

\* The command after op in the start-up chain, "END" when there is none.  `ids` is
\* bt_dev.id_count # 0 when op completes.
AfterInit(op, ids) ==
    CASE op = "READ_LOCAL_FEATURES"     -> "READ_LOCAL_VERSION_INFO"
      [] op = "READ_LOCAL_VERSION_INFO" -> "READ_SUPPORTED_COMMANDS"
      [] op = "READ_SUPPORTED_COMMANDS" -> IF Prng THEN "LE_RAND" ELSE "LE_READ_LOCAL_FEATURES"
      [] op = "LE_RAND"                 -> "LE_READ_LOCAL_FEATURES"
      [] op = "LE_READ_LOCAL_FEATURES"  -> "LE_READ_BUFFER_SIZE"
      [] op = "LE_READ_BUFFER_SIZE"     -> IF bredr THEN "LE_WRITE_LE_HOST_SUPP" ELSE "LE_SET_EVENT_MASK"
      [] op = "LE_WRITE_LE_HOST_SUPP"   -> "LE_SET_EVENT_MASK"
      [] op = "LE_SET_EVENT_MASK"       -> IF bredr THEN "READ_BUFFER_SIZE" ELSE "SET_EVENT_MASK"
      [] op = "READ_BUFFER_SIZE"        -> "SET_EVENT_MASK"
      [] op = "SET_EVENT_MASK"          -> IF ids THEN "END" ELSE "READ_BD_ADDR"
      [] op = "READ_BD_ADDR"            -> IF ids THEN "END" ELSE "LE_SET_RANDOM_ADDRESS"
      [] op = "LE_SET_RANDOM_ADDRESS"   -> "END"

-----------------------------------------------------------------------------
(* Wrong variants of the code, each of which breaks a property of this module. *)

\* hci_state_event_process that takes any completion for the one it waits for.
AdvanceOnAny(op, ids) ==
    LET next == AfterInit(initState, ids) IN
    IF hciState = "INITIALING_WAIT"
    THEN IF next = "END"
         THEN hciState' = "READY" /\ initState' = "SUCCESS" /\ SendNothing
         ELSE hciState' = hciState /\ initState' = next /\ Send(PlainCmd(next))
    ELSE IF hciState = "PREPARING_WAIT_RESET"
         THEN /\ hciState' = "INITIALING"
              /\ UNCHANGED initState /\ SendNothing
         ELSE UNCHANGED <<hciState, initState>> /\ SendNothing

\* hci_cmd_done that does not look at the status.
FlagsAfterAnyStatus(op, ok) ==
    IF cmdData.opcode = op /\ cmdData.state # NoFlag
    THEN [flags EXCEPT ![cmdData.state.flag] = cmdData.state.value]
    ELSE flags

\* k_sem_take without the test for zero.
TakeNcmdUnchecked == ncmdSem - 1

-----------------------------------------------------------------------------
\* The controller has or has not an address and BR/EDR; settings may have restored an
\* identity before bt_enable; the chipset driver may have a boot phase of its own.
Init ==
    /\ hciState = "BOOTING"
    /\ initState = "IDLE"
    /\ cmdQueue = <<>>
    /\ cmdData = [opcode |-> Nop, state |-> NoFlag]
    /\ ncmdSem = 1
    /\ idCount \in BOOLEAN
    /\ flags = [f \in Flags |-> FALSE]
    /\ bredr \in BOOLEAN
    /\ boot \in BOOLEAN
    /\ step = 0
    /\ rebooting = FALSE
    /\ tx = <<>>
    /\ rx = <<>>
    /\ ctrl = [f \in Flags |-> FALSE]
    /\ credit = 1
    /\ answered = <<>>
    /\ appCmds = 0

\* hci_state_polling in HCI_STATE_BOOTING with a boot_start: the driver sends the first
\* of its vendor commands.
PollBootChipset ==
    /\ hciState = "BOOTING" /\ boot
    /\ hciState' = "BOOTING_WAIT"
    /\ Send(PlainCmd("VENDOR"))
    /\ step' = 1
    /\ UNCHANGED <<initState, ncmdSem, idCount, flags, bredr, boot, rebooting, linkVars, appCmds>>

\* hci_state_polling in HCI_STATE_BOOTING without a driver, or in HCI_STATE_PREPARING.
PollPreparing ==
    /\ hciState = "PREPARING" \/ (hciState = "BOOTING" /\ ~ boot)
    /\ hciState' = "PREPARING_WAIT_RESET"
    /\ initState' = "RESET_WAIT"
    /\ Send(PlainCmd("RESET"))
    /\ UNCHANGED <<ncmdSem, idCount, flags, envVars, linkVars, appCmds>>

PollInitialing ==
    /\ hciState = "INITIALING"
    /\ hciState' = "INITIALING_WAIT"
    /\ initState' = "READ_LOCAL_FEATURES"
    /\ Send(PlainCmd("READ_LOCAL_FEATURES"))
    /\ UNCHANGED <<ncmdSem, idCount, flags, envVars, linkVars, appCmds>>

\* k_sem_take, which returns 0 whether or not there was something to take.
TakeNcmd == IF ncmdSem > 0 THEN ncmdSem - 1 ELSE 0

\* hci_tx_thread: one command per turn goes to the transport.
HciSendCmd ==
    /\ cmdQueue # <<>>
    /\ cmdQueue' = Tail(cmdQueue)
    /\ ncmdSem' = TakeNcmd
    /\ tx' = Append(tx, Head(cmdQueue))
    /\ UNCHANGED <<hciState, initState, cmdData, idCount, flags, envVars, rx, ctrl, credit,
                   answered, appCmds>>

\* k_sem_give of a semaphore with limit 1, when the event says the controller takes a
\* command again.
GiveNcmd(ncmd) == ncmdSem' = IF ncmd > 0 THEN 1 ELSE ncmdSem

\* hci_cmd_done: update the flag of the command remembered, if that is the one.
FlagsAfter(op, ok) ==
    IF cmdData.opcode = op /\ cmdData.state # NoFlag /\ ok
    THEN [flags EXCEPT ![cmdData.state.flag] = cmdData.state.value]
    ELSE flags

\* hci_state_event_process(op); the chipset's prepare_start has nothing to send and
\* reports ready at once (csr8510, csr8910, artpi).
Advance(op, ids) ==
    LET next == AfterInit(op, ids) IN
    IF hciState = "INITIALING_WAIT" /\ initState = op
    THEN IF next = "END"
         THEN hciState' = "READY" /\ initState' = "SUCCESS" /\ SendNothing
         ELSE hciState' = hciState /\ initState' = next /\ Send(PlainCmd(next))
    ELSE IF hciState = "PREPARING_WAIT_RESET" /\ op = "RESET"
         THEN /\ hciState' = "INITIALING"
              /\ UNCHANGED initState /\ SendNothing
         ELSE UNCHANGED <<hciState, initState>> /\ SendNothing

\* A wrong hci_cmd_complete, which goes on with start-up only after a command succeeds.
HciCmdCompleteIfOk ==
    /\ rx # <<>> /\ Head(rx).kind = "complete"
    /\ LET e == Head(rx) IN
       /\ flags' = FlagsAfter(e.op, e.ok)
       /\ idCount' = (idCount \/ (e.op = "READ_BD_ADDR" /\ e.ok))
       /\ IF e.ok THEN Advance(e.op, idCount \/ e.found)
                  ELSE UNCHANGED <<hciState, initState>> /\ SendNothing
       /\ GiveNcmd(e.ncmd)
    /\ rx' = Tail(rx)
    /\ UNCHANGED <<envVars, tx, ctrl, credit, answered, appCmds>>

\* bt_recv of a Command Complete: hci_cmd_complete.  A reset that succeeds clears the
\* flags (hci_reset_complete).  READ_BD_ADDR gives the host its identity, or makes it
\* create a random one and announce that to the controller.
HciCmdComplete ==
    /\ rx # <<>> /\ Head(rx).kind = "complete"
    /\ LET e == Head(rx) IN
       /\ flags' = IF e.op = "RESET" /\ e.ok THEN [f \in Flags |-> FALSE]
                                             ELSE FlagsAfter(e.op, e.ok)
       /\ idCount' = (idCount \/ e.op = "READ_BD_ADDR")
       /\ Advance(e.op, idCount \/ e.found)
       /\ GiveNcmd(e.ncmd)
    /\ rx' = Tail(rx)
    /\ UNCHANGED <<envVars, tx, ctrl, credit, answered, appCmds>>

\* bt_recv of a Command Status: hci_cmd_status.
HciCmdStatus ==
    /\ rx # <<>> /\ Head(rx).kind = "status"
    /\ flags' = FlagsAfter(Head(rx).op, Head(rx).ok)
    /\ GiveNcmd(Head(rx).ncmd)
    /\ rx' = Tail(rx)
    /\ UNCHANGED <<hciState, initState, cmdQueue, cmdData, idCount, envVars, tx, ctrl, credit,
                   answered, appCmds>>

\* The chipset driver's event_process sees the vendor event that answers its command:
\* it sets the address, then restarts the controller, which a thread waits for.
ChipsetEvent ==
    /\ rx # <<>> /\ Head(rx).kind = "vendor"
    /\ rx' = Tail(rx)
    /\ \/ /\ hciState = "BOOTING_WAIT" /\ step = 1
          /\ Send(PlainCmd("VENDOR"))
          /\ step' = 2
          /\ UNCHANGED rebooting
       \/ /\ hciState = "BOOTING_WAIT" /\ step = 2
          /\ Send(PlainCmd("WARM_RESET"))
          /\ step' = 0
          /\ rebooting' = TRUE
    /\ UNCHANGED <<hciState, initState, ncmdSem, idCount, flags, bredr, boot, tx, ctrl, credit,
                   answered, appCmds>>

\* reset_driver_process, 5 s later: the USB driver is opened again, which empties its
\* queues, and bt_hci_set_boot_ready is called.
ChipsetReboot ==
    /\ rebooting /\ cmdQueue = <<>>
    /\ rebooting' = FALSE
    /\ tx' = <<>> /\ rx' = <<>>
    /\ hciState' = IF hciState = "BOOTING_WAIT" THEN "PREPARING" ELSE hciState
    /\ UNCHANGED <<initState, cmdQueue, cmdData, ncmdSem, idCount, flags, bredr, boot, step,
                   ctrl, credit, answered, appCmds>>

\* Commands without an answer yet, wherever they are.
InFlight == Len(cmdQueue) + Len(tx) + Cardinality({i \in DOMAIN rx : rx[i].op # Nop})

\* Once bt_is_ready: the application, or a handler, sends a command.  The code calls
\* through a null pointer when the command pool is empty (bt_hci_cmd_create), so the
\* bound stays below CONFIG_BT_BUF_CMD_TX_COUNT.
AppSend(cmd) ==
    /\ hciState = "READY"
    /\ InFlight < MaxInFlight
    /\ appCmds < MaxAppCmds
    /\ appCmds' = appCmds + 1
    /\ Send(cmd)
    /\ UNCHANGED <<hciState, initState, ncmdSem, idCount, flags, envVars, linkVars>>

\* The controller executes a command and answers with the number of commands it takes
\* from now on.  It completes all of the start-up commands; other commands may be
\* answered by a status.  A vendor command is answered by a vendor event.
Controller ==
    /\ tx # <<>> /\ Head(tx).op # "WARM_RESET"
    /\ tx' = Tail(tx)
    /\ LET c == Head(tx) IN
       \E ok, found \in BOOLEAN, ncmd \in {0, 1},
          kind \in IF c.op = "VENDOR" THEN {"vendor"}
                   ELSE IF c.op \in InitCmds \cup {"RESET"} THEN {"complete"}
                   ELSE {"complete", "status"} :
          /\ c.op \in {"RESET", "VENDOR"} => ok
          /\ found => c.op = "READ_BD_ADDR"
          /\ kind = "vendor" => ncmd = 1
          /\ rx' = Append(rx, [kind |-> kind, op |-> c.op, ok |-> ok, found |-> found,
                               ncmd |-> ncmd])
          /\ ctrl' = IF c.op = "RESET" THEN [f \in Flags |-> FALSE]
                     ELSE IF ok /\ c.set # NoFlag
                          THEN [ctrl EXCEPT ![c.set.flag] = c.set.value]
                          ELSE ctrl
          /\ credit' = ncmd
          /\ answered' = IF c.op = "RESET" THEN <<>>
                         ELSE IF hciState = "READY" \/ c.op = "VENDOR" THEN answered
                         ELSE Append(answered, c.op)
    /\ UNCHANGED <<hostVars, envVars, appCmds>>

\* The controller restarts without an answer.
ControllerRestart ==
    /\ tx # <<>> /\ Head(tx).op = "WARM_RESET"
    /\ tx' = Tail(tx)
    /\ ctrl' = [f \in Flags |-> FALSE]
    /\ credit' = 1
    /\ answered' = <<>>
    /\ UNCHANGED <<hostVars, envVars, rx, appCmds>>

\* A controller that had said 0 announces with a NOP that it takes commands again.
ControllerNop ==
    /\ credit = 0 /\ tx = <<>> /\ rx = <<>>
    /\ credit' = 1
    /\ rx' = <<[kind |-> "complete", op |-> Nop, ok |-> TRUE, found |-> FALSE, ncmd |-> 1]>>
    /\ UNCHANGED <<hostVars, envVars, tx, ctrl, answered, appCmds>>

Host == PollBootChipset \/ PollPreparing \/ PollInitialing \/ HciSendCmd
        \/ HciCmdComplete \/ HciCmdStatus \/ ChipsetEvent \/ ChipsetReboot

Next ==
    \/ PollBootChipset \/ PollPreparing \/ PollInitialing
    \/ HciSendCmd
    \/ HciCmdComplete \/ HciCmdStatus \/ ChipsetEvent \/ ChipsetReboot
    \/ Controller \/ ControllerRestart \/ ControllerNop
    \/ \E f \in Flags, v \in BOOLEAN : AppSend(SetFlag(f, v))
    \/ AppSend(PlainCmd(Plain))

\* The main loop runs for ever, the controller answers every command and the driver's
\* reset thread wakes up.
Spec == Init /\ [][Next]_vars /\ WF_vars(Host) /\ WF_vars(Controller)

-----------------------------------------------------------------------------
States == {"BOOTING", "BOOTING_WAIT", "PREPARING", "PREPARING_WAIT_RESET", "INITIALING",
           "INITIALING_WAIT", "READY"}

Events == [kind : {"complete", "status", "vendor"}, op : Opcodes \cup {Nop}, ok : BOOLEAN,
           found : BOOLEAN, ncmd : {0, 1}]

\* Every variable has its type.
TypeOK ==
    /\ hciState \in States
    /\ initState \in InitCmds \cup {"IDLE", "RESET_WAIT", "SUCCESS"}
    /\ cmdQueue \in Seq(Commands)
    /\ cmdData.opcode \in Opcodes \cup {Nop}
    /\ cmdData.state \in {c.set : c \in Commands}
    /\ ncmdSem \in {0, 1}
    /\ idCount \in BOOLEAN
    /\ flags \in [Flags -> BOOLEAN]
    /\ bredr \in BOOLEAN
    /\ boot \in BOOLEAN
    /\ step \in 0 .. 2
    /\ rebooting \in BOOLEAN
    /\ tx \in Seq(Commands)
    /\ rx \in Seq(Events)
    /\ ctrl \in [Flags -> BOOLEAN]
    /\ credit \in {0, 1}
    /\ answered \in Seq(InitCmds)
    /\ appCmds \in 0 .. MaxAppCmds

Before(a, b) ==
    \E i, j \in 1 .. Len(answered) : i < j /\ answered[i] = a /\ answered[j] = b

\* A host that says it is ready has asked the controller, once each, everything the rest
\* of the host relies on: the event masks follow the features they are made from, the
\* ACL buffers are known before the first connection, and there is an identity address
\* that the controller knows too.
ReadyMeansConfigured ==
    hciState = "READY" =>
        /\ IsInjective(answered)
        /\ Before("READ_LOCAL_FEATURES", "SET_EVENT_MASK")
        /\ Before("READ_SUPPORTED_COMMANDS", "LE_READ_LOCAL_FEATURES")
        /\ Before("LE_READ_LOCAL_FEATURES", "LE_SET_EVENT_MASK")
        /\ Before("LE_READ_BUFFER_SIZE", "LE_SET_EVENT_MASK")
        /\ bredr => Before("LE_READ_BUFFER_SIZE", "READ_BUFFER_SIZE")
        /\ Prng => "LE_RAND" \in ToSet(answered)
        /\ idCount

\* With no command on its way, the host and the controller agree on what is enabled.
FlagsFollowController == InFlight = 0 => flags = ctrl

\* The chain of start-up commands always ends, whatever the controller supports and
\* however it answers, as long as it completes every command.
EventuallyReady == <>(hciState = "READY")
=============================================================================
