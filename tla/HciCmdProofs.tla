----------------------------- MODULE HciCmdProofs -----------------------------
(***************************************************************************)
(* Proofs about the HCI command path: types, what the host has asked the   *)
(* controller when it says it is ready, and the flags, for all flags and   *)
(* commands of the application, any chipset and any answers.               *)
(*                                                                         *)
(* Start-up has one command on its way at a time.  Started says which one, *)
(* in each state of start-up, and what the controller was asked before.    *)
(***************************************************************************)
EXTENDS HciCmd, ListLemmas

\* The order of the commands of start-up, and those it never leaves out.
Rank(op) ==
    CASE op = "READ_LOCAL_FEATURES"     -> 1
      [] op = "READ_LOCAL_VERSION_INFO" -> 2
      [] op = "READ_SUPPORTED_COMMANDS" -> 3
      [] op = "LE_RAND"                 -> 4
      [] op = "LE_READ_LOCAL_FEATURES"  -> 5
      [] op = "LE_READ_BUFFER_SIZE"     -> 6
      [] op = "LE_WRITE_LE_HOST_SUPP"   -> 7
      [] op = "LE_SET_EVENT_MASK"       -> 8
      [] op = "READ_BUFFER_SIZE"        -> 9
      [] op = "SET_EVENT_MASK"          -> 10
      [] op = "READ_BD_ADDR"            -> 11
      [] op = "LE_SET_RANDOM_ADDRESS"   -> 12

Needed ==
    {"READ_LOCAL_FEATURES", "READ_LOCAL_VERSION_INFO", "READ_SUPPORTED_COMMANDS",
     "LE_READ_LOCAL_FEATURES", "LE_READ_BUFFER_SIZE", "LE_SET_EVENT_MASK", "SET_EVENT_MASK"}
    \cup (IF Prng THEN {"LE_RAND"} ELSE {})
    \cup (IF bredr THEN {"LE_WRITE_LE_HOST_SUPP", "READ_BUFFER_SIZE"} ELSE {})

\* The controller was asked the commands up to rank n, in order.
Asked(n) ==
    /\ \A i, j \in 1 .. Len(answered) : i < j => Rank(answered[i]) < Rank(answered[j])
    /\ \A i \in 1 .. Len(answered) : Rank(answered[i]) <= n
    /\ \A op \in Needed : Rank(op) <= n => \E i \in 1 .. Len(answered) : answered[i] = op

\* The first n events on their way answer nothing.
Nops(n) == \A i \in 1 .. n : rx[i].op = Nop

NoneOut == cmdQueue = <<>> /\ tx = <<>> /\ Nops(Len(rx))

\* The command is the only one on its way to the controller ...
OneOut(c) ==
    /\ \/ cmdQueue = <<c>> /\ tx = <<>>
       \/ cmdQueue = <<>> /\ tx = <<c>>
    /\ Nops(Len(rx))

\* ... or its answer is on the way back.
AnswerOut(op) ==
    /\ cmdQueue = <<>> /\ tx = <<>>
    /\ rx # <<>> /\ Nops(Len(rx) - 1) /\ rx[Len(rx)].op = op /\ op # Nop

Waiting(op) == OneOut(PlainCmd(op)) \/ AnswerOut(op)

\* The chain has come to op.
Chain(op) == Waiting(op) /\ Asked(IF AnswerOut(op) THEN Rank(op) ELSE Rank(op) - 1)

\* What an event says of the command it answers.
Fits(e) ==
    /\ e.kind = "vendor" <=> e.op = "VENDOR"
    /\ e.op \in InitCmds \cup {"RESET", Nop} => e.kind = "complete"
    /\ e.op = "RESET" => e.ok
    /\ e.found => e.op = "READ_BD_ADDR"

EventsFit == \A i \in 1 .. Len(rx) : Fits(rx[i])

Started ==
    /\ hciState = "BOOTING" => NoneOut /\ ~ rebooting
    /\ hciState = "BOOTING_WAIT" =>
          \/ step \in {1, 2} /\ ~ rebooting /\ Waiting("VENDOR")
          \/ step = 0 /\ rebooting /\ (NoneOut \/ OneOut(PlainCmd("WARM_RESET")))
    /\ hciState = "PREPARING" => NoneOut /\ ~ rebooting
    /\ hciState = "PREPARING_WAIT_RESET" =>
          Waiting("RESET") /\ initState = "RESET_WAIT" /\ ~ rebooting
    /\ hciState = "INITIALING" => NoneOut /\ ~ rebooting
    /\ hciState = "INITIALING_WAIT" =>
          /\ initState \in InitCmds /\ Chain(initState) /\ ~ rebooting
          /\ initState = "LE_SET_RANDOM_ADDRESS" => idCount
    /\ hciState \notin {"INITIALING_WAIT", "READY"} => answered = <<>>

\* From then on no command of start-up is on its way.
Ready ==
    hciState = "READY" =>
        /\ Asked(12) /\ idCount /\ ~ rebooting
        /\ \A i \in 1 .. Len(cmdQueue) : cmdQueue[i].op \notin BootCmds
        /\ \A i \in 1 .. Len(tx) : tx[i].op \notin BootCmds
        /\ \A i \in 1 .. Len(rx) : rx[i].op \notin BootCmds

Remembered == [opcode : Opcodes \cup {Nop}, state : {c.set : c \in Commands}]

Types == TypeOK /\ cmdData \in Remembered

IInv == Types /\ EventsFit /\ Started /\ Ready

-----------------------------------------------------------------------------
(* The chain of start-up *)

LEMMA NextOfChain ==
    ASSUME NEW op \in InitCmds, NEW ids, NEW next, next = AfterInit(op, ids)
    PROVE  /\ Rank(op) \in 1 .. 12
           /\ next # "END" => /\ next \in InitCmds /\ Rank(next) > Rank(op)
                              /\ \A r \in Needed : Rank(r) > Rank(op) => Rank(r) >= Rank(next)
           /\ next = "LE_SET_RANDOM_ADDRESS" => op = "READ_BD_ADDR"
<1>1. CASE op = "READ_LOCAL_FEATURES"
  BY <1>1 DEF AfterInit, Rank, Needed, InitCmds
<1>2. CASE op = "READ_LOCAL_VERSION_INFO"
  BY <1>2 DEF AfterInit, Rank, Needed, InitCmds
<1>3. CASE op = "READ_SUPPORTED_COMMANDS"
  BY <1>3 DEF AfterInit, Rank, Needed, InitCmds
<1>4. CASE op = "LE_RAND"
  BY <1>4 DEF AfterInit, Rank, Needed, InitCmds
<1>5. CASE op = "LE_READ_LOCAL_FEATURES"
  BY <1>5 DEF AfterInit, Rank, Needed, InitCmds
<1>6. CASE op = "LE_READ_BUFFER_SIZE"
  BY <1>6 DEF AfterInit, Rank, Needed, InitCmds
<1>7. CASE op = "LE_WRITE_LE_HOST_SUPP"
  BY <1>7 DEF AfterInit, Rank, Needed, InitCmds
<1>8. CASE op = "LE_SET_EVENT_MASK"
  BY <1>8 DEF AfterInit, Rank, Needed, InitCmds
<1>9. CASE op = "READ_BUFFER_SIZE"
  BY <1>9 DEF AfterInit, Rank, Needed, InitCmds
<1>10. CASE op = "SET_EVENT_MASK"
  BY <1>10 DEF AfterInit, Rank, Needed, InitCmds
<1>11. CASE op = "READ_BD_ADDR"
  BY <1>11 DEF AfterInit, Rank, Needed, InitCmds
<1>12. CASE op = "LE_SET_RANDOM_ADDRESS"
  BY <1>12 DEF AfterInit, Rank, Needed, InitCmds
<1>13. QED
  BY <1>1, <1>2, <1>3, <1>4, <1>5, <1>6, <1>7, <1>8, <1>9, <1>10, <1>11, <1>12 DEF InitCmds

LEMMA ChainEnds ==
    ASSUME NEW op \in InitCmds, NEW ids \in BOOLEAN, AfterInit(op, ids) = "END"
    PROVE  /\ \A r \in Needed : Rank(r) <= Rank(op)
           /\ ids \/ op = "LE_SET_RANDOM_ADDRESS"
<1>1. CASE op = "LE_SET_RANDOM_ADDRESS"
  BY <1>1 DEF Rank, Needed
<1>2. CASE op # "LE_SET_RANDOM_ADDRESS"
  <2>1. ids /\ op \in {"SET_EVENT_MASK", "READ_BD_ADDR"}
    BY <1>2 DEF AfterInit, InitCmds
  <2>2. QED
    BY <2>1 DEF Rank, Needed
<1>3. QED
  BY <1>1, <1>2

LEMMA RankType == \A op \in InitCmds : Rank(op) \in 1 .. 12
  BY NextOfChain

LEMMA RankDistinct == \A a, b \in InitCmds : Rank(a) = Rank(b) => a = b
  BY DEF Rank, InitCmds

LEMMA NeededInit == Needed \subseteq InitCmds
  BY DEF Needed, InitCmds

\* The controller is asked one more command of the chain.
LEMMA AskedOneMore ==
    ASSUME answered \in Seq(InitCmds), NEW op \in InitCmds, NEW n, n = Rank(op), Asked(n - 1),
           answered' = Append(answered, op), bredr' = bredr
    PROVE  Asked(n)'
<1>1. n = Rank(op)
  OBVIOUS
<1>2. n \in 1 .. 12 /\ Len(answered) \in Nat
  BY <1>1, RankType
<1>3. /\ Len(answered') = Len(answered) + 1 /\ answered'[Len(answered) + 1] = op
      /\ \A i \in 1 .. Len(answered) : answered'[i] = answered[i]
  BY AppendProperties
<1>4. \A i \in 1 .. Len(answered) : Rank(answered[i]) \in Nat /\ Rank(answered[i]) <= n - 1
  BY <1>1, RankType DEF Asked
<1>5. ASSUME NEW i \in 1 .. Len(answered'), NEW j \in 1 .. Len(answered'), i < j
      PROVE  Rank(answered'[i]) < Rank(answered'[j])
  <2>1. i \in 1 .. Len(answered) /\ (j \in 1 .. Len(answered) \/ j = Len(answered) + 1)
    BY <1>2, <1>3, <1>5
  <2>2. CASE j \in 1 .. Len(answered)
    BY <1>3, <1>5, <2>1, <2>2 DEF Asked
  <2>3. CASE j = Len(answered) + 1
    <3>1. Rank(answered'[j]) = n /\ answered'[i] = answered[i]
      BY <1>1, <1>3, <2>1, <2>3
    <3>2. Rank(answered[i]) \in Nat /\ Rank(answered[i]) <= n - 1
      BY <1>4, <2>1
    <3>3. QED
      BY <1>2, <3>1, <3>2
  <2>4. QED
    BY <2>1, <2>2, <2>3
<1>6. ASSUME NEW i \in 1 .. Len(answered') PROVE Rank(answered'[i]) <= n
  <2>1. i \in 1 .. Len(answered) \/ i = Len(answered) + 1
    BY <1>2, <1>3
  <2>2. CASE i \in 1 .. Len(answered)
    BY <1>2, <1>3, <1>4, <2>2
  <2>3. CASE i = Len(answered) + 1
    BY <1>1, <1>2, <1>3, <2>3
  <2>4. QED
    BY <2>1, <2>2, <2>3
<1>7. ASSUME NEW r \in Needed, Rank(r) <= n
      PROVE  \E i \in 1 .. Len(answered') : answered'[i] = r
  <2>1. CASE r = op
    <3>1. Len(answered) + 1 \in 1 .. Len(answered')
      BY <1>2, <1>3
    <3>2. QED
      BY <1>3, <2>1, <3>1
  <2>2. CASE r # op
    <3>1. r \in InitCmds /\ Rank(r) \in 1 .. 12 /\ Rank(r) # n
      BY <1>1, <2>2, NeededInit, RankType, RankDistinct
    <3>2. Rank(r) <= n - 1
      BY <1>2, <1>7, <3>1
    <3>3. PICK i \in 1 .. Len(answered) : answered[i] = r
      BY <1>1, <3>2 DEF Asked
    <3>4. i \in 1 .. Len(answered')
      BY <1>2, <1>3
    <3>5. QED
      BY <1>3, <3>3, <3>4
  <2>3. QED
    BY <2>1, <2>2
<1>8. Needed' = Needed
  BY DEF Needed
<1>9. QED
  BY <1>5, <1>6, <1>7, <1>8 DEF Asked, Rank

\* Nothing the chain leaves out is needed.
LEMMA AskedUpTo ==
    ASSUME answered \in Seq(InitCmds), NEW op \in InitCmds, Asked(Rank(op)), NEW m \in Nat,
           Rank(op) <= m, \A r \in Needed : Rank(r) > Rank(op) => Rank(r) > m
    PROVE  Asked(m)
<1>1. Rank(op) \in 1 .. 12
  BY RankType
<1>2. ASSUME NEW r \in Needed, Rank(r) <= m PROVE Rank(r) <= Rank(op)
  <2>1. Rank(r) \in 1 .. 12
    BY NeededInit, RankType
  <2>2. QED
    BY <1>1, <1>2, <2>1
<1>3. ASSUME NEW i \in 1 .. Len(answered) PROVE Rank(answered[i]) <= m
  <2>1. Rank(answered[i]) \in 1 .. 12 /\ Rank(answered[i]) <= Rank(op)
    BY RankType DEF Asked
  <2>2. QED
    BY <1>1, <2>1
<1>4. QED
  BY <1>2, <1>3 DEF Asked

LEMMA AskedKept ==
    ASSUME NEW n, Asked(n), answered' = answered, bredr' = bredr
    PROVE  Asked(n)'
  BY ZenonT(40) DEF Asked, Rank, Needed

-----------------------------------------------------------------------------
(* Commands and events *)

LEMMA CommandFacts ==
    /\ \A op \in Opcodes : PlainCmd(op) \in Commands /\ PlainCmd(op).op = op /\ PlainCmd(op).set = NoFlag
    /\ \A f \in Flags, v \in BOOLEAN :
          /\ SetFlag(f, v) \in Commands /\ SetFlag(f, v).op = f
          /\ SetFlag(f, v).set = [flag |-> f, value |-> v]
    /\ \A c \in Commands : c.op \in Opcodes /\ [opcode |-> c.op, state |-> c.set] \in Remembered
    /\ \A c \in Commands : c.set # NoFlag => c.set.flag \in Flags /\ c.set.value \in BOOLEAN
<1>1. \A op \in Opcodes : PlainCmd(op) \in Commands /\ PlainCmd(op).op = op /\ PlainCmd(op).set = NoFlag
  BY DEF Commands, PlainCmd
<1>2. \A f \in Flags, v \in BOOLEAN :
          /\ SetFlag(f, v) \in Commands /\ SetFlag(f, v).op = f
          /\ SetFlag(f, v).set = [flag |-> f, value |-> v]
  BY DEF Commands, SetFlag
<1>3. ASSUME NEW c \in Commands
      PROVE  /\ c.op \in Opcodes
             /\ c.set # NoFlag => c.set.flag \in Flags /\ c.set.value \in BOOLEAN
  <2>1. CASE \E op \in Opcodes : c = PlainCmd(op)
    BY <1>1, <2>1
  <2>2. CASE \E f \in Flags, v \in BOOLEAN : c = SetFlag(f, v)
    <3>1. PICK f \in Flags, v \in BOOLEAN : c = SetFlag(f, v)
      BY <2>2
    <3>2. c.op = f /\ c.set = [flag |-> f, value |-> v]
      BY <1>2, <3>1
    <3>3. f \in Opcodes
      BY DEF Opcodes
    <3>4. QED
      BY <3>2, <3>3
  <2>3. QED
    BY <2>1, <2>2 DEF Commands
<1>4. \A c \in Commands : [opcode |-> c.op, state |-> c.set] \in Remembered
  BY <1>3 DEF Remembered
<1>5. QED
  BY <1>1, <1>2, <1>3, <1>4

LEMMA RememberedFacts ==
    ASSUME cmdData \in Remembered
    PROVE  /\ cmdData.opcode \in Opcodes \cup {Nop}
           /\ cmdData.state # NoFlag => cmdData.state.flag \in Flags /\ cmdData.state.value \in BOOLEAN
<1>1. cmdData.opcode \in Opcodes \cup {Nop} /\ cmdData.state \in {c.set : c \in Commands}
  BY DEF Remembered
<1>2. PICK c \in Commands : cmdData.state = c.set
  BY <1>1
<1>3. QED
  BY <1>1, <1>2, CommandFacts

LEMMA FlagsType ==
    ASSUME cmdData \in Remembered, flags \in [Flags -> BOOLEAN], NEW op, NEW ok
    PROVE  FlagsAfter(op, ok) \in [Flags -> BOOLEAN]
<1>1. cmdData.state # NoFlag => cmdData.state.flag \in Flags /\ cmdData.state.value \in BOOLEAN
  BY RememberedFacts
<1>2. QED
  BY <1>1 DEF FlagsAfter

\* Start-up commands are what they are called; the application's have other names.
LEMMA Names ==
    /\ InitCmds \subseteq BootCmds /\ {"RESET", "VENDOR", "WARM_RESET"} \subseteq BootCmds
    /\ BootCmds \subseteq Opcodes /\ Nop \notin Opcodes
    /\ {"RESET", "VENDOR", "WARM_RESET", Nop} \cap InitCmds = {}
<1>1. Nop \notin BootCmds
  BY DEF Nop, BootCmds, InitCmds
<1>2. {"RESET", "VENDOR", "WARM_RESET", Nop} \cap InitCmds = {}
  BY DEF Nop, InitCmds
<1>3. Nop \notin Flags \cup {Plain}
  BY HciCmdAssumption
<1>4. QED
  BY <1>1, <1>2, <1>3 DEF Opcodes, BootCmds

LEMMA SendType ==
    ASSUME cmdQueue \in Seq(Commands), NEW c \in Commands, Send(c)
    PROVE  cmdQueue' \in Seq(Commands) /\ cmdData' \in Remembered
           /\ cmdData'.opcode \in Opcodes \cup {Nop} /\ cmdData'.state \in {d.set : d \in Commands}
<1>1. cmdQueue' \in Seq(Commands)
  BY AppendProperties DEF Send
<1>2. cmdData' \in Remembered
  BY CommandFacts DEF Send
<1>3. QED
  BY <1>1, <1>2 DEF Remembered

\* The only command there is, when nothing was on its way.
LEMMA SendOne ==
    ASSUME NoneOut, NEW c, Send(c), UNCHANGED <<tx, rx>>
    PROVE  OneOut(c)'
  BY DEF NoneOut, OneOut, Nops, Send

LEMMA OutFacts ==
    /\ \A op : AnswerOut(op) => cmdQueue = <<>> /\ tx = <<>> /\ rx # <<>>
    /\ \A c : OneOut(c) => /\ (cmdQueue = <<c>> /\ tx = <<>>) \/ (cmdQueue = <<>> /\ tx = <<c>>)
                           /\ Nops(Len(rx))
    /\ NoneOut => cmdQueue = <<>> /\ tx = <<>> /\ Nops(Len(rx))
<1>1. \A op : AnswerOut(op) => cmdQueue = <<>> /\ tx = <<>> /\ rx # <<>>
  BY DEF AnswerOut
<1>2. \A c : OneOut(c) => /\ (cmdQueue = <<c>> /\ tx = <<>>) \/ (cmdQueue = <<>> /\ tx = <<c>>)
                          /\ Nops(Len(rx))
  BY DEF OneOut
<1>3. NoneOut => cmdQueue = <<>> /\ tx = <<>> /\ Nops(Len(rx))
  BY DEF NoneOut
<1>4. QED
  BY <1>1, <1>2, <1>3, Zenon

\* The first event is read.
LEMMA ReadEvent ==
    ASSUME rx \in Seq(Events), rx # <<>>, rx' = Tail(rx), UNCHANGED tx
    PROVE  /\ Head(rx) \in Events
           /\ EventsFit => Fits(Head(rx)) /\ EventsFit'
           /\ NoneOut /\ UNCHANGED cmdQueue => NoneOut' /\ Head(rx).op = Nop
           /\ \A c : OneOut(c) /\ UNCHANGED cmdQueue => OneOut(c)' /\ Head(rx).op = Nop
           /\ \A op : AnswerOut(op) => \/ Head(rx).op = op /\ (UNCHANGED cmdQueue => NoneOut')
                                       \/ Head(rx).op = Nop /\ (UNCHANGED cmdQueue => AnswerOut(op)')
           /\ \A op : AnswerOut(op) /\ Head(rx).op = op => cmdQueue = <<>> /\ tx' = <<>> /\ Nops(Len(rx))'
<1>1. /\ Len(rx) \in Nat /\ Len(rx) > 0 /\ Head(rx) = rx[1] /\ 1 \in 1 .. Len(rx)
      /\ Len(rx') = Len(rx) - 1 /\ \A i \in 1 .. Len(rx') : rx'[i] = rx[i + 1]
  BY HeadTailProperties
<1>2. Head(rx) \in Events
  BY <1>1, ElementType
<1>3. \A i \in 1 .. Len(rx') : i + 1 \in 1 .. Len(rx)
  BY <1>1
<1>4. EventsFit => Fits(Head(rx)) /\ EventsFit'
  BY <1>1, <1>3 DEF EventsFit, Fits
<1>5. Nops(Len(rx)) => Nops(Len(rx))' /\ Head(rx).op = Nop
  BY <1>1, <1>3 DEF Nops
<1>6. NoneOut /\ UNCHANGED cmdQueue => NoneOut' /\ Head(rx).op = Nop
  BY <1>5 DEF NoneOut
<1>7. \A c : OneOut(c) /\ UNCHANGED cmdQueue => OneOut(c)' /\ Head(rx).op = Nop
  BY <1>5 DEF OneOut
<1>8. ASSUME NEW op, AnswerOut(op)
      PROVE  /\ \/ Head(rx).op = op /\ (UNCHANGED cmdQueue => NoneOut')
                \/ Head(rx).op = Nop /\ (UNCHANGED cmdQueue => AnswerOut(op)')
             /\ Head(rx).op = op => cmdQueue = <<>> /\ tx' = <<>> /\ Nops(Len(rx))'
  <2>1. /\ cmdQueue = <<>> /\ tx' = <<>> /\ rx[Len(rx)].op = op /\ op # Nop
        /\ \A i \in 1 .. Len(rx) - 1 : rx[i].op = Nop
    BY <1>8 DEF AnswerOut, Nops
  <2>2. CASE Len(rx) = 1
    <3>1. Head(rx).op = op /\ Len(rx') = 0
      BY <1>1, <2>1, <2>2
    <3>2. Nops(Len(rx))'
      BY <3>1 DEF Nops
    <3>3. QED
      BY <2>1, <3>1, <3>2 DEF NoneOut
  <2>3. CASE Len(rx) # 1
    <3>1. 1 \in 1 .. Len(rx) - 1 /\ Len(rx') \in Nat /\ Len(rx') > 0 /\ Len(rx') + 1 = Len(rx)
      BY <1>1, <2>3
    <3>2. Head(rx).op = Nop
      BY <1>1, <2>1, <3>1
    <3>3. rx'[Len(rx')].op = op
      <4>1. Len(rx') \in 1 .. Len(rx')
        BY <3>1
      <4>2. rx'[Len(rx')] = rx[Len(rx)]
        BY <1>1, <3>1, <4>1
      <4>3. QED
        BY <2>1, <4>2
    <3>4. Nops(Len(rx) - 1)'
      <4>1. ASSUME NEW i \in 1 .. Len(rx') - 1 PROVE rx'[i].op = Nop
        <5>1. i \in 1 .. Len(rx') /\ i + 1 \in 1 .. Len(rx) - 1
          <6>1. PICK m, n : m = Len(rx') /\ n = Len(rx)
            OBVIOUS
          <6>2. m \in Nat /\ n = m + 1 /\ i \in 1 .. m - 1
            BY <3>1, <6>1
          <6>3. i \in 1 .. m /\ i + 1 \in 1 .. n - 1
            BY <6>2
          <6>4. QED
            BY <6>1, <6>3
        <5>2. QED
          BY <1>1, <2>1, <5>1
      <4>2. QED
        BY <4>1 DEF Nops
    <3>5. rx' # <<>>
      <4>1. Len(<<>>) = 0
        OBVIOUS
      <4>2. ASSUME rx' = <<>> PROVE FALSE
        <5>1. Len(rx') = 0
          BY <4>1, <4>2
        <5>2. QED
          BY <3>1, <5>1
      <4>3. QED
        BY <4>2
    <3>6. QED
      BY <2>1, <3>2, <3>3, <3>4, <3>5 DEF AnswerOut
  <2>4. QED
    BY <2>2, <2>3
<1>9. QED
  BY <1>2, <1>4, <1>6, <1>7, <1>8

-----------------------------------------------------------------------------
(* The steps *)

\* What most steps leave alone.
LEMMA TypesNow ==
    ASSUME Types
    PROVE  /\ hciState \in States /\ initState \in InitCmds \cup {"IDLE", "RESET_WAIT", "SUCCESS"}
           /\ cmdQueue \in Seq(Commands) /\ cmdData \in Remembered /\ ncmdSem \in {0, 1}
           /\ idCount \in BOOLEAN /\ flags \in [Flags -> BOOLEAN] /\ bredr \in BOOLEAN
           /\ boot \in BOOLEAN /\ step \in 0 .. 2 /\ rebooting \in BOOLEAN
           /\ tx \in Seq(Commands) /\ rx \in Seq(Events) /\ ctrl \in [Flags -> BOOLEAN]
           /\ credit \in {0, 1} /\ answered \in Seq(InitCmds) /\ appCmds \in 0 .. MaxAppCmds
  BY DEF Types, TypeOK

LEMMA TypesNext ==
    ASSUME /\ hciState' \in States /\ initState' \in InitCmds \cup {"IDLE", "RESET_WAIT", "SUCCESS"}
           /\ cmdQueue' \in Seq(Commands) /\ cmdData' \in Remembered /\ ncmdSem' \in {0, 1}
           /\ idCount' \in BOOLEAN /\ flags' \in [Flags -> BOOLEAN] /\ bredr' \in BOOLEAN
           /\ boot' \in BOOLEAN /\ step' \in 0 .. 2 /\ rebooting' \in BOOLEAN
           /\ tx' \in Seq(Commands) /\ rx' \in Seq(Events) /\ ctrl' \in [Flags -> BOOLEAN]
           /\ credit' \in {0, 1} /\ answered' \in Seq(InitCmds) /\ appCmds' \in 0 .. MaxAppCmds
    PROVE  Types'
<1>1. cmdData'.opcode \in Opcodes \cup {Nop} /\ cmdData'.state \in {c.set : c \in Commands}
  BY DEF Remembered
<1>2. TypeOK'
  BY <1>1 DEF TypeOK, States, InitCmds, Commands, PlainCmd, SetFlag, Opcodes, BootCmds, NoFlag, Nop, Events
<1>3. Types'
  BY <1>2 DEF Types, Remembered, Commands, PlainCmd, SetFlag, Opcodes, BootCmds, InitCmds, NoFlag, Nop
<1>4. QED
  BY <1>3

LEMMA RxKept == EventsFit /\ rx' = rx => EventsFit'
  BY DEF EventsFit, Fits

LEMMA InitIInv == Init => IInv
<1>1. SUFFICES ASSUME Init PROVE IInv
  OBVIOUS
<1>2. /\ hciState = "BOOTING" /\ initState = "IDLE" /\ cmdQueue = <<>> /\ tx = <<>> /\ rx = <<>>
      /\ ncmdSem = 1 /\ idCount \in BOOLEAN
      /\ flags = [f \in Flags |-> FALSE] /\ ctrl = [f \in Flags |-> FALSE] /\ bredr \in BOOLEAN
      /\ boot \in BOOLEAN /\ step = 0 /\ rebooting = FALSE /\ credit = 1 /\ answered = <<>>
      /\ appCmds = 0
  BY <1>1 DEF Init
<1>0. cmdData = [opcode |-> Nop, state |-> NoFlag]
  BY <1>1 DEF Init
<1>3. NoFlag \in {c.set : c \in Commands}
  <2>1. "RESET" \in Opcodes
    BY Names
  <2>2. QED
    BY <2>1, CommandFacts
<1>4. cmdData \in Remembered
  BY <1>0, <1>3 DEF Remembered
<1>5. MaxAppCmds \in Nat
  BY HciCmdAssumption
<1>6. Types
  <2>1. <<>> \in Seq(Commands) /\ <<>> \in Seq(Events) /\ <<>> \in Seq(InitCmds)
    OBVIOUS
  <2>2. [f \in Flags |-> FALSE] \in [Flags -> BOOLEAN] /\ 0 \in 0 .. MaxAppCmds
    BY <1>5
  <2>3. cmdData.opcode \in Opcodes \cup {Nop} /\ cmdData.state \in {c.set : c \in Commands}
    BY <1>4 DEF Remembered
  <2>4. TypeOK
    <3>1. hciState \in States /\ initState \in InitCmds \cup {"IDLE", "RESET_WAIT", "SUCCESS"}
      BY <1>2 DEF States
    <3>2. /\ cmdQueue \in Seq(Commands) /\ tx \in Seq(Commands) /\ rx \in Seq(Events)
          /\ answered \in Seq(InitCmds)
      BY <1>2, <2>1
    <3>3. ncmdSem \in {0, 1} /\ step \in 0 .. 2 /\ credit \in {0, 1} /\ appCmds \in 0 .. MaxAppCmds
      BY <1>2, <2>2
    <3>4. flags \in [Flags -> BOOLEAN] /\ ctrl \in [Flags -> BOOLEAN]
      BY <1>2, <2>2
    <3>5. rebooting \in BOOLEAN
      BY <1>2, Zenon
    <3>6. QED
      BY <1>2, <2>3, <3>1, <3>2, <3>3, <3>4, <3>5 DEF TypeOK
  <2>5. QED
    BY <1>4, <2>4 DEF Types
<1>7. NoneOut /\ EventsFit
  BY <1>2 DEF NoneOut, Nops, EventsFit
<1>8. Started /\ Ready
  BY <1>2, <1>7 DEF Started, Ready
<1>9. QED
  BY <1>6, <1>7, <1>8 DEF IInv

LEMMA PollBootChipsetIInv == IInv /\ PollBootChipset => IInv'
<1>1. SUFFICES ASSUME IInv, PollBootChipset PROVE IInv'
  OBVIOUS
<1>2. Types /\ EventsFit /\ Started
  BY <1>1 DEF IInv
<1>3. PICK c : c = PlainCmd("VENDOR")
  OBVIOUS
<1>4. /\ hciState = "BOOTING" /\ hciState' = "BOOTING_WAIT" /\ Send(c) /\ step' = 1
      /\ UNCHANGED <<initState, ncmdSem, idCount, flags, bredr, boot, rebooting, tx, rx, ctrl, credit,
                     answered, appCmds>>
  BY <1>1, <1>3 DEF PollBootChipset, linkVars
<1>5. c \in Commands
  BY <1>3, CommandFacts, Names
<1>6. NoneOut /\ ~ rebooting /\ answered = <<>>
  BY <1>2, <1>4 DEF Started
<1>7. OneOut(c)'
  BY <1>4, <1>6, SendOne
<1>8. Waiting("VENDOR")'
  BY <1>3, <1>7 DEF Waiting, PlainCmd, NoFlag
<1>9. Started'
  BY <1>4, <1>6, <1>8 DEF Started
<1>10. Types'
  BY <1>2, <1>4, <1>5, SendType, TypesNow, TypesNext DEF States
<1>11. EventsFit' /\ Ready'
  BY <1>2, <1>4, RxKept DEF Ready
<1>12. QED
  BY <1>9, <1>10, <1>11 DEF IInv

LEMMA PollPreparingIInv == IInv /\ PollPreparing => IInv'
<1>1. SUFFICES ASSUME IInv, PollPreparing PROVE IInv'
  OBVIOUS
<1>2. Types /\ EventsFit /\ Started
  BY <1>1 DEF IInv
<1>3. PICK c : c = PlainCmd("RESET")
  OBVIOUS
<1>4. /\ hciState \in {"PREPARING", "BOOTING"} /\ hciState' = "PREPARING_WAIT_RESET" /\ Send(c)
      /\ initState' = "RESET_WAIT"
      /\ UNCHANGED <<ncmdSem, idCount, flags, bredr, boot, step, rebooting, tx, rx, ctrl, credit,
                     answered, appCmds>>
  BY <1>1, <1>3 DEF PollPreparing, linkVars, envVars
<1>5. c \in Commands
  BY <1>3, CommandFacts, Names
<1>6. NoneOut /\ ~ rebooting /\ answered = <<>>
  BY <1>2, <1>4 DEF Started
<1>7. OneOut(c)'
  BY <1>4, <1>6, SendOne
<1>8. Waiting("RESET")'
  BY <1>3, <1>7 DEF Waiting, PlainCmd, NoFlag
<1>9. Started'
  BY <1>4, <1>6, <1>8 DEF Started
<1>10. Types'
  BY <1>2, <1>4, <1>5, SendType, TypesNow, TypesNext DEF States
<1>11. EventsFit' /\ Ready'
  BY <1>2, <1>4, RxKept DEF Ready
<1>12. QED
  BY <1>9, <1>10, <1>11 DEF IInv

LEMMA PollInitialingIInv == IInv /\ PollInitialing => IInv'
<1>1. SUFFICES ASSUME IInv, PollInitialing PROVE IInv'
  OBVIOUS
<1>2. Types /\ EventsFit /\ Started
  BY <1>1 DEF IInv
<1>3. PICK op, c : op = "READ_LOCAL_FEATURES" /\ c = PlainCmd(op)
  OBVIOUS
<1>4. /\ hciState = "INITIALING" /\ hciState' = "INITIALING_WAIT" /\ Send(c) /\ initState' = op
      /\ UNCHANGED <<ncmdSem, idCount, flags, bredr, boot, step, rebooting, tx, rx, ctrl, credit,
                     answered, appCmds>>
  BY <1>1, <1>3 DEF PollInitialing, linkVars, envVars
<1>5. op \in InitCmds /\ c \in Commands
  <2>1. op \in InitCmds
    BY <1>3 DEF InitCmds
  <2>2. QED
    BY <1>3, <2>1, CommandFacts, Names
<1>6. NoneOut /\ ~ rebooting /\ answered = <<>>
  BY <1>2, <1>4 DEF Started
<1>7. OneOut(c)'
  BY <1>4, <1>6, SendOne
<1>8. Waiting(op)' /\ ~ AnswerOut(op)'
  <2>1. ~ AnswerOut(op)'
    BY <1>7 DEF OneOut, AnswerOut
  <2>2. QED
    BY <1>3, <1>7, <2>1 DEF Waiting, PlainCmd, NoFlag
<1>9. Asked(0)'
  <2>1. Len(answered') = 0
    BY <1>4, <1>6
  <2>2. \A r \in Needed' : Rank(r) \in 1 .. 12
    <3>1. Needed' = Needed
      BY <1>4 DEF Needed
    <3>2. QED
      BY <3>1, NeededInit, RankType
  <2>3. \A r \in Needed' : ~ (Rank(r) <= 0)
    BY <2>2
  <2>4. QED
    BY <2>1, <2>3 DEF Asked, Rank, Needed
<1>10. Chain(op)'
  <2>1. Rank(op) - 1 = 0
    BY <1>3 DEF Rank
  <2>2. QED
    BY <1>8, <1>9, <2>1 DEF Chain
<1>11. Chain(initState)'
  BY <1>4, <1>10
<1>12. Started'
  BY <1>3, <1>4, <1>5, <1>6, <1>11 DEF Started, InitCmds
<1>13. Types'
  BY <1>2, <1>4, <1>5, SendType, TypesNow, TypesNext DEF States
<1>14. EventsFit' /\ Ready'
  BY <1>2, <1>4, RxKept DEF Ready
<1>15. QED
  BY <1>12, <1>13, <1>14 DEF IInv

\* What start-up waits for stays on its way.
LEMMA StartedKept ==
    ASSUME Started,
           UNCHANGED <<hciState, initState, step, rebooting, answered, bredr, idCount>>,
           NoneOut => NoneOut', \A c : OneOut(c) => OneOut(c)',
           \A op \in InitCmds \cup {"RESET", "VENDOR"} : AnswerOut(op) => AnswerOut(op)'
    PROVE  Started'
<1>1. ASSUME NEW op \in InitCmds \cup {"RESET", "VENDOR"}, Waiting(op)
      PROVE  Waiting(op)' /\ (AnswerOut(op)' <=> AnswerOut(op))
  <2>1. PICK c : c = PlainCmd(op)
    OBVIOUS
  <2>2. CASE OneOut(c)
    <3>1. OneOut(c)'
      BY <2>2
    <3>2. ~ AnswerOut(op) /\ ~ AnswerOut(op)'
      BY <2>2, <3>1, SMTT(30) DEF OneOut, AnswerOut
    <3>3. Waiting(op)'
      BY <2>1, <3>1 DEF Waiting, PlainCmd, NoFlag
    <3>4. QED
      BY <3>2, <3>3
  <2>3. CASE AnswerOut(op)
    <3>1. AnswerOut(op)'
      BY <2>3
    <3>2. QED
      BY <2>3, <3>1 DEF Waiting
  <2>4. QED
    BY <1>1, <2>1, <2>2, <2>3 DEF Waiting
<1>2. ASSUME NEW op \in InitCmds, Chain(op) PROVE Chain(op)'
  <2>1. PICK n : n = IF AnswerOut(op) THEN Rank(op) ELSE Rank(op) - 1
    OBVIOUS
  <2>2. Asked(n)'
    BY <1>2, <2>1, AskedKept DEF Chain
  <2>3. Waiting(op)' /\ (AnswerOut(op)' <=> AnswerOut(op))
    BY <1>1, <1>2 DEF Chain
  <2>4. QED
    BY <2>1, <2>2, <2>3 DEF Chain
<1>3. OneOut(PlainCmd("WARM_RESET")) => OneOut(PlainCmd("WARM_RESET"))'
  BY DEF PlainCmd, NoFlag
<1>4. CASE hciState = "INITIALING_WAIT"
  <2>1. PICK op : op = initState
    OBVIOUS
  <2>2. /\ op \in InitCmds /\ Chain(op) /\ ~ rebooting
        /\ op = "LE_SET_RANDOM_ADDRESS" => idCount
    BY <1>4, <2>1 DEF Started
  <2>3. Chain(op)'
    BY <1>2, <2>2
  <2>4. Chain(initState)'
    BY <2>1, <2>3
  <2>5. QED
    BY <1>4, <2>1, <2>2, <2>4 DEF Started, InitCmds
<1>5. CASE hciState = "BOOTING_WAIT"
  <2>1. Waiting("VENDOR") => Waiting("VENDOR")'
    BY <1>1
  <2>2. QED
    BY <1>3, <1>5, <2>1 DEF Started
<1>6. CASE hciState = "PREPARING_WAIT_RESET"
  <2>1. Waiting("RESET") => Waiting("RESET")'
    BY <1>1
  <2>2. QED
    BY <1>6, <2>1 DEF Started
<1>7. CASE hciState \notin {"INITIALING_WAIT", "BOOTING_WAIT", "PREPARING_WAIT_RESET"}
  BY <1>7 DEF Started
<1>8. QED
  BY <1>4, <1>5, <1>6, <1>7

LEMMA HciSendCmdIInv == IInv /\ HciSendCmd => IInv'
<1>1. SUFFICES ASSUME IInv, HciSendCmd PROVE IInv'
  OBVIOUS
<1>2. Types /\ EventsFit /\ Started /\ Ready
  BY <1>1 DEF IInv
<1>3. /\ cmdQueue # <<>> /\ cmdQueue' = Tail(cmdQueue) /\ ncmdSem' = TakeNcmd
      /\ tx' = Append(tx, Head(cmdQueue))
      /\ UNCHANGED <<hciState, initState, cmdData, idCount, flags, bredr, boot, step, rebooting,
                     rx, ctrl, credit, answered, appCmds>>
  BY <1>1 DEF HciSendCmd, envVars
<1>4. /\ cmdQueue \in Seq(Commands) /\ tx \in Seq(Commands) /\ Head(cmdQueue) \in Commands
      /\ Head(cmdQueue) = cmdQueue[1] /\ 1 \in 1 .. Len(cmdQueue)
      /\ cmdQueue' \in Seq(Commands) /\ Len(cmdQueue') = Len(cmdQueue) - 1
      /\ \A i \in 1 .. Len(cmdQueue') : cmdQueue'[i] = cmdQueue[i + 1]
  <2>1. cmdQueue \in Seq(Commands) /\ tx \in Seq(Commands)
    BY <1>2, TypesNow
  <2>2. QED
    BY <1>3, <2>1, HeadTailProperties
<1>5. /\ tx' \in Seq(Commands) /\ Len(tx') = Len(tx) + 1 /\ tx'[Len(tx) + 1] = cmdQueue[1]
      /\ \A i \in 1 .. Len(tx) : tx'[i] = tx[i]
  BY <1>3, <1>4, AppendProperties
<1>6. ncmdSem' \in {0, 1}
  <2>1. ncmdSem \in {0, 1}
    BY <1>2, TypesNow
  <2>2. QED
    BY <1>3, <2>1 DEF TakeNcmd
<1>7. Types'
  BY <1>2, <1>3, <1>4, <1>5, <1>6, TypesNow, TypesNext
<1>8. ASSUME NEW c, OneOut(c) PROVE OneOut(c)'
  <2>1. cmdQueue = <<c>> /\ tx = <<>> /\ Nops(Len(rx))
    BY <1>3, <1>8 DEF OneOut
  <2>2. cmdQueue' = <<>> /\ tx' = <<c>>
    BY <1>3, <2>1
  <2>3. QED
    BY <1>3, <2>1, <2>2 DEF OneOut, Nops
<1>9. ~ NoneOut /\ \A op : ~ AnswerOut(op)
  BY <1>3, OutFacts
<1>10. Started'
  BY <1>2, <1>3, <1>8, <1>9, StartedKept
<1>11. Ready'
  <2>1. SUFFICES ASSUME hciState = "READY" PROVE Ready'
    BY <1>3 DEF Ready
  <2>2. /\ \A i \in 1 .. Len(cmdQueue) : cmdQueue[i].op \notin BootCmds
        /\ \A i \in 1 .. Len(tx) : tx[i].op \notin BootCmds
        /\ \A i \in 1 .. Len(rx) : rx[i].op \notin BootCmds
        /\ Asked(12) /\ idCount /\ ~ rebooting
    BY <1>2, <2>1 DEF Ready
  <2>3. \A i \in 1 .. Len(cmdQueue') : i + 1 \in 1 .. Len(cmdQueue)
    BY <1>4
  <2>4. \A i \in 1 .. Len(tx') : i \in 1 .. Len(tx) \/ i = Len(tx) + 1
    BY <1>4, <1>5
  <2>5. \A i \in 1 .. Len(cmdQueue') : cmdQueue'[i].op \notin BootCmds
    BY <1>4, <2>2, <2>3
  <2>6. \A i \in 1 .. Len(tx') : tx'[i].op \notin BootCmds
    BY <1>4, <1>5, <2>2, <2>4
  <2>7. Asked(12)'
    BY <1>3, <2>2, AskedKept
  <2>8. QED
    BY <1>3, <2>2, <2>5, <2>6, <2>7 DEF Ready, BootCmds, InitCmds
<1>12. EventsFit'
  BY <1>2, <1>3, RxKept
<1>13. QED
  BY <1>7, <1>10, <1>11, <1>12 DEF IInv

\* A step of a host that is ready changes nothing of what was asked, and adds no command of start-up.
LEMMA ReadyKept ==
    ASSUME Ready, hciState = "READY", hciState' = hciState, idCount \in BOOLEAN, idCount => idCount',
           UNCHANGED <<answered, bredr, rebooting>>,
           \A i \in 1 .. Len(cmdQueue') : cmdQueue'[i].op \notin BootCmds,
           \A i \in 1 .. Len(tx') : tx'[i].op \notin BootCmds,
           \A i \in 1 .. Len(rx') : rx'[i].op \notin BootCmds
    PROVE  Ready' /\ Started'
<1>1. Asked(12) /\ idCount /\ ~ rebooting
  BY DEF Ready
<1>2. Asked(12)'
  BY <1>1, AskedKept
<1>3. Ready'
  BY <1>1, <1>2 DEF Ready, BootCmds, InitCmds
<1>4. Started'
  BY DEF Started
<1>5. QED
  BY <1>3, <1>4

LEMMA GiveType == \A n : ncmdSem \in {0, 1} /\ GiveNcmd(n) => ncmdSem' \in {0, 1}
  BY DEF GiveNcmd

LEMMA HciCmdStatusIInv == IInv /\ HciCmdStatus => IInv'
<1>1. SUFFICES ASSUME IInv, HciCmdStatus PROVE IInv'
  OBVIOUS
<1>2. Types /\ EventsFit /\ Started /\ Ready
  BY <1>1 DEF IInv
<1>3. PICK e : e = Head(rx)
  OBVIOUS
<1>4. /\ rx # <<>> /\ e.kind = "status" /\ rx' = Tail(rx) /\ GiveNcmd(e.ncmd)
      /\ flags' = FlagsAfter(e.op, e.ok)
      /\ UNCHANGED <<hciState, initState, cmdQueue, cmdData, idCount, bredr, boot, step, rebooting,
                     tx, ctrl, credit, answered, appCmds>>
  BY <1>1, <1>3 DEF HciCmdStatus, envVars
<1>5. rx \in Seq(Events) /\ rx' \in Seq(Events)
  <2>1. rx \in Seq(Events)
    BY <1>2, TypesNow
  <2>2. QED
    BY <1>4, <2>1, HeadTailProperties
<1>6. flags' \in [Flags -> BOOLEAN] /\ ncmdSem' \in {0, 1}
  BY <1>2, <1>4, FlagsType, GiveType, TypesNow
<1>7. Types'
  BY <1>2, <1>4, <1>5, <1>6, TypesNow, TypesNext
<1>8. Fits(e) /\ EventsFit'
  BY <1>2, <1>3, <1>4, <1>5, ReadEvent
<1>9. e.op \notin InitCmds \cup {"RESET", "VENDOR", Nop}
  BY <1>4, <1>8 DEF Fits
<1>10. ~ NoneOut /\ \A c : ~ OneOut(c)
  BY <1>3, <1>4, <1>5, <1>9, ReadEvent
<1>11. \A op \in InitCmds \cup {"RESET", "VENDOR"} : ~ AnswerOut(op)
  BY <1>3, <1>4, <1>5, <1>9, ReadEvent
<1>12. Started'
  BY <1>2, <1>4, <1>10, <1>11, StartedKept
<1>13. Ready'
  <2>1. SUFFICES ASSUME hciState = "READY" PROVE Ready'
    BY <1>4 DEF Ready
  <2>2. /\ \A i \in 1 .. Len(cmdQueue) : cmdQueue[i].op \notin BootCmds
        /\ \A i \in 1 .. Len(tx) : tx[i].op \notin BootCmds
        /\ \A i \in 1 .. Len(rx) : rx[i].op \notin BootCmds
        /\ idCount
    BY <1>2, <2>1 DEF Ready
  <2>3. Len(rx') = Len(rx) - 1 /\ \A i \in 1 .. Len(rx') : rx'[i] = rx[i + 1]
    BY <1>4, <1>5, HeadTailProperties
  <2>4. \A i \in 1 .. Len(rx') : i + 1 \in 1 .. Len(rx)
    BY <1>5, <2>3
  <2>5. \A i \in 1 .. Len(rx') : rx'[i].op \notin BootCmds
    BY <2>2, <2>3, <2>4
  <2>6. QED
    BY <1>2, <1>4, <2>1, <2>2, <2>5, ReadyKept
<1>14. QED
  BY <1>7, <1>8, <1>12, <1>13 DEF IInv

\* In start-up, an event answers nothing or the command that is waited for.
LEMMA StartEvent ==
    ASSUME Types, Started, hciState # "READY", rx # <<>>, rx' = Tail(rx), UNCHANGED tx,
           NEW e, e = Head(rx)
    PROVE  \/ e.op = Nop
           \/ hciState = "BOOTING_WAIT" /\ e.op = "VENDOR" /\ AnswerOut("VENDOR")
              /\ step \in {1, 2} /\ ~ rebooting
           \/ hciState = "PREPARING_WAIT_RESET" /\ e.op = "RESET" /\ AnswerOut("RESET") /\ ~ rebooting
           \/ hciState = "INITIALING_WAIT" /\ e.op = initState /\ AnswerOut(initState) /\ ~ rebooting
<1>0. rx \in Seq(Events) /\ hciState \in States
  BY TypesNow
<1>1. NoneOut => e.op = Nop
  <2>1. CASE UNCHANGED cmdQueue
    BY <1>0, <2>1, ReadEvent
  <2>2. QED
    <3>1. SUFFICES ASSUME NoneOut PROVE e.op = Nop
      OBVIOUS
    <3>2. Nops(Len(rx)) /\ Len(rx) \in Nat /\ Len(rx) > 0 /\ Head(rx) = rx[1]
      BY <1>0, <3>1, HeadTailProperties DEF NoneOut
    <3>3. 1 \in 1 .. Len(rx)
      BY <3>2
    <3>4. QED
      BY <3>2, <3>3 DEF Nops
<1>2. \A c : OneOut(c) => e.op = Nop
  <2>1. SUFFICES ASSUME NEW c, OneOut(c) PROVE e.op = Nop
    OBVIOUS
  <2>2. Nops(Len(rx)) /\ Len(rx) \in Nat /\ Len(rx) > 0 /\ Head(rx) = rx[1]
    BY <1>0, <2>1, HeadTailProperties DEF OneOut
  <2>3. 1 \in 1 .. Len(rx)
    BY <2>2
  <2>4. QED
    BY <2>2, <2>3 DEF Nops
<1>3. \A op : AnswerOut(op) => e.op \in {op, Nop}
  BY <1>0, ReadEvent
<1>4. \A op : Waiting(op) => e.op = Nop \/ (e.op = op /\ AnswerOut(op))
  BY <1>2, <1>3 DEF Waiting
<1>5. CASE hciState = "BOOTING_WAIT"
  BY <1>1, <1>2, <1>4, <1>5 DEF Started
<1>6. CASE hciState = "PREPARING_WAIT_RESET"
  BY <1>4, <1>6 DEF Started
<1>7. CASE hciState = "INITIALING_WAIT"
  <2>1. Waiting(initState) /\ ~ rebooting
    BY <1>7 DEF Started, Chain
  <2>2. QED
    BY <1>4, <1>7, <2>1
<1>8. CASE hciState \in {"BOOTING", "PREPARING", "INITIALING"}
  BY <1>1, <1>8 DEF Started
<1>9. QED
  BY <1>0, <1>5, <1>6, <1>7, <1>8 DEF States

\* The next command of the chain, when the answer of the one before it is read.
LEMMA ChainGoesOn ==
    ASSUME Types, NEW op \in InitCmds, AnswerOut(op), Asked(Rank(op)), rx # <<>>, rx' = Tail(rx),
           Head(rx).op = op, UNCHANGED <<tx, answered, bredr>>,
           NEW ids, NEW next, next = AfterInit(op, ids), next # "END", Send(PlainCmd(next))
    PROVE  Chain(next)'
<1>1. PICK c, n : c = PlainCmd(next) /\ n = Rank(next) - 1
  OBVIOUS
<1>2. rx \in Seq(Events) /\ answered \in Seq(InitCmds)
  BY TypesNow
<1>3. cmdQueue = <<>> /\ tx' = <<>> /\ Nops(Len(rx))'
  BY <1>2, ReadEvent
<1>4. cmdQueue' = <<c>>
  BY <1>1, <1>3 DEF Send
<1>5. OneOut(c)'
  BY <1>3, <1>4 DEF OneOut
<1>6. Waiting(next)' /\ ~ AnswerOut(next)'
  BY <1>1, <1>4, <1>5 DEF Waiting, AnswerOut, PlainCmd, NoFlag
<1>7. Asked(n)
  <2>1. /\ Rank(op) \in 1 .. 12 /\ Rank(next) \in 1 .. 12 /\ Rank(next) > Rank(op)
        /\ \A r \in Needed : Rank(r) > Rank(op) => Rank(r) >= Rank(next)
    BY NextOfChain
  <2>2. n \in Nat /\ Rank(op) <= n
    BY <1>1, <2>1
  <2>3. ASSUME NEW r \in Needed, Rank(r) > Rank(op) PROVE Rank(r) > n
    <3>1. Rank(r) \in 1 .. 12
      BY NeededInit, RankType
    <3>2. Rank(r) >= Rank(next)
      BY <2>1, <2>3
    <3>3. QED
      BY <1>1, <2>1, <3>1, <3>2
  <2>4. QED
    BY <1>2, <2>2, <2>3, AskedUpTo
<1>8. Asked(n)'
  BY <1>7, AskedKept
<1>9. QED
  BY <1>1, <1>6, <1>8 DEF Chain, Rank

LEMMA HciCmdCompleteIInv == IInv /\ HciCmdComplete => IInv'
<1>1. SUFFICES ASSUME IInv, HciCmdComplete PROVE IInv'
  OBVIOUS
<1>2. Types /\ EventsFit /\ Started /\ Ready
  BY <1>1 DEF IInv
<1>3. PICK e : e = Head(rx)
  OBVIOUS
<1>4. PICK ids : ids = (idCount \/ e.found)
  OBVIOUS
<1>5. /\ rx # <<>> /\ e.kind = "complete" /\ rx' = Tail(rx) /\ GiveNcmd(e.ncmd)
      /\ flags' = IF e.op = "RESET" /\ e.ok THEN [f \in Flags |-> FALSE] ELSE FlagsAfter(e.op, e.ok)
      /\ idCount' = (idCount \/ e.op = "READ_BD_ADDR")
      /\ UNCHANGED <<bredr, boot, step, rebooting, tx, ctrl, credit, answered, appCmds>>
  BY <1>1, <1>3 DEF HciCmdComplete, envVars
<1>6. Advance(e.op, ids)
  BY <1>1, <1>3, <1>4 DEF HciCmdComplete
<1>7. rx \in Seq(Events) /\ rx' \in Seq(Events) /\ idCount \in BOOLEAN
  <2>1. rx \in Seq(Events) /\ idCount \in BOOLEAN
    BY <1>2, TypesNow
  <2>2. QED
    BY <1>5, <2>1, HeadTailProperties
<1>8. flags' \in [Flags -> BOOLEAN] /\ ncmdSem' \in {0, 1}
  <2>1. FlagsAfter(e.op, e.ok) \in [Flags -> BOOLEAN]
    BY <1>2, FlagsType, TypesNow
  <2>2. ncmdSem' \in {0, 1}
    BY <1>2, <1>5, GiveType, TypesNow
  <2>3. QED
    BY <1>5, <2>1, <2>2
<1>9. idCount' \in BOOLEAN /\ (idCount => idCount')
  BY <1>5, <1>7, Zenon
<1>10. Fits(e) /\ EventsFit'
  BY <1>2, <1>3, <1>5, <1>7, ReadEvent
<1>11. e.op # "VENDOR" /\ (e.found => e.op = "READ_BD_ADDR")
  BY <1>5, <1>10 DEF Fits
<1>12. CASE hciState = "READY"
  <2>1. UNCHANGED <<hciState, initState, cmdQueue, cmdData>>
    BY <1>6, <1>12 DEF Advance, SendNothing
  <2>2. Types'
    BY <1>2, <1>5, <1>7, <1>8, <1>9, <2>1, TypesNow, TypesNext
  <2>3. /\ \A i \in 1 .. Len(cmdQueue) : cmdQueue[i].op \notin BootCmds
        /\ \A i \in 1 .. Len(tx) : tx[i].op \notin BootCmds
        /\ \A i \in 1 .. Len(rx) : rx[i].op \notin BootCmds
    BY <1>2, <1>12 DEF Ready
  <2>4. Len(rx') = Len(rx) - 1 /\ \A i \in 1 .. Len(rx') : rx'[i] = rx[i + 1]
    BY <1>5, <1>7, HeadTailProperties
  <2>5. \A i \in 1 .. Len(rx') : i + 1 \in 1 .. Len(rx)
    BY <1>7, <2>4
  <2>6. \A i \in 1 .. Len(rx') : rx'[i].op \notin BootCmds
    BY <2>3, <2>4, <2>5
  <2>7. Ready' /\ Started'
    BY <1>2, <1>5, <1>7, <1>9, <1>12, <2>1, <2>3, <2>6, ReadyKept
  <2>8. QED
    BY <1>10, <2>2, <2>7 DEF IInv
<1>13. CASE hciState # "READY" /\ e.op = Nop
  <2>1. e.op # "RESET" /\ e.op \notin InitCmds /\ e.op # "READ_BD_ADDR"
    BY <1>13 DEF Nop, InitCmds
  <2>2. (hciState = "INITIALING_WAIT" => initState # e.op)
    BY <1>2, <2>1 DEF Started
  <2>3. UNCHANGED <<hciState, initState, cmdQueue, cmdData>>
    BY <1>6, <2>1, <2>2 DEF Advance, SendNothing
  <2>4. idCount' = idCount
    BY <1>5, <1>7, <2>1
  <2>5. Types'
    BY <1>2, <1>5, <1>7, <1>8, <1>9, <2>3, TypesNow, TypesNext
  <2>6. (NoneOut => NoneOut') /\ \A c : OneOut(c) => OneOut(c)'
    BY <1>5, <1>7, <2>3, ReadEvent
  <2>7. ASSUME NEW op, AnswerOut(op) PROVE AnswerOut(op)'
    <3>1. op # Nop
      BY <2>7 DEF AnswerOut
    <3>2. QED
      BY <1>3, <1>5, <1>7, <1>13, <2>3, <2>7, <3>1, ReadEvent
  <2>8. Started'
    BY <1>2, <1>5, <2>3, <2>4, <2>6, <2>7, StartedKept
  <2>9. Ready'
    BY <1>13, <2>3 DEF Ready
  <2>10. QED
    BY <1>10, <2>5, <2>8, <2>9 DEF IInv
<1>14. CASE hciState = "PREPARING_WAIT_RESET" /\ e.op = "RESET" /\ AnswerOut("RESET") /\ ~ rebooting
  <2>1. hciState' = "INITIALING" /\ UNCHANGED <<initState, cmdQueue, cmdData>>
    BY <1>6, <1>14 DEF Advance, SendNothing
  <2>2. Types'
    BY <1>2, <1>5, <1>7, <1>8, <1>9, <2>1, TypesNow, TypesNext DEF States
  <2>3. NoneOut'
    <3>1. Nops(Len(rx))' /\ tx' = <<>> /\ cmdQueue = <<>>
      BY <1>3, <1>5, <1>7, <1>14, ReadEvent
    <3>2. QED
      BY <2>1, <3>1 DEF NoneOut
  <2>4. Started' /\ Ready'
    BY <1>2, <1>5, <1>14, <2>1, <2>3 DEF Started, Ready
  <2>5. QED
    BY <1>10, <2>2, <2>4 DEF IInv
<1>15. CASE hciState = "INITIALING_WAIT" /\ e.op = initState /\ AnswerOut(initState) /\ ~ rebooting
  <2>1. PICK op, next : op = initState /\ next = AfterInit(op, ids)
    OBVIOUS
  <2>2. /\ op \in InitCmds /\ Asked(Rank(op)) /\ e.op = op /\ AnswerOut(op)
        /\ op = "LE_SET_RANDOM_ADDRESS" => idCount
    BY <1>2, <1>15, <2>1 DEF Started, Chain
  <2>3. answered \in Seq(InitCmds)
    BY <1>2, TypesNow
  <2>4. cmdQueue = <<>> /\ tx' = <<>> /\ Nops(Len(rx))'
    BY <1>3, <1>5, <1>7, <2>2, ReadEvent
  <2>5. CASE next = "END"
    <3>1. hciState' = "READY" /\ initState' = "SUCCESS" /\ UNCHANGED <<cmdQueue, cmdData>>
      BY <1>6, <1>15, <2>1, <2>5 DEF Advance, SendNothing
    <3>2. Types'
      BY <1>2, <1>5, <1>7, <1>8, <1>9, <3>1, TypesNow, TypesNext DEF States
    <3>3. Rank(op) \in 1 .. 12 /\ (\A r \in Needed : Rank(r) <= Rank(op)) /\ (ids \/ op = "LE_SET_RANDOM_ADDRESS")
      <4>1. op \in InitCmds /\ next = AfterInit(op, ids) /\ next = "END"
        BY <2>1, <2>2, <2>5
      <4>2. Rank(op) \in 1 .. 12
        BY <4>1, RankType
      <4>3. (\A r \in Needed : Rank(r) <= Rank(op)) /\ (ids \/ op = "LE_SET_RANDOM_ADDRESS")
        <5>1. ids \in BOOLEAN
          BY <1>4, Zenon
        <5>2. (\A r \in Needed : Rank(r) <= Rank(op))
          BY <4>1, <5>1, ChainEnds
        <5>3. ids = TRUE \/ op = "LE_SET_RANDOM_ADDRESS"
          BY <4>1, <5>1, ChainEnds
        <5>4. QED
          BY <5>1, <5>2, <5>3
      <4>4. QED
        BY <4>2, <4>3
    <3>4. Asked(12)
      <4>1. ASSUME NEW r \in Needed PROVE ~ (Rank(r) > Rank(op))
        <5>1. Rank(r) \in 1 .. 12
          BY NeededInit, RankType
        <5>2. QED
          BY <3>3, <5>1
      <4>2. QED
        BY <2>2, <2>3, <3>3, <4>1, AskedUpTo
    <3>5. Asked(12)'
      BY <1>5, <3>4, AskedKept
    <3>6. idCount'
      BY <1>4, <1>5, <1>11, <2>2, <3>3
    <3>7. /\ \A i \in 1 .. Len(cmdQueue') : cmdQueue'[i].op \notin BootCmds
          /\ \A i \in 1 .. Len(tx') : tx'[i].op \notin BootCmds
          /\ \A i \in 1 .. Len(rx') : rx'[i].op \notin BootCmds
      <4>1. Nop \notin BootCmds
        BY Names
      <4>2. QED
        BY <2>4, <3>1, <4>1 DEF Nops
    <3>8. Ready'
      BY <1>5, <1>15, <3>5, <3>6, <3>7 DEF Ready, BootCmds, InitCmds
    <3>9. Started'
      BY <3>1 DEF Started
    <3>10. QED
      BY <1>10, <3>2, <3>8, <3>9 DEF IInv
  <2>6. CASE next # "END"
    <3>1. hciState' = hciState /\ initState' = next /\ Send(PlainCmd(next))
      BY <1>6, <1>15, <2>1, <2>6 DEF Advance
    <3>2. next \in InitCmds /\ (next = "LE_SET_RANDOM_ADDRESS" => op = "READ_BD_ADDR")
      BY <2>1, <2>2, <2>6, NextOfChain
    <3>3. PICK c : c = PlainCmd(next)
      OBVIOUS
    <3>4. c \in Commands /\ Send(c)
      BY <3>1, <3>2, <3>3, CommandFacts, Names
    <3>5. Types'
      BY <1>2, <1>5, <1>7, <1>8, <1>9, <3>1, <3>2, <3>4, SendType, TypesNow, TypesNext
    <3>6. Chain(next)'
      BY <1>2, <1>3, <1>5, <2>1, <2>2, <2>6, <3>1, ChainGoesOn
    <3>7. next = "LE_SET_RANDOM_ADDRESS" => idCount'
      BY <1>5, <2>2, <3>2
    <3>8. Chain(initState)' /\ initState' = next
      BY <3>1, <3>6
    <3>9. Started'
      BY <1>5, <1>15, <3>1, <3>2, <3>7, <3>8 DEF Started, InitCmds
    <3>10. Ready'
      BY <1>15, <3>1 DEF Ready
    <3>11. QED
      BY <1>10, <3>5, <3>9, <3>10 DEF IInv
  <2>7. QED
    BY <2>5, <2>6
<1>16. hciState # "READY" =>
           \/ e.op = Nop
           \/ hciState = "PREPARING_WAIT_RESET" /\ e.op = "RESET" /\ AnswerOut("RESET") /\ ~ rebooting
           \/ hciState = "INITIALING_WAIT" /\ e.op = initState /\ AnswerOut(initState) /\ ~ rebooting
  <2>1. SUFFICES ASSUME hciState # "READY"
                 PROVE  \/ e.op = Nop
                        \/ hciState = "PREPARING_WAIT_RESET" /\ e.op = "RESET" /\ AnswerOut("RESET") /\ ~ rebooting
                        \/ hciState = "INITIALING_WAIT" /\ e.op = initState /\ AnswerOut(initState) /\ ~ rebooting
    OBVIOUS
  <2>2. \/ e.op = Nop
        \/ hciState = "BOOTING_WAIT" /\ e.op = "VENDOR" /\ AnswerOut("VENDOR")
           /\ step \in {1, 2} /\ ~ rebooting
        \/ hciState = "PREPARING_WAIT_RESET" /\ e.op = "RESET" /\ AnswerOut("RESET") /\ ~ rebooting
        \/ hciState = "INITIALING_WAIT" /\ e.op = initState /\ AnswerOut(initState) /\ ~ rebooting
    BY <1>2, <1>3, <1>5, <2>1, StartEvent
  <2>3. QED
    BY <1>11, <2>2
<1>17. QED
  BY <1>12, <1>13, <1>14, <1>15, <1>16

LEMMA ChipsetEventIInv == IInv /\ ChipsetEvent => IInv'
<1>1. SUFFICES ASSUME IInv, ChipsetEvent PROVE IInv'
  OBVIOUS
<1>2. Types /\ EventsFit /\ Started
  BY <1>1 DEF IInv
<1>3. PICK e, v, w : e = Head(rx) /\ v = PlainCmd("VENDOR") /\ w = PlainCmd("WARM_RESET")
  OBVIOUS
<1>4. /\ rx # <<>> /\ e.kind = "vendor" /\ rx' = Tail(rx) /\ hciState = "BOOTING_WAIT"
      /\ \/ step = 1 /\ Send(v) /\ step' = 2 /\ rebooting' = rebooting
         \/ step = 2 /\ Send(w) /\ step' = 0 /\ rebooting' = TRUE
      /\ UNCHANGED <<hciState, initState, ncmdSem, idCount, flags, bredr, boot, tx, ctrl, credit,
                     answered, appCmds>>
  BY <1>1, <1>3 DEF ChipsetEvent
<1>5. v \in Commands /\ w \in Commands
  BY <1>3, CommandFacts, Names
<1>6. rx \in Seq(Events) /\ rx' \in Seq(Events)
  <2>1. rx \in Seq(Events)
    BY <1>2, TypesNow
  <2>2. QED
    BY <1>4, <2>1, HeadTailProperties
<1>7. Fits(e) /\ EventsFit'
  BY <1>2, <1>3, <1>4, <1>6, ReadEvent
<1>8. e.op = "VENDOR"
  BY <1>4, <1>7 DEF Fits
<1>9. AnswerOut("VENDOR") /\ ~ rebooting
  <2>1. e.op # Nop
    BY <1>8 DEF Nop
  <2>2. QED
    BY <1>2, <1>3, <1>4, <2>1, StartEvent
<1>10. cmdQueue = <<>> /\ tx' = <<>> /\ Nops(Len(rx))'
  BY <1>3, <1>4, <1>6, <1>8, <1>9, ReadEvent
<1>11. \A c : Send(c) => OneOut(c)'
  BY <1>10 DEF Send, OneOut
<1>12. rebooting' \in BOOLEAN
  <2>1. rebooting \in BOOLEAN
    BY <1>2, TypesNow
  <2>2. QED
    BY <1>4, <2>1, Zenon
<1>13. /\ cmdQueue' \in Seq(Commands) /\ cmdData' \in Remembered
  BY <1>2, <1>4, <1>5, SendType, TypesNow
<1>14. Types'
  BY <1>2, <1>4, <1>6, <1>12, <1>13, TypesNow, TypesNext
<1>15. answered = <<>>
  BY <1>2, <1>4 DEF Started
<1>16. Started'
  <2>1. CASE step = 1 /\ Send(v) /\ step' = 2 /\ rebooting' = rebooting
    <3>1. Waiting("VENDOR")'
      BY <1>3, <1>11, <2>1 DEF Waiting, PlainCmd, NoFlag
    <3>2. QED
      BY <1>4, <1>9, <1>15, <2>1, <3>1 DEF Started
  <2>2. CASE step = 2 /\ Send(w) /\ step' = 0 /\ rebooting' = TRUE
    <3>1. OneOut(PlainCmd("WARM_RESET"))'
      BY <1>3, <1>11, <2>2 DEF PlainCmd, NoFlag
    <3>2. QED
      BY <1>4, <1>15, <2>2, <3>1 DEF Started
  <2>3. QED
    BY <1>4, <2>1, <2>2
<1>17. Ready'
  BY <1>4 DEF Ready
<1>18. QED
  BY <1>7, <1>14, <1>16, <1>17 DEF IInv

LEMMA ChipsetRebootIInv == IInv /\ ChipsetReboot => IInv'
<1>1. SUFFICES ASSUME IInv, ChipsetReboot PROVE IInv'
  OBVIOUS
<1>2. Types /\ Started /\ Ready
  BY <1>1 DEF IInv
<1>3. /\ rebooting /\ cmdQueue = <<>> /\ rebooting' = FALSE /\ tx' = <<>> /\ rx' = <<>>
      /\ hciState' = IF hciState = "BOOTING_WAIT" THEN "PREPARING" ELSE hciState
      /\ UNCHANGED <<initState, cmdQueue, cmdData, ncmdSem, idCount, flags, bredr, boot, step,
                     ctrl, credit, answered, appCmds>>
  BY <1>1 DEF ChipsetReboot
<1>4. hciState = "BOOTING_WAIT" /\ answered = <<>>
  <2>1. hciState \in States
    BY <1>2, TypesNow
  <2>2. QED
    BY <1>2, <1>3, <2>1 DEF Started, Ready, States
<1>5. hciState' = "PREPARING" /\ NoneOut' /\ EventsFit'
  BY <1>3, <1>4 DEF NoneOut, Nops, EventsFit
<1>6. Started' /\ Ready'
  BY <1>3, <1>4, <1>5 DEF Started, Ready
<1>7. Types'
  <2>1. tx' \in Seq(Commands) /\ rx' \in Seq(Events)
    BY <1>3
  <2>2. rebooting' \in BOOLEAN
    BY <1>3, Zenon
  <2>3. QED
    BY <1>2, <1>3, <1>5, <2>1, <2>2, TypesNow, TypesNext DEF States
<1>8. QED
  BY <1>5, <1>6, <1>7 DEF IInv

LEMMA ControllerRestartIInv == IInv /\ ControllerRestart => IInv'
<1>1. SUFFICES ASSUME IInv, ControllerRestart PROVE IInv'
  OBVIOUS
<1>2. Types /\ EventsFit /\ Started /\ Ready
  BY <1>1 DEF IInv
<1>3. PICK w : w = PlainCmd("WARM_RESET")
  OBVIOUS
<1>4. /\ tx # <<>> /\ Head(tx).op = "WARM_RESET" /\ tx' = Tail(tx)
      /\ ctrl' = [f \in Flags |-> FALSE] /\ credit' = 1 /\ answered' = <<>>
      /\ UNCHANGED <<hciState, initState, cmdQueue, cmdData, ncmdSem, idCount, flags, bredr, boot,
                     step, rebooting, rx, appCmds>>
  BY <1>1 DEF ControllerRestart, hostVars, envVars
<1>5. hciState \in States /\ tx \in Seq(Commands)
  BY <1>2, TypesNow
<1>6. Head(tx) = tx[1] /\ 1 \in 1 .. Len(tx) /\ tx' \in Seq(Commands)
  BY <1>4, <1>5, HeadTailProperties
<1>7. hciState # "READY"
  <2>1. "WARM_RESET" \in BootCmds
    BY Names
  <2>2. QED
    BY <1>2, <1>4, <1>6, <2>1 DEF Ready
<1>8. ~ NoneOut /\ \A op : ~ AnswerOut(op)
  BY <1>4, OutFacts
<1>9. \A op : OneOut(PlainCmd(op)) => op = "WARM_RESET"
  <2>1. ASSUME NEW op, NEW c, c = PlainCmd(op), OneOut(c) PROVE op = "WARM_RESET"
    <3>1. tx = <<c>>
      BY <1>4, <2>1 DEF OneOut
    <3>2. Head(tx) = c
      BY <3>1
    <3>3. QED
      BY <1>4, <2>1, <3>2 DEF PlainCmd
  <2>2. QED
    BY <2>1
<1>10. ~ Waiting("VENDOR") /\ ~ Waiting("RESET") /\ ~ (initState \in InitCmds /\ Waiting(initState))
  <2>1. "WARM_RESET" \notin InitCmds
    BY Names
  <2>2. QED
    BY <1>8, <1>9, <2>1 DEF Waiting
<1>11. hciState = "BOOTING_WAIT" /\ step = 0 /\ rebooting /\ OneOut(w)
  BY <1>2, <1>3, <1>5, <1>7, <1>8, <1>10 DEF Started, States, Chain
<1>12. NoneOut'
  <2>1. tx = <<w>> /\ cmdQueue = <<>> /\ Nops(Len(rx))
    BY <1>4, <1>11 DEF OneOut
  <2>2. tx' = <<>>
    BY <1>4, <2>1
  <2>3. QED
    BY <1>4, <2>1, <2>2 DEF NoneOut, Nops
<1>13. Started' /\ Ready' /\ EventsFit'
  BY <1>2, <1>4, <1>11, <1>12, RxKept DEF Started, Ready
<1>14. Types'
  <2>1. ctrl' \in [Flags -> BOOLEAN] /\ credit' \in {0, 1} /\ answered' \in Seq(InitCmds)
    BY <1>4
  <2>2. QED
    BY <1>2, <1>4, <1>6, <2>1, TypesNow, TypesNext
<1>15. QED
  BY <1>13, <1>14 DEF IInv

LEMMA ControllerNopIInv == IInv /\ ControllerNop => IInv'
<1>1. SUFFICES ASSUME IInv, ControllerNop PROVE IInv'
  OBVIOUS
<1>2. Types /\ EventsFit /\ Started /\ Ready
  BY <1>1 DEF IInv
<1>3. PICK e : e = [kind |-> "complete", op |-> Nop, ok |-> TRUE, found |-> FALSE, ncmd |-> 1]
  OBVIOUS
<1>4. /\ credit = 0 /\ tx = <<>> /\ rx = <<>> /\ credit' = 1 /\ rx' = <<e>>
      /\ UNCHANGED <<hciState, initState, cmdQueue, cmdData, ncmdSem, idCount, flags, bredr, boot,
                     step, rebooting, tx, ctrl, answered, appCmds>>
  BY <1>1, <1>3 DEF ControllerNop, hostVars, envVars
<1>5. e \in Events /\ Fits(e) /\ e.op = Nop
  BY <1>3 DEF Events, Fits, Nop
<1>6. rx' \in Seq(Events) /\ EventsFit'
  BY <1>4, <1>5 DEF EventsFit, Fits
<1>7. (NoneOut => NoneOut') /\ (\A c : OneOut(c) => OneOut(c)') /\ \A op : ~ AnswerOut(op)
  <2>1. Nops(Len(rx))'
    BY <1>4, <1>5 DEF Nops
  <2>2. QED
    BY <1>4, <2>1 DEF NoneOut, OneOut, AnswerOut
<1>8. Types'
  <2>1. credit' \in {0, 1}
    BY <1>4
  <2>2. QED
    BY <1>2, <1>4, <1>6, <2>1, TypesNow, TypesNext
<1>9. Started'
  BY <1>2, <1>4, <1>7, StartedKept
<1>10. Ready'
  <2>1. SUFFICES ASSUME hciState = "READY" PROVE Ready'
    BY <1>4 DEF Ready
  <2>2. /\ \A i \in 1 .. Len(cmdQueue) : cmdQueue[i].op \notin BootCmds
        /\ \A i \in 1 .. Len(tx) : tx[i].op \notin BootCmds
    BY <1>2, <2>1 DEF Ready
  <2>3. \A i \in 1 .. Len(rx') : rx'[i].op \notin BootCmds
    <3>1. Nop \notin BootCmds
      BY Names
    <3>2. QED
      BY <1>4, <1>5, <3>1
  <2>4. idCount \in BOOLEAN
    BY <1>2, TypesNow
  <2>5. QED
    BY <1>2, <1>4, <2>1, <2>2, <2>3, <2>4, ReadyKept
<1>11. QED
  BY <1>6, <1>8, <1>9, <1>10 DEF IInv

LEMMA AppSendIInv ==
    ASSUME IInv, NEW c \in Commands, c.op \notin BootCmds, AppSend(c)
    PROVE  IInv'
<1>1. Types /\ EventsFit /\ Ready
  BY DEF IInv
<1>2. /\ hciState = "READY" /\ appCmds < MaxAppCmds /\ appCmds' = appCmds + 1 /\ Send(c)
      /\ UNCHANGED <<hciState, initState, ncmdSem, idCount, flags, bredr, boot, step, rebooting,
                     tx, rx, ctrl, credit, answered>>
  BY DEF AppSend, envVars, linkVars
<1>3. cmdQueue \in Seq(Commands) /\ idCount \in BOOLEAN /\ appCmds \in 0 .. MaxAppCmds
  BY <1>1, TypesNow
<1>4. appCmds' \in 0 .. MaxAppCmds
  BY <1>2, <1>3, HciCmdAssumption
<1>5. Types'
  BY <1>1, <1>2, <1>3, <1>4, SendType, TypesNow, TypesNext
<1>6. /\ \A i \in 1 .. Len(cmdQueue) : cmdQueue[i].op \notin BootCmds
      /\ \A i \in 1 .. Len(tx) : tx[i].op \notin BootCmds
      /\ \A i \in 1 .. Len(rx) : rx[i].op \notin BootCmds
  BY <1>1, <1>2 DEF Ready
<1>7. \A i \in 1 .. Len(cmdQueue') : cmdQueue'[i].op \notin BootCmds
  <2>1. cmdQueue' = Append(cmdQueue, c)
    BY <1>2 DEF Send
  <2>2. /\ Len(cmdQueue') = Len(cmdQueue) + 1 /\ cmdQueue'[Len(cmdQueue) + 1] = c /\ Len(cmdQueue) \in Nat
        /\ \A i \in 1 .. Len(cmdQueue) : cmdQueue'[i] = cmdQueue[i]
    BY <1>3, <2>1, AppendProperties
  <2>3. \A i \in 1 .. Len(cmdQueue') : i \in 1 .. Len(cmdQueue) \/ i = Len(cmdQueue) + 1
    BY <2>2
  <2>4. QED
    BY <1>6, <2>2, <2>3
<1>8. Ready' /\ Started'
  BY <1>1, <1>2, <1>3, <1>6, <1>7, ReadyKept
<1>9. QED
  BY <1>1, <1>2, <1>5, <1>8, RxKept DEF IInv

\* The answer to the only command there is is the last event on its way.
LEMMA Answered ==
    ASSUME rx \in Seq(Events), NEW c, OneOut(c), tx # <<>>, tx' = Tail(tx), UNCHANGED cmdQueue,
           NEW e, rx' = Append(rx, e), e.op = c.op, c.op # Nop
    PROVE  Head(tx) = c /\ AnswerOut(c.op)'
<1>1. tx = <<c>> /\ cmdQueue = <<>> /\ Nops(Len(rx))
  BY DEF OneOut
<1>2. Head(tx) = c /\ tx' = <<>> /\ cmdQueue' = <<>>
  BY <1>1
<1>3. /\ Len(rx) \in Nat /\ Len(rx') = Len(rx) + 1 /\ rx'[Len(rx) + 1] = e
      /\ \A i \in 1 .. Len(rx) : rx'[i] = rx[i]
  BY AppendProperties
<1>4. Nops(Len(rx) - 1)'
  <2>1. ASSUME NEW i \in 1 .. Len(rx') - 1 PROVE rx'[i].op = Nop
    <3>1. i \in 1 .. Len(rx)
      BY <1>3
    <3>2. QED
      BY <1>1, <1>3, <3>1 DEF Nops
  <2>2. QED
    BY <2>1 DEF Nops
<1>5. rx' # <<>> /\ rx'[Len(rx')].op = c.op
  BY <1>3
<1>6. QED
  BY <1>2, <1>4, <1>5 DEF AnswerOut, Nop

LEMMA ControllerIInv == IInv /\ Controller => IInv'
<1>1. SUFFICES ASSUME IInv, Controller PROVE IInv'
  OBVIOUS
<1>2. Types /\ EventsFit /\ Started /\ Ready
  BY <1>1 DEF IInv
<1>3. PICK c : c = Head(tx)
  OBVIOUS
<1>0. PICK answers : answers = IF c.op = "VENDOR" THEN {"vendor"}
                              ELSE IF c.op \in InitCmds \cup {"RESET"} THEN {"complete"}
                              ELSE {"complete", "status"}
  OBVIOUS
<1>4. PICK ok \in BOOLEAN, found \in BOOLEAN, ncmd \in {0, 1}, kind \in answers :
        /\ c.op \in {"RESET", "VENDOR"} => ok
        /\ found => c.op = "READ_BD_ADDR"
        /\ rx' = Append(rx, [kind |-> kind, op |-> c.op, ok |-> ok, found |-> found, ncmd |-> ncmd])
        /\ ctrl' = IF c.op = "RESET" THEN [f \in Flags |-> FALSE]
                   ELSE IF ok /\ c.set # NoFlag
                        THEN [ctrl EXCEPT ![c.set.flag] = c.set.value]
                        ELSE ctrl
        /\ credit' = ncmd
        /\ answered' = IF c.op = "RESET" THEN <<>>
                       ELSE IF hciState = "READY" \/ c.op = "VENDOR" THEN answered
                       ELSE Append(answered, c.op)
  BY <1>0, <1>1, <1>3, SMTT(30) DEF Controller
<1>5. PICK e : e = [kind |-> kind, op |-> c.op, ok |-> ok, found |-> found, ncmd |-> ncmd]
  OBVIOUS
<1>6. /\ tx # <<>> /\ c.op # "WARM_RESET" /\ tx' = Tail(tx)
      /\ UNCHANGED <<hciState, initState, cmdQueue, cmdData, ncmdSem, idCount, flags, bredr, boot,
                     step, rebooting, appCmds>>
  BY <1>1, <1>3 DEF Controller, hostVars, envVars
<1>7. /\ hciState \in States /\ tx \in Seq(Commands) /\ rx \in Seq(Events) /\ idCount \in BOOLEAN
      /\ answered \in Seq(InitCmds) /\ ctrl \in [Flags -> BOOLEAN]
  BY <1>2, TypesNow
<1>8. c = tx[1] /\ 1 \in 1 .. Len(tx) /\ tx' \in Seq(Commands) /\ c \in Commands
  BY <1>3, <1>6, <1>7, HeadTailProperties, ElementType
<1>9. c.op \in Opcodes /\ c.op # Nop
  BY <1>8, CommandFacts, Names
<1>10. e \in Events /\ rx' = Append(rx, e)
  BY <1>0, <1>4, <1>5, <1>9 DEF Events
<1>11. Fits(e)
  <2>1. kind = "vendor" <=> c.op = "VENDOR"
    <3>1. "VENDOR" \notin InitCmds \cup {"RESET"}
      BY Names
    <3>2. QED
      BY <1>0, <1>4, <3>1
  <2>2. c.op \in InitCmds \cup {"RESET", Nop} => kind = "complete"
    <3>1. "VENDOR" \notin InitCmds \cup {"RESET"}
      BY Names
    <3>2. QED
      BY <1>0, <1>4, <1>9, <3>1
  <2>3. QED
    BY <1>4, <1>5, <2>1, <2>2 DEF Fits
<1>12. /\ Len(rx) \in Nat /\ Len(rx') = Len(rx) + 1 /\ rx'[Len(rx) + 1] = e /\ rx' \in Seq(Events)
       /\ \A i \in 1 .. Len(rx) : rx'[i] = rx[i]
  BY <1>7, <1>10, AppendProperties
<1>13. \A i \in 1 .. Len(rx') : i \in 1 .. Len(rx) \/ i = Len(rx) + 1
  BY <1>12
<1>14. EventsFit'
  <2>1. \A i \in 1 .. Len(rx') : Fits(rx'[i])
    BY <1>2, <1>11, <1>12, <1>13 DEF EventsFit
  <2>2. QED
    BY <2>1 DEF EventsFit, Fits, InitCmds, Nop
<1>15. ctrl' \in [Flags -> BOOLEAN] /\ credit' \in {0, 1}
  <2>1. c.set # NoFlag => c.set.flag \in Flags /\ c.set.value \in BOOLEAN
    BY <1>8, CommandFacts
  <2>2. QED
    BY <1>4, <1>7, <2>1
<1>16. ASSUME answered' \in Seq(InitCmds) PROVE Types'
  BY <1>2, <1>6, <1>8, <1>12, <1>15, <1>16, TypesNow, TypesNext
<1>17. CASE hciState = "READY"
  <2>1. /\ \A i \in 1 .. Len(cmdQueue) : cmdQueue[i].op \notin BootCmds
        /\ \A i \in 1 .. Len(tx) : tx[i].op \notin BootCmds
        /\ \A i \in 1 .. Len(rx) : rx[i].op \notin BootCmds
    BY <1>2, <1>17 DEF Ready
  <2>2. c.op \notin BootCmds
    BY <1>8, <2>1
  <2>3. answered' = answered
    BY <1>4, <1>17, <2>2, Names
  <2>4. \A i \in 1 .. Len(tx') : tx'[i].op \notin BootCmds
    <3>1. Len(tx') = Len(tx) - 1 /\ \A i \in 1 .. Len(tx') : tx'[i] = tx[i + 1]
      BY <1>6, <1>7, HeadTailProperties
    <3>2. \A i \in 1 .. Len(tx') : i + 1 \in 1 .. Len(tx)
      BY <1>7, <3>1
    <3>3. QED
      BY <2>1, <3>1, <3>2
  <2>5. \A i \in 1 .. Len(rx') : rx'[i].op \notin BootCmds
    <3>1. e.op \notin BootCmds
      BY <1>5, <2>2
    <3>2. QED
      BY <1>12, <1>13, <2>1, <3>1
  <2>6. Ready' /\ Started'
    BY <1>2, <1>6, <1>7, <1>17, <2>1, <2>3, <2>4, <2>5, ReadyKept
  <2>7. Types'
    BY <1>7, <1>16, <2>3
  <2>8. QED
    BY <1>14, <2>6, <2>7 DEF IInv
<1>18. CASE hciState # "READY"
  <2>1. ~ NoneOut /\ \A op : ~ AnswerOut(op)
    BY <1>6, OutFacts
  <2>2. ASSUME NEW op, op # Nop, OneOut(PlainCmd(op)) PROVE c.op = op /\ AnswerOut(op)'
    <3>1. PICK d : d = PlainCmd(op)
      OBVIOUS
    <3>2. OneOut(d) /\ d.op = op
      BY <2>2, <3>1 DEF PlainCmd
    <3>3. tx = <<d>>
      BY <1>6, <3>2 DEF OneOut
    <3>4. c = d
      BY <1>3, <3>3
    <3>5. e.op = op
      BY <1>5, <3>2, <3>4
    <3>6. AnswerOut(d.op)'
      BY <1>6, <1>7, <1>10, <2>2, <3>2, <3>5, Answered
    <3>7. QED
      BY <3>2, <3>4, <3>6 DEF AnswerOut, Nop
  <2>3. Ready'
    BY <1>6, <1>18 DEF Ready
  <2>4. /\ Nop # "VENDOR" /\ Nop # "WARM_RESET" /\ Nop # "RESET"
    BY DEF Nop
  <2>5. CASE hciState = "BOOTING_WAIT"
    <3>1. OneOut(PlainCmd("VENDOR")) /\ step \in {1, 2} /\ ~ rebooting
      <4>1. ~ OneOut(PlainCmd("WARM_RESET"))
        BY <1>6, <2>2, <2>4
      <4>2. QED
        BY <1>2, <2>1, <2>5, <4>1 DEF Started, Waiting
    <3>2. c.op = "VENDOR" /\ AnswerOut("VENDOR")'
      BY <2>2, <2>4, <3>1
    <3>3. answered' = answered /\ answered = <<>>
      BY <1>2, <1>4, <2>5, <3>2 DEF Started
    <3>4. Waiting("VENDOR")'
      BY <3>2 DEF Waiting
    <3>5. Started'
      BY <1>6, <2>5, <3>1, <3>3, <3>4 DEF Started
    <3>6. QED
      BY <1>7, <1>14, <1>16, <2>3, <3>3, <3>5 DEF IInv
  <2>6. CASE hciState = "PREPARING_WAIT_RESET"
    <3>1. OneOut(PlainCmd("RESET")) /\ initState = "RESET_WAIT" /\ ~ rebooting
      BY <1>2, <2>1, <2>6 DEF Started, Waiting
    <3>2. c.op = "RESET" /\ AnswerOut("RESET")'
      BY <2>2, <2>4, <3>1
    <3>3. answered' = <<>>
      BY <1>4, <3>2
    <3>4. Waiting("RESET")'
      BY <3>2 DEF Waiting
    <3>5. Started'
      BY <1>6, <2>6, <3>1, <3>3, <3>4 DEF Started
    <3>6. answered' \in Seq(InitCmds)
      BY <3>3
    <3>7. QED
      BY <1>14, <1>16, <2>3, <3>5, <3>6 DEF IInv
  <2>7. CASE hciState = "INITIALING_WAIT"
    <3>1. PICK op, n : op = initState /\ n = Rank(op)
      OBVIOUS
    <3>2. /\ op \in InitCmds /\ OneOut(PlainCmd(op)) /\ ~ rebooting /\ Asked(n - 1)
          /\ op = "LE_SET_RANDOM_ADDRESS" => idCount
      BY <1>2, <2>1, <2>7, <3>1 DEF Started, Chain, Waiting
    <3>3. op # Nop /\ op # "RESET" /\ op # "VENDOR"
      BY <3>2, Names
    <3>4. c.op = op /\ AnswerOut(op)'
      BY <2>2, <3>2, <3>3
    <3>5. answered' = Append(answered, op)
      BY <1>4, <1>18, <3>3, <3>4
    <3>6. answered' \in Seq(InitCmds)
      BY <1>7, <3>2, <3>5, AppendProperties
    <3>7. Asked(n)'
      BY <1>6, <1>7, <3>1, <3>2, <3>5, AskedOneMore
    <3>8. Chain(op)'
      <4>1. Waiting(op)'
        BY <3>4 DEF Waiting
      <4>2. QED
        BY <3>1, <3>4, <3>7, <4>1 DEF Chain, Rank
    <3>9. Chain(initState)' /\ initState' = op
      BY <1>6, <3>1, <3>8
    <3>10. Started'
      BY <1>6, <2>7, <3>2, <3>9 DEF Started, InitCmds
    <3>11. QED
      BY <1>14, <1>16, <2>3, <3>6, <3>10 DEF IInv
  <2>8. QED
    BY <1>2, <1>7, <1>18, <2>1, <2>5, <2>6, <2>7 DEF Started, States
<1>19. QED
  BY <1>17, <1>18

LEMMA StutterIInv == IInv /\ UNCHANGED vars => IInv'
<1>1. SUFFICES ASSUME IInv, UNCHANGED vars PROVE IInv'
  OBVIOUS
<1>2. UNCHANGED <<hciState, initState, cmdQueue, cmdData, ncmdSem, idCount, flags, bredr, boot, step,
                  rebooting, tx, rx, ctrl, credit, answered, appCmds>>
  BY <1>1 DEF vars, hostVars, envVars, linkVars
<1>3. Types /\ EventsFit /\ Started /\ Ready
  BY <1>1 DEF IInv
<1>4. Types' /\ EventsFit'
  BY <1>2, <1>3, TypesNow, TypesNext, RxKept
<1>5. (NoneOut => NoneOut') /\ (\A c : OneOut(c) => OneOut(c)') /\ \A op : AnswerOut(op) => AnswerOut(op)'
  BY <1>2 DEF NoneOut, OneOut, AnswerOut, Nops, Nop
<1>6. Started'
  BY <1>2, <1>3, <1>5, StartedKept
<1>7. Ready'
  <2>1. SUFFICES ASSUME hciState = "READY" PROVE Ready'
    BY <1>2 DEF Ready
  <2>2. idCount \in BOOLEAN
    BY <1>3, TypesNow
  <2>3. QED
    BY <1>2, <1>3, <2>1, <2>2, ReadyKept DEF Ready
<1>8. QED
  BY <1>4, <1>6, <1>7 DEF IInv

LEMMA NextIInv == IInv /\ [Next]_vars => IInv'
<1>1. SUFFICES ASSUME IInv, [Next]_vars PROVE IInv'
  OBVIOUS
<1>2. CASE \E f \in Flags, v \in BOOLEAN : AppSend(SetFlag(f, v))
  <2>1. PICK f \in Flags, v \in BOOLEAN : AppSend(SetFlag(f, v))
    BY <1>2
  <2>2. SetFlag(f, v) \in Commands /\ SetFlag(f, v).op = f
    BY CommandFacts
  <2>3. f \notin BootCmds
    BY HciCmdAssumption
  <2>4. QED
    BY <1>1, <2>1, <2>2, <2>3, AppSendIInv
<1>3. CASE AppSend(PlainCmd(Plain))
  <2>1. Plain \in Opcodes /\ Plain \notin BootCmds
    BY HciCmdAssumption DEF Opcodes
  <2>2. PlainCmd(Plain) \in Commands /\ PlainCmd(Plain).op = Plain
    BY <2>1, CommandFacts
  <2>3. QED
    BY <1>1, <1>3, <2>1, <2>2, AppSendIInv
<1>4. CASE UNCHANGED vars
  BY <1>1, <1>4, StutterIInv
<1>5. QED
  BY <1>1, <1>2, <1>3, <1>4, PollBootChipsetIInv, PollPreparingIInv, PollInitialingIInv,
     HciSendCmdIInv, HciCmdCompleteIInv, HciCmdStatusIInv, ChipsetEventIInv, ChipsetRebootIInv,
     ControllerIInv, ControllerRestartIInv, ControllerNopIInv DEF Next

\* What was sent and answered in each state of start-up (hci_state_polling, hci_core.c).
THEOREM AlwaysIInv == Spec => []IInv
  BY InitIInv, NextIInv, PTL DEF Spec

\* Every variable keeps its type, whatever the controller answers (hci_core.c).
THEOREM HciCmdTypeOK == Spec => []TypeOK
<1>1. IInv => TypeOK
  BY DEF IInv, Types
<1>2. QED
  BY <1>1, AlwaysIInv, PTL

\* What is needed was asked before what is needed and comes later in the chain.
LEMMA AskedBefore ==
    ASSUME answered \in Seq(InitCmds), Asked(12), NEW a \in Needed, NEW b \in Needed, Rank(a) < Rank(b)
    PROVE  Before(a, b)
<1>1. a \in InitCmds /\ b \in InitCmds /\ Rank(a) \in 1 .. 12 /\ Rank(b) \in 1 .. 12
  BY NeededInit, RankType
<1>2. PICK i \in 1 .. Len(answered) : answered[i] = a
  BY <1>1 DEF Asked
<1>3. PICK j \in 1 .. Len(answered) : answered[j] = b
  BY <1>1 DEF Asked
<1>4. j < i => Rank(b) < Rank(a)
  BY <1>2, <1>3 DEF Asked
<1>5. i # j
  BY <1>1, <1>2, <1>3
<1>6. i < j
  BY <1>1, <1>4, <1>5
<1>7. QED
  BY <1>2, <1>3, <1>6 DEF Before

\* A host that says it is ready has asked everything once, in the order in which later commands
\* need the answers of earlier ones, and has an identity, whatever the controller supports and
\* answers (hci_state_event_process and the handlers it calls).
THEOREM ConfiguredWhenReady == Spec => []ReadyMeansConfigured
<1>1. ASSUME IInv, hciState = "READY"
      PROVE  /\ IsInjective(answered)
             /\ Before("READ_LOCAL_FEATURES", "SET_EVENT_MASK")
             /\ Before("READ_SUPPORTED_COMMANDS", "LE_READ_LOCAL_FEATURES")
             /\ Before("LE_READ_LOCAL_FEATURES", "LE_SET_EVENT_MASK")
             /\ Before("LE_READ_BUFFER_SIZE", "LE_SET_EVENT_MASK")
             /\ bredr => Before("LE_READ_BUFFER_SIZE", "READ_BUFFER_SIZE")
             /\ Prng => "LE_RAND" \in ToSet(answered)
             /\ idCount
  <2>1. answered \in Seq(InitCmds) /\ Asked(12) /\ idCount
    BY <1>1, TypesNow DEF IInv, Ready
  <2>2. IsInjective(answered)
    <3>1. ASSUME NEW i \in 1 .. Len(answered), NEW j \in 1 .. Len(answered), answered[i] = answered[j]
          PROVE  i = j
      <4>1. Rank(answered[i]) \in 1 .. 12 /\ Rank(answered[j]) \in 1 .. 12
        <5>1. answered[i] \in InitCmds /\ answered[j] \in InitCmds
          BY <2>1, ElementType
        <5>2. QED
          BY <5>1, RankType
      <4>2. (i < j => Rank(answered[i]) < Rank(answered[j])) /\ (j < i => Rank(answered[j]) < Rank(answered[i]))
        BY <2>1 DEF Asked
      <4>3. Rank(answered[i]) = Rank(answered[j])
        BY <3>1
      <4>4. QED
        BY <4>1, <4>2, <4>3
    <3>2. DOMAIN answered = 1 .. Len(answered)
      BY <2>1
    <3>3. QED
      BY <3>1, <3>2 DEF IsInjective
  <2>3. /\ Rank("READ_LOCAL_FEATURES") = 1 /\ Rank("READ_SUPPORTED_COMMANDS") = 3 /\ Rank("LE_RAND") = 4
        /\ Rank("LE_READ_LOCAL_FEATURES") = 5 /\ Rank("LE_READ_BUFFER_SIZE") = 6
        /\ Rank("LE_SET_EVENT_MASK") = 8 /\ Rank("READ_BUFFER_SIZE") = 9 /\ Rank("SET_EVENT_MASK") = 10
    BY DEF Rank
  <2>4. /\ {"READ_LOCAL_FEATURES", "READ_SUPPORTED_COMMANDS", "LE_READ_LOCAL_FEATURES",
            "LE_READ_BUFFER_SIZE", "LE_SET_EVENT_MASK", "SET_EVENT_MASK"} \subseteq Needed
        /\ bredr => "READ_BUFFER_SIZE" \in Needed
        /\ Prng => "LE_RAND" \in Needed
    BY DEF Needed
  <2>5. Before("READ_LOCAL_FEATURES", "SET_EVENT_MASK")
    BY <2>1, <2>3, <2>4, AskedBefore
  <2>6. Before("READ_SUPPORTED_COMMANDS", "LE_READ_LOCAL_FEATURES")
    BY <2>1, <2>3, <2>4, AskedBefore
  <2>7. Before("LE_READ_LOCAL_FEATURES", "LE_SET_EVENT_MASK")
    BY <2>1, <2>3, <2>4, AskedBefore
  <2>8. Before("LE_READ_BUFFER_SIZE", "LE_SET_EVENT_MASK")
    BY <2>1, <2>3, <2>4, AskedBefore
  <2>9. bredr => Before("LE_READ_BUFFER_SIZE", "READ_BUFFER_SIZE")
    BY <2>1, <2>3, <2>4, AskedBefore
  <2>10. Prng => "LE_RAND" \in ToSet(answered)
    <3>1. SUFFICES ASSUME Prng PROVE "LE_RAND" \in ToSet(answered)
      OBVIOUS
    <3>2. PICK i \in 1 .. Len(answered) : answered[i] = "LE_RAND"
      BY <2>1, <2>3, <2>4, <3>1 DEF Asked
    <3>3. QED
      BY <2>1, <3>2 DEF ToSet
  <2>11. QED
    BY <2>1, <2>2, <2>5, <2>6, <2>7, <2>8, <2>9, <2>10
<1>2. IInv => ReadyMeansConfigured
  BY <1>1 DEF ReadyMeansConfigured
<1>3. QED
  BY <1>2, AlwaysIInv, PTL

-----------------------------------------------------------------------------
(* The flags, when the application has one command at a time on its way *)

\* Until the host is ready nobody sends a command that changes a flag.
Quiet ==
    flags = [f \in Flags |-> FALSE] /\ ctrl = [f \in Flags |-> FALSE] /\ cmdData.state = NoFlag

\* Then the controller is ahead of the host by the one command whose answer is on its way, and that
\* command is the one the host remembers.
Follows ==
    \/ NoneOut /\ flags = ctrl
    \/ \E c \in Commands : /\ OneOut(c) /\ flags = ctrl
                           /\ cmdData = [opcode |-> c.op, state |-> c.set]
    \/ /\ AnswerOut(cmdData.opcode)
       /\ ctrl = FlagsAfter(cmdData.opcode, rx[Len(rx)].ok)

FlagInv ==
    /\ cmdData.opcode = Nop => cmdData.state = NoFlag
    /\ hciState # "READY" => Quiet
    /\ hciState = "READY" => Follows

LEMMA NothingInFlight ==
    ASSUME cmdQueue \in Seq(Commands), tx \in Seq(Commands), rx \in Seq(Events)
    PROVE  InFlight \in Nat /\ (InFlight = 0 => NoneOut)
<1>1. PICK s : s = {i \in DOMAIN rx : rx[i].op # Nop}
  OBVIOUS
<1>2. IsFiniteSet(DOMAIN rx) /\ s \subseteq DOMAIN rx
  <2>1. IsFiniteSet(1 .. Len(rx))
    BY FS_Interval
  <2>2. QED
    BY <1>1, <2>1
<1>3. Cardinality(s) \in Nat /\ (Cardinality(s) = 0 => s = {})
  BY <1>2, FS_Subset, FS_CardinalityType, FS_EmptySet
<1>4. Len(cmdQueue) \in Nat /\ Len(tx) \in Nat
  OBVIOUS
<1>5. InFlight = Len(cmdQueue) + Len(tx) + Cardinality(s)
  BY <1>1 DEF InFlight
<1>6. ASSUME InFlight = 0 PROVE NoneOut
  <2>1. Len(cmdQueue) = 0 /\ Len(tx) = 0 /\ s = {}
    BY <1>3, <1>4, <1>5, <1>6
  <2>2. cmdQueue = <<>> /\ tx = <<>>
    BY <2>1
  <2>3. \A i \in 1 .. Len(rx) : rx[i].op = Nop
    BY <1>1, <2>1
  <2>4. QED
    BY <2>2, <2>3 DEF NoneOut, Nops
<1>7. QED
  BY <1>3, <1>4, <1>5, <1>6

LEMMA QuietFlags == Quiet => \A op, ok : FlagsAfter(op, ok) = flags
  BY DEF Quiet, FlagsAfter

LEMMA PollFlags ==
    ASSUME FlagInv, PollBootChipset \/ PollPreparing \/ PollInitialing PROVE FlagInv'
<1>1. hciState # "READY" /\ hciState' # "READY" /\ flags' = flags /\ ctrl' = ctrl
  BY DEF PollBootChipset, PollPreparing, PollInitialing, linkVars
<1>2. PICK op : Send(PlainCmd(op))
  BY DEF PollBootChipset, PollPreparing, PollInitialing
<1>3. cmdData'.state = NoFlag
  BY <1>2 DEF Send, PlainCmd
<1>4. Quiet'
  BY <1>1, <1>3 DEF FlagInv, Quiet, NoFlag
<1>5. QED
  BY <1>1, <1>3, <1>4 DEF FlagInv, NoFlag

LEMMA SendFlags ==
    ASSUME FlagInv, HciSendCmd PROVE FlagInv'
<1>1. /\ cmdQueue # <<>> /\ tx' = Append(tx, Head(cmdQueue)) /\ cmdQueue' = Tail(cmdQueue)
      /\ UNCHANGED <<hciState, cmdData, flags, rx, ctrl>>
  BY DEF HciSendCmd
<1>2. CASE hciState # "READY"
  <2>1. Quiet'
    BY <1>1, <1>2 DEF FlagInv, Quiet, NoFlag
  <2>2. QED
    BY <1>1, <1>2, <2>1 DEF FlagInv, Quiet, Nop, NoFlag
<1>3. CASE hciState = "READY"
  <2>1. PICK c \in Commands : OneOut(c) /\ flags = ctrl /\ cmdData = [opcode |-> c.op, state |-> c.set]
    BY <1>1, <1>3, OutFacts DEF FlagInv, Follows
  <2>2. cmdQueue = <<c>> /\ tx = <<>> /\ Nops(Len(rx))
    BY <1>1, <2>1 DEF OneOut
  <2>3. cmdQueue' = <<>> /\ tx' = <<c>>
    BY <1>1, <2>2
  <2>4. OneOut(c)'
    BY <1>1, <2>2, <2>3 DEF OneOut, Nops
  <2>5. c \in Commands'
    BY DEF Commands, PlainCmd, SetFlag, NoFlag, Opcodes, BootCmds, InitCmds
  <2>6. Follows'
    BY <1>1, <2>1, <2>4, <2>5 DEF Follows
  <2>7. QED
    BY <1>1, <1>3, <2>6 DEF FlagInv, Nop, NoFlag
<1>4. QED
  BY <1>2, <1>3

\* An answer is read: Command Complete or Command Status.
LEMMA ReadFlags ==
    ASSUME Types, FlagInv, hciState = "READY", hciState' = "READY", rx # <<>>, rx' = Tail(rx),
           UNCHANGED <<cmdQueue, cmdData, tx, ctrl>>,
           NEW e, e = Head(rx), flags' = FlagsAfter(e.op, e.ok)
    PROVE  FlagInv'
<1>1. rx \in Seq(Events) /\ cmdData \in Remembered
  BY TypesNow
<1>2. Follows
  BY DEF FlagInv
<1>3. e.op = Nop => flags' = flags
  BY DEF FlagInv, FlagsAfter
<1>4. CASE NoneOut /\ flags = ctrl
  <2>1. NoneOut' /\ e.op = Nop
    BY <1>1, <1>4, ReadEvent
  <2>2. Follows'
    BY <1>3, <1>4, <2>1 DEF Follows
  <2>3. QED
    BY <2>2 DEF FlagInv, Nop, NoFlag
<1>5. CASE \E c \in Commands : OneOut(c) /\ flags = ctrl /\ cmdData = [opcode |-> c.op, state |-> c.set]
  <2>1. PICK c \in Commands : OneOut(c) /\ flags = ctrl /\ cmdData = [opcode |-> c.op, state |-> c.set]
    BY <1>5
  <2>2. OneOut(c)' /\ e.op = Nop
    BY <1>1, <2>1, ReadEvent
  <2>3. c \in Commands'
    BY DEF Commands, PlainCmd, SetFlag, NoFlag, Opcodes, BootCmds, InitCmds
  <2>4. Follows'
    BY <1>3, <2>1, <2>2, <2>3 DEF Follows
  <2>5. QED
    BY <2>4 DEF FlagInv, Nop, NoFlag
<1>6. CASE AnswerOut(cmdData.opcode) /\ ctrl = FlagsAfter(cmdData.opcode, rx[Len(rx)].ok)
  <2>1. PICK op : op = cmdData.opcode
    OBVIOUS
  <2>2. AnswerOut(op) /\ op # Nop
    BY <1>6, <2>1 DEF AnswerOut
  <2>3. (e.op = op /\ NoneOut') \/ (e.op = Nop /\ AnswerOut(op)')
    BY <1>1, <2>2, ReadEvent
  <2>4. CASE e.op = op /\ NoneOut'
    <3>1. e = rx[Len(rx)]
      <4>1. Len(rx) \in Nat /\ Len(rx) > 0 /\ e = rx[1] /\ Nops(Len(rx) - 1)
        BY <1>1, <2>2, HeadTailProperties DEF AnswerOut
      <4>2. Len(rx) # 1 => 1 \in 1 .. Len(rx) - 1
        <5>1. PICK n : n = Len(rx)
          OBVIOUS
        <5>2. n \in Nat /\ n > 0
          BY <4>1, <5>1
        <5>3. n # 1 => 1 \in 1 .. n - 1
          BY ONLY <5>2
        <5>4. QED
          BY <5>1, <5>3
      <4>3. QED
        BY <2>2, <2>4, <4>1, <4>2 DEF Nops
    <3>2. flags' = ctrl'
      BY <1>6, <2>1, <2>4, <3>1
    <3>3. Follows'
      BY <2>4, <3>2 DEF Follows
    <3>4. QED
      BY <3>3 DEF FlagInv, Nop, NoFlag
  <2>5. CASE e.op = Nop /\ AnswerOut(op)'
    <3>1. flags' = flags
      BY <1>3, <2>5
    <3>2. rx'[Len(rx')] = rx[Len(rx)]
      <4>1. /\ Len(rx) \in Nat /\ Len(rx) > 0 /\ Len(rx') = Len(rx) - 1
            /\ \A i \in 1 .. Len(rx') : rx'[i] = rx[i + 1]
        BY <1>1, HeadTailProperties
      <4>2. rx' # <<>> /\ rx' \in Seq(Events)
        BY <1>1, <2>5, HeadTailProperties DEF AnswerOut
      <4>3. Len(rx') \in 1 .. Len(rx') /\ Len(rx') + 1 = Len(rx)
        BY <4>1, <4>2
      <4>4. QED
        BY <4>1, <4>3
    <3>3. AnswerOut(cmdData.opcode)' /\ ctrl' = FlagsAfter(cmdData.opcode, rx[Len(rx)].ok)'
      <4>1. cmdData.opcode' = op
        BY <2>1
      <4>2. AnswerOut(cmdData.opcode)'
        BY <2>5, <4>1 DEF AnswerOut, Nop, Nops
      <4>3. ctrl' = FlagsAfter(cmdData.opcode, rx[Len(rx)].ok)'
        BY <1>6, <3>1, <3>2 DEF FlagsAfter, NoFlag
      <4>4. QED
        BY <4>2, <4>3
    <3>4. Follows'
      BY <3>3 DEF Follows
    <3>5. QED
      BY <3>4 DEF FlagInv, Nop, NoFlag
  <2>6. QED
    BY <2>3, <2>4, <2>5
<1>7. QED
  BY <1>2, <1>4, <1>5, <1>6 DEF Follows

LEMMA CompleteFlags == ASSUME IInv, FlagInv, HciCmdComplete PROVE FlagInv'
<1>1. Types /\ EventsFit /\ Started /\ Ready
  BY DEF IInv
<1>2. PICK e, ids : e = Head(rx) /\ ids = (idCount \/ e.found)
  OBVIOUS
<1>3. /\ rx # <<>> /\ e.kind = "complete" /\ rx' = Tail(rx) /\ UNCHANGED <<tx, ctrl>>
      /\ flags' = IF e.op = "RESET" /\ e.ok THEN [f \in Flags |-> FALSE] ELSE FlagsAfter(e.op, e.ok)
      /\ Advance(e.op, ids)
  BY <1>2 DEF HciCmdComplete
<1>4. rx \in Seq(Events) /\ hciState \in States
  BY <1>1, TypesNow
<1>5. CASE hciState = "READY"
  <2>1. hciState' = "READY" /\ UNCHANGED <<cmdQueue, cmdData>>
    BY <1>3, <1>5 DEF Advance, SendNothing
  <2>2. e.op \notin BootCmds
    <3>1. e = rx[1] /\ 1 \in 1 .. Len(rx)
      BY <1>2, <1>3, <1>4, HeadTailProperties
    <3>2. QED
      BY <1>1, <1>5, <3>1 DEF Ready
  <2>3. flags' = FlagsAfter(e.op, e.ok)
    BY <1>3, <2>2, Names
  <2>4. QED
    BY <1>1, <1>2, <1>3, <1>5, <2>1, <2>3, ReadFlags
<1>6. CASE hciState # "READY"
  <2>1. Quiet
    BY <1>6 DEF FlagInv
  <2>2. flags' = flags
    BY <1>3, <2>1, QuietFlags DEF Quiet
  <2>3. cmdData'.state = NoFlag
    <3>1. CASE UNCHANGED cmdData
      BY <2>1, <3>1 DEF Quiet
    <3>2. CASE \E op : Send(PlainCmd(op))
      BY <3>2 DEF Send, PlainCmd
    <3>3. QED
      BY <1>3, <3>1, <3>2 DEF Advance, SendNothing
  <2>4. Quiet'
    BY <1>3, <2>1, <2>2, <2>3 DEF Quiet, NoFlag
  <2>5. CASE hciState' # "READY"
    BY <2>3, <2>4, <2>5 DEF FlagInv, NoFlag
  <2>6. CASE hciState' = "READY"
    <3>1. hciState = "INITIALING_WAIT" /\ initState = e.op /\ UNCHANGED cmdQueue
      BY <1>3, <1>6, <2>6 DEF Advance, SendNothing
    <3>2. e.op # Nop
      <4>1. e.op \in InitCmds
        BY <1>1, <3>1 DEF Started
      <4>2. QED
        BY <4>1, Names
    <3>3. AnswerOut(e.op)
      BY <1>1, <1>2, <1>3, <1>6, <3>1, <3>2, StartEvent
    <3>4. NoneOut'
      <4>1. Nops(Len(rx))' /\ tx' = <<>> /\ cmdQueue = <<>>
        BY <1>2, <1>3, <1>4, <3>3, ReadEvent
      <4>2. QED
        BY <3>1, <4>1 DEF NoneOut
    <3>5. flags' = ctrl'
      BY <2>4 DEF Quiet
    <3>6. Follows'
      BY <3>4, <3>5 DEF Follows
    <3>7. QED
      BY <2>3, <2>6, <3>6 DEF FlagInv, NoFlag
  <2>7. QED
    BY <2>5, <2>6
<1>7. QED
  BY <1>5, <1>6

LEMMA StatusFlags == ASSUME IInv, FlagInv, HciCmdStatus PROVE FlagInv'
<1>1. PICK e : e = Head(rx)
  OBVIOUS
<1>2. /\ rx # <<>> /\ flags' = FlagsAfter(e.op, e.ok) /\ rx' = Tail(rx)
      /\ UNCHANGED <<hciState, cmdQueue, cmdData, tx, ctrl>>
  BY <1>1 DEF HciCmdStatus
<1>3. CASE hciState = "READY"
  BY <1>1, <1>2, <1>3, ReadFlags DEF IInv
<1>4. CASE hciState # "READY"
  <2>1. Quiet
    BY <1>4 DEF FlagInv
  <2>2. flags' = flags
    BY <1>2, <2>1, QuietFlags
  <2>3. Quiet'
    BY <1>2, <2>1, <2>2 DEF Quiet, NoFlag
  <2>4. QED
    BY <1>2, <1>4, <2>3 DEF FlagInv, Quiet, NoFlag, Nop
<1>5. QED
  BY <1>3, <1>4

LEMMA ChipsetFlags == ASSUME IInv, FlagInv, ChipsetEvent \/ ChipsetReboot PROVE FlagInv'
<1>1. Types /\ Started /\ Ready
  BY DEF IInv
<1>2. hciState \in States
  BY <1>1, TypesNow
<1>3. hciState = "BOOTING_WAIT" /\ hciState' # "READY" /\ flags' = flags /\ ctrl' = ctrl
  <2>1. CASE ChipsetEvent
    BY <2>1 DEF ChipsetEvent
  <2>2. CASE ChipsetReboot
    <3>1. rebooting
      BY <2>2 DEF ChipsetReboot
    <3>2. hciState = "BOOTING_WAIT"
      BY <1>1, <1>2, <3>1 DEF Started, Ready, States
    <3>3. QED
      BY <2>2, <3>2 DEF ChipsetReboot
  <2>3. QED
    BY <2>1, <2>2
<1>4. Quiet
  BY <1>3 DEF FlagInv
<1>5. cmdData'.state = NoFlag
  <2>1. CASE ChipsetEvent
    BY <2>1 DEF ChipsetEvent, Send, PlainCmd
  <2>2. CASE ChipsetReboot
    BY <1>4, <2>2 DEF ChipsetReboot, Quiet
  <2>3. QED
    BY <2>1, <2>2
<1>6. Quiet'
  BY <1>3, <1>4, <1>5 DEF Quiet, NoFlag
<1>7. QED
  BY <1>3, <1>5, <1>6 DEF FlagInv, NoFlag

LEMMA AppSendFlags ==
    ASSUME MaxInFlight <= 1, IInv, FlagInv, NEW c \in Commands, AppSend(c) PROVE FlagInv'
<1>1. Types /\ MaxInFlight \in Nat
  BY HciCmdAssumption DEF IInv
<1>2. /\ hciState = "READY" /\ InFlight < MaxInFlight /\ Send(c)
      /\ UNCHANGED <<hciState, flags, tx, rx, ctrl>>
  BY DEF AppSend, linkVars
<1>3. NoneOut
  <2>1. InFlight \in Nat /\ (InFlight = 0 => NoneOut)
    BY <1>1, TypesNow, NothingInFlight
  <2>2. InFlight = 0
    BY <1>1, <1>2, <2>1
  <2>3. QED
    BY <2>1, <2>2
<1>4. flags = ctrl
  <2>1. \A d : ~ OneOut(d)
    BY <1>3 DEF NoneOut, OneOut
  <2>2. \A op : ~ AnswerOut(op)
    <3>1. SUFFICES ASSUME NEW op, AnswerOut(op) PROVE FALSE
      OBVIOUS
    <3>2. rx \in Seq(Events)
      BY <1>1, TypesNow
    <3>3. Len(rx) \in 1 .. Len(rx)
      BY <3>1, <3>2 DEF AnswerOut
    <3>4. QED
      BY <1>3, <3>1, <3>3 DEF NoneOut, AnswerOut, Nops
  <2>3. QED
    BY <1>2, <2>1, <2>2 DEF FlagInv, Follows
<1>5. OneOut(c)' /\ cmdData' = [opcode |-> c.op, state |-> c.set]
  BY <1>2, <1>3, SendOne DEF Send
<1>6. c \in Commands'
  BY DEF Commands, PlainCmd, SetFlag, NoFlag, Opcodes, BootCmds, InitCmds
<1>7. Follows'
  BY <1>2, <1>4, <1>5, <1>6 DEF Follows
<1>8. cmdData'.opcode # Nop
  BY <1>5, CommandFacts, Names
<1>9. QED
  BY <1>2, <1>7, <1>8 DEF FlagInv, Nop, NoFlag

LEMMA ControllerFlags == ASSUME IInv, FlagInv, Controller PROVE FlagInv'
<1>1. Types /\ Started /\ Ready
  BY DEF IInv
<1>2. PICK c : c = Head(tx)
  OBVIOUS
<1>3. PICK e : /\ e.op = c.op /\ rx' = Append(rx, e)
               /\ ctrl' = IF c.op = "RESET" THEN [f \in Flags |-> FALSE]
                          ELSE IF e.ok /\ c.set # NoFlag
                               THEN [ctrl EXCEPT ![c.set.flag] = c.set.value]
                               ELSE ctrl
  BY <1>2 DEF Controller
<1>4. /\ tx # <<>> /\ c.op # "WARM_RESET" /\ tx' = Tail(tx)
      /\ UNCHANGED <<hciState, cmdQueue, cmdData, flags>>
  BY <1>2 DEF Controller, hostVars
<1>5. tx \in Seq(Commands) /\ rx \in Seq(Events) /\ hciState \in States
  BY <1>1, TypesNow
<1>6. c = tx[1] /\ 1 \in 1 .. Len(tx) /\ c \in Commands
  BY <1>2, <1>4, <1>5, HeadTailProperties, ElementType
<1>7. c.op # Nop
  BY <1>6, CommandFacts, Names
<1>8. ~ NoneOut /\ \A op : ~ AnswerOut(op)
  BY <1>4, OutFacts
<1>9. CASE hciState = "READY"
  <2>1. PICK d \in Commands : OneOut(d) /\ flags = ctrl /\ cmdData = [opcode |-> d.op, state |-> d.set]
    BY <1>8, <1>9 DEF FlagInv, Follows
  <2>2. d = c
    <3>1. tx = <<d>>
      BY <1>4, <2>1 DEF OneOut
    <3>2. QED
      BY <1>2, <3>1
  <2>3. AnswerOut(c.op)'
    BY <1>3, <1>4, <1>5, <1>7, <2>1, <2>2, Answered
  <2>4. c.op # "RESET"
    <3>1. c.op \notin BootCmds
      BY <1>1, <1>6, <1>9 DEF Ready
    <3>2. QED
      BY <3>1, Names
  <2>5. Len(rx') = Len(rx) + 1 /\ rx'[Len(rx) + 1] = e
    BY <1>3, <1>5, AppendProperties
  <2>6. rx'[Len(rx')] = e
    BY <2>5
  <2>7. cmdData'.opcode = c.op /\ cmdData'.state = c.set
    BY <1>4, <2>1, <2>2
  <2>8. AnswerOut(cmdData.opcode)'
    BY <2>3, <2>7 DEF AnswerOut, Nop, Nops
  <2>9. ctrl' = FlagsAfter(cmdData.opcode, rx[Len(rx)].ok)'
    BY <1>3, <1>4, <2>1, <2>4, <2>6, <2>7 DEF FlagsAfter, NoFlag
  <2>10. Follows'
    BY <2>8, <2>9 DEF Follows
  <2>11. QED
    BY <1>4, <1>7, <1>9, <2>7, <2>10 DEF FlagInv, Nop, NoFlag
<1>10. CASE hciState # "READY"
  <2>1. Quiet
    BY <1>10 DEF FlagInv
  <2>2. \E op : OneOut(PlainCmd(op))
    BY <1>1, <1>5, <1>8, <1>10 DEF Started, States, Waiting, Chain
  <2>3. PICK op : OneOut(PlainCmd(op))
    BY <2>2
  <2>4. c.set = NoFlag
    <3>1. PICK d : d = PlainCmd(op)
      OBVIOUS
    <3>2. tx = <<d>>
      BY <1>4, <2>3, <3>1 DEF OneOut
    <3>3. c = d
      BY <1>2, <3>2
    <3>4. QED
      BY <3>1, <3>3 DEF PlainCmd
  <2>5. ctrl' = [f \in Flags |-> FALSE]
    BY <1>3, <2>1, <2>4 DEF Quiet
  <2>6. Quiet'
    BY <1>4, <2>1, <2>5 DEF Quiet, NoFlag
  <2>7. QED
    BY <1>4, <1>10, <2>6 DEF FlagInv, Quiet, Nop, NoFlag
<1>11. QED
  BY <1>9, <1>10

LEMMA RestartFlags == ASSUME IInv, FlagInv, ControllerRestart PROVE FlagInv'
<1>1. Types /\ Ready
  BY DEF IInv
<1>2. /\ tx # <<>> /\ Head(tx).op = "WARM_RESET" /\ ctrl' = [f \in Flags |-> FALSE]
      /\ UNCHANGED <<hciState, cmdData, flags>>
  BY DEF ControllerRestart, hostVars
<1>3. hciState # "READY"
  <2>1. tx \in Seq(Commands)
    BY <1>1, TypesNow
  <2>2. Head(tx) = tx[1] /\ 1 \in 1 .. Len(tx)
    BY <1>2, <2>1, HeadTailProperties
  <2>3. "WARM_RESET" \in BootCmds
    BY Names
  <2>4. QED
    BY <1>1, <1>2, <2>2, <2>3 DEF Ready
<1>4. Quiet
  BY <1>3 DEF FlagInv
<1>5. Quiet'
  BY <1>2, <1>4 DEF Quiet, NoFlag
<1>6. QED
  BY <1>2, <1>3, <1>4, <1>5 DEF FlagInv, Quiet, NoFlag

LEMMA NopFlags == ASSUME IInv, FlagInv, ControllerNop PROVE FlagInv'
<1>1. PICK e : e.op = Nop /\ rx' = <<e>>
  BY DEF ControllerNop
<1>2. tx = <<>> /\ rx = <<>> /\ UNCHANGED <<hciState, cmdQueue, cmdData, flags, tx, ctrl>>
  BY DEF ControllerNop, hostVars
<1>3. CASE hciState # "READY"
  <2>1. Quiet'
    BY <1>2, <1>3 DEF FlagInv, Quiet, NoFlag
  <2>2. QED
    BY <1>2, <1>3, <2>1 DEF FlagInv, Quiet, Nop, NoFlag
<1>4. CASE hciState = "READY"
  <2>1. Nops(Len(rx))'
    BY <1>1 DEF Nops
  <2>2. \A op : ~ AnswerOut(op)
    BY <1>2, OutFacts
  <2>3. CASE NoneOut /\ flags = ctrl
    <3>1. NoneOut' /\ flags' = ctrl'
      BY <1>2, <2>1, <2>3 DEF NoneOut
    <3>2. QED
      BY <1>2, <1>4, <3>1 DEF FlagInv, Follows, Nop, NoFlag
  <2>4. CASE \E c \in Commands : OneOut(c) /\ flags = ctrl /\ cmdData = [opcode |-> c.op, state |-> c.set]
    <3>1. PICK c \in Commands : OneOut(c) /\ flags = ctrl /\ cmdData = [opcode |-> c.op, state |-> c.set]
      BY <2>4
    <3>2. OneOut(c)'
      BY <1>2, <2>1, <3>1 DEF OneOut
    <3>3. c \in Commands'
      BY DEF Commands, PlainCmd, SetFlag, NoFlag, Opcodes, BootCmds, InitCmds
    <3>4. Follows'
      BY <1>2, <3>1, <3>2, <3>3 DEF Follows
    <3>5. QED
      BY <1>2, <1>4, <3>4 DEF FlagInv, Nop, NoFlag
  <2>5. QED
    BY <1>4, <2>2, <2>3, <2>4 DEF FlagInv, Follows
<1>5. QED
  BY <1>3, <1>4

LEMMA InitFlags == Init => FlagInv
  BY DEF Init, FlagInv, Quiet

LEMMA StutterFlags == ASSUME FlagInv, UNCHANGED vars PROVE FlagInv'
<1>1. UNCHANGED <<hciState, cmdQueue, cmdData, flags, tx, rx, ctrl>>
  BY DEF vars, hostVars, linkVars
<1>2. QED
  BY <1>1 DEF FlagInv, Quiet, Follows, NoneOut, OneOut, AnswerOut, Nops, FlagsAfter, Commands, PlainCmd,
              SetFlag, NoFlag, Nop, Opcodes, BootCmds, InitCmds

LEMMA NextFlags ==
    ASSUME MaxInFlight <= 1
    PROVE  IInv /\ FlagInv /\ [Next]_vars => FlagInv'
<1>1. SUFFICES ASSUME IInv, FlagInv, [Next]_vars PROVE FlagInv'
  OBVIOUS
<1>2. CASE \E f \in Flags, v \in BOOLEAN : AppSend(SetFlag(f, v))
  BY <1>1, <1>2, CommandFacts, AppSendFlags
<1>3. CASE AppSend(PlainCmd(Plain))
  <2>1. PlainCmd(Plain) \in Commands
    BY CommandFacts DEF Opcodes
  <2>2. QED
    BY <1>1, <1>3, <2>1, AppSendFlags
<1>4. QED
  BY <1>1, <1>2, <1>3, PollFlags, SendFlags, CompleteFlags, StatusFlags, ChipsetFlags, ControllerFlags,
     RestartFlags, NopFlags, StutterFlags DEF Next

\* With one command of the application at a time, the host's flags follow the controller's:
\* cmd_data_new is then never overwritten before the answer it is for (bt_hci_cmd_create,
\* hci_cmd_done).  With two it is, and they do not.
THEOREM FlagsStayRight ==
    ASSUME MaxInFlight <= 1 PROVE Spec => []FlagsFollowController
<1>1. ASSUME IInv, FlagInv PROVE FlagsFollowController
  <2>1. SUFFICES ASSUME InFlight = 0 PROVE flags = ctrl
    BY DEF FlagsFollowController
  <2>2. Types
    BY <1>1 DEF IInv
  <2>3. NoneOut
    BY <2>1, <2>2, TypesNow, NothingInFlight
  <2>4. CASE hciState # "READY"
    BY <1>1, <2>4 DEF FlagInv, Quiet
  <2>5. CASE hciState = "READY"
    <3>1. \A d : ~ OneOut(d)
      BY <2>3 DEF NoneOut, OneOut
    <3>2. \A op : ~ AnswerOut(op)
      <4>1. SUFFICES ASSUME NEW op, AnswerOut(op) PROVE FALSE
        OBVIOUS
      <4>2. rx \in Seq(Events)
        BY <2>2, TypesNow
      <4>3. Len(rx) \in 1 .. Len(rx)
        BY <4>1, <4>2 DEF AnswerOut
      <4>4. QED
        BY <2>3, <4>1, <4>3 DEF NoneOut, AnswerOut, Nops
    <3>3. QED
      BY <1>1, <2>5, <3>1, <3>2 DEF FlagInv, Follows
  <2>6. QED
    BY <2>4, <2>5
<1>2. IInv /\ FlagInv => FlagsFollowController
  BY <1>1
<1>3. IInv /\ FlagInv /\ [Next]_vars => FlagInv'
  BY NextFlags
<1>4. QED
  BY <1>2, <1>3, InitFlags, AlwaysIInv, PTL DEF Spec
=============================================================================
