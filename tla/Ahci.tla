-------------------------------- MODULE Ahci --------------------------------
(***************************************************************************)
(* The AHCI driver (kernel/src/ahci.c) and the controller it talks to.     *)
(*                                                                         *)
(* initialize_ahci goes through the ports: on every port with a drive it   *)
(* stops the command engine, lays out command headers, the FIS area and    *)
(* the command tables in one piece of memory, gives the controller their   *)
(* addresses and starts the engine again.  read_write_sectors describes    *)
(* the buffer in the table of a free slot, issues the slot and polls until *)
(* the controller has cleared it.                                          *)
(*                                                                         *)
(* The controller is external: it follows the driver's bits in its own     *)
(* time and may fail a command.  Bytes are counted in sectors where a      *)
(* buffer is meant, and as they are in the layout of the memory.           *)
(***************************************************************************)
EXTENDS Bytes, FiniteSets, Sequences, SequencesExt

CONSTANTS
    Ports,            \* the ports below g_ahci.port_count, as numbers
    SlotCounts,       \* the numbers of command slots controllers have
    PAGE_SIZE,
    CMD_TABLE_SIZE,
    PRDT_LEN,
    EntrySectors,     \* sectors of a full PRDT entry, 0x2000 / 512
    EntryMax,         \* sectors of an entry whose byte_count is all ones
    PageSectors,      \* sectors per page
    Octet,            \* values of a byte
    Sectors,          \* the first sectors callers ask for
    Counts,           \* the sector counts callers ask for
    Buffers           \* the frames of the buffers callers pass

ASSUME AhciAssumption ==
    /\ Ports \subseteq Nat
    /\ SlotCounts \subseteq 1 .. 32
    /\ {PAGE_SIZE, CMD_TABLE_SIZE, PRDT_LEN, EntrySectors, EntryMax, PageSectors, Octet}
           \subseteq Nat \ {0}
    /\ Sectors \subseteq 0 .. Place(Octet, 6) - 1
    /\ Counts \subseteq 1 .. Place(Octet, 2) - 1
\* An entry describes whole pages, and a byte_count of all ones at least as much
\* as any other.
ASSUME EntryAssumption == EntrySectors % PageSectors = 0 /\ EntryMax >= EntrySectors
\* A buffer is contiguous inside the piece that one PRDT entry describes, and
\* holds what a request that fits into the PRDT asks for.
ASSUME BufferAssumption ==
    \A b \in Buffers :
        /\ b \in Seq(Nat)
        /\ \A k \in 1 .. Len(b) - 1 :
               k % (EntrySectors \div PageSectors) # 0 => b[k + 1] = b[k] + 1
        /\ \A c \in Counts : c <= PRDT_LEN * EntrySectors => c <= Len(b) * PageSectors

VARIABLES
    cmd_slots,   \* g_ahci.cmd_slots
    drives,      \* the ports with an ATA drive
    cmd,         \* PxCMD of every port: the bits ST, FRE, CR and FR
    base,        \* whether the port has its command list and FIS base
    devices,     \* g_ahci.devices
    pc,          \* the driver's next step
    port,        \* the port the driver works on
    dma,         \* the memory of a device: pages, and the offset reached
    tables,      \* the offsets of the command tables of the device
    req,         \* the request: first sector, count, buffer, direction, slot
    header,      \* the command header of the slot
    fis,         \* the command in its table
    prdt,        \* the PRDT in its table: where entries start, and lengths
    cmd_issue,   \* PxCI of the port
    tfes,        \* PxIS.TFES of the port
    done         \* the sectors the controller has moved, in order

init_vars == <<cmd_slots, drives, devices, dma, tables>>
request_vars == <<req, header, fis, prdt, cmd_issue, tfes, done>>
ahciVars == <<init_vars, cmd, base, pc, port, request_vars>>

-----------------------------------------------------------------------------
(* What driver and controller share in memory.                             *)

PORT_CMD == {"ST", "FRE", "CR", "FR"}
CMDHeader == [write : BOOLEAN, prdt_len : Nat]
PRDTEntry == [start : Nat, sectors : Nat]
CMDTable == Seq(PRDTEntry)
FISRegH2D ==
    [cmd : {"none", "ATA_CMD_READ_DMA_EX", "ATA_CMD_WRITE_DMA_EXT"},
     lba : [0 .. 5 -> 0 .. Octet - 1], count : [0 .. 1 -> 0 .. Octet - 1]]

RoundUp(n, m) == ((n + m - 1) \div m) * m
DmaPages(slots) ==
    RoundUp(RoundUp(32 * slots, 256) + 256 + slots * CMD_TABLE_SIZE, PAGE_SIZE) \div PAGE_SIZE
HeadersSize == 1024   \* what is cleared and skipped for the command headers
FisSize == 256

NoPort == -1
Goto(step) == pc' = step
GiveUp(reason) == Goto(reason) /\ UNCHANGED <<init_vars, cmd, base, port, request_vars>>
Stops == {"out of memory", "no physical address", "prdt too small", "port hung", "failed to read"}

AhciInit ==
    /\ cmd_slots \in SlotCounts
    /\ drives \in SUBSET Ports
    /\ cmd \in [Ports -> {{}, {"ST", "FRE", "CR", "FR"}}]
    /\ base = [p \in Ports |-> FALSE]
    /\ devices = <<>>
    /\ pc = "next port"
    /\ port = NoPort
    /\ dma = [pages |-> 0, offset |-> 0]
    /\ tables = <<>>
    /\ req = [sector |-> 0, count |-> 0, buffer |-> <<>>, write |-> FALSE, slot |-> 0]
    /\ header = [write |-> FALSE, prdt_len |-> 0]
    /\ fis = [cmd |-> "none", lba |-> [n \in 0 .. 5 |-> 0], count |-> [n \in 0 .. 1 |-> 0]]
    /\ prdt = <<>>
    /\ cmd_issue = {}
    /\ tfes = FALSE
    /\ done = <<>>

-----------------------------------------------------------------------------
(* initialize_ahci.                                                        *)

NextPort ==
    /\ pc = "next port"
    /\ \E p \in Ports :
           /\ p > port
           /\ \A q \in Ports : q > port => p <= q
           /\ port' = p
           /\ IF p \in drives THEN Goto("stop") ELSE UNCHANGED pc
    /\ UNCHANGED <<init_vars, cmd, base, request_vars>>

AllPortsDone ==
    /\ pc = "next port"
    /\ \A p \in Ports : p <= port
    /\ Goto("idle")
    /\ UNCHANGED <<init_vars, cmd, base, port, request_vars>>

\* stop_cmd: clear ST, clear FRE, wait for FR and CR.
ClearBit(from, bit, to) ==
    /\ pc = from
    /\ cmd' = [cmd EXCEPT ![port] = @ \ {bit}]
    /\ Goto(to)
    /\ UNCHANGED <<init_vars, base, port, request_vars>>
stop_cmd == ClearBit("stop", "ST", "stop fre") \/ ClearBit("stop fre", "FRE", "stop wait")

EngineStopped_OnlyCR == "CR" \notin cmd[port]
EngineStopped == {"CR", "FR"} \cap cmd[port] = {}

StopDone ==
    /\ pc = "stop wait"
    /\ EngineStopped
    /\ Goto("allocate")
    /\ UNCHANGED <<init_vars, cmd, base, port, request_vars>>

\* The next device gets its memory.
AllocDma ==
    /\ pc = "allocate"
    /\ devices' = Append(devices, port)
    /\ dma' = [pages |-> DmaPages(cmd_slots), offset |-> 0]
    /\ tables' = <<>>
    /\ Goto("set bases")
    /\ UNCHANGED <<cmd_slots, drives, cmd, base, port, request_vars>>

AllocDmaFails == pc = "allocate" /\ GiveUp("out of memory")

\* The command list base and the FIS base, then the offset of the first table.
SetBases ==
    /\ pc = "set bases"
    /\ base' = [base EXCEPT ![port] = TRUE]
    /\ dma' = [dma EXCEPT !.offset = HeadersSize + FisSize]
    /\ Goto("tables")
    /\ UNCHANGED <<cmd_slots, drives, devices, tables, cmd, port, request_vars>>

\* The next table.  Past the end of the allocation kvirt_to_phys_addr finds
\* nothing, or somebody else's page.
SetTable ==
    /\ pc = "tables"
    /\ Len(tables) < cmd_slots
    /\ tables' = Append(tables, dma.offset)
    /\ dma' = [dma EXCEPT !.offset = @ + CMD_TABLE_SIZE]
    /\ UNCHANGED <<cmd_slots, drives, devices, cmd, base, pc, port, request_vars>>

NoPhysicalAddress ==
    /\ pc = "tables"
    /\ Len(tables) < cmd_slots
    /\ dma.offset >= dma.pages * PAGE_SIZE
    /\ GiveUp("no physical address")

\* start_cmd: wait for CR, set FRE, set ST.
StartDone ==
    /\ pc = "tables"
    /\ Len(tables) = cmd_slots
    /\ "CR" \notin cmd[port]
    /\ Goto("start fre")
    /\ UNCHANGED <<init_vars, cmd, base, port, request_vars>>
SetBit(from, bit, to) ==
    /\ pc = from
    /\ cmd' = [cmd EXCEPT ![port] = @ \cup {bit}]
    /\ Goto(to)
    /\ UNCHANGED <<init_vars, base, port, request_vars>>
start_cmd_NoST == SetBit("start fre", "FRE", "next port")
start_cmd == SetBit("start fre", "FRE", "start st") \/ SetBit("start st", "ST", "next port")

-----------------------------------------------------------------------------
(* read_write_sectors.                                                     *)

\* Where a sector of the buffer is in physical memory.
BufferSector(k) == req.buffer[k \div PageSectors + 1] * PageSectors + (k % PageSectors)

prdt_len(count) == (count - 1) \div EntrySectors + 1

\* The bytes of the last entry wrap when they are a whole entry.
LastSectors(count) ==
    IF count % EntrySectors = 0 THEN EntryMax ELSE count % EntrySectors

find_cmd_slot == CHOOSE s \in 0 .. cmd_slots - 1 :
                     s \notin cmd_issue /\ \A r \in 0 .. s - 1 : r \in cmd_issue

read_write_sectors(device_id, sector, count, buffer, write) ==
    /\ pc = "idle"
    /\ port' = devices[device_id]
    /\ req' = [sector |-> sector, count |-> count, buffer |-> buffer, write |-> write,
               slot |-> find_cmd_slot]
    /\ tfes' = FALSE
    /\ prdt' = <<>>
    /\ done' = <<>>
    /\ Goto(IF count <= PRDT_LEN * EntrySectors THEN "describe" ELSE "prdt too small")
    /\ UNCHANGED <<init_vars, cmd, base, header, fis, cmd_issue>>

\* The low 32 bits of the sector, then the next ones, byte by byte.
sector_l == req.sector % Place(Octet, 4)
sector_h == req.sector \div Place(Octet, 4)
LbaByte_OneWord(n) == (sector_l \div Place(Octet, n)) % Octet
LbaByte(n) == (IF n < 4 THEN sector_l \div Place(Octet, n) ELSE sector_h \div Place(Octet, n - 4)) % Octet

DescribeBuffer ==
    /\ pc = "describe"
    /\ header' = [write |-> req.write, prdt_len |-> prdt_len(req.count)]
    /\ fis' = [cmd |-> IF req.write THEN "ATA_CMD_WRITE_DMA_EXT" ELSE "ATA_CMD_READ_DMA_EX",
               lba |-> [n \in 0 .. 5 |-> LbaByte(n)],
               count |-> [n \in 0 .. 1 |-> (req.count \div Place(Octet, n)) % Octet]]
    /\ prdt' = [e \in 1 .. prdt_len(req.count) |->
                   [start |-> BufferSector((e - 1) * EntrySectors),
                    sectors |-> IF e < prdt_len(req.count) THEN EntrySectors
                                ELSE LastSectors(req.count)]]
    /\ Goto("spin")
    /\ UNCHANGED <<init_vars, cmd, base, port, req, cmd_issue, tfes, done>>

\* The port is not busy any more, or is after a million looks.
IssueCommand ==
    /\ pc = "spin"
    /\ cmd_issue' = cmd_issue \cup {req.slot}
    /\ Goto("wait")
    /\ UNCHANGED <<init_vars, cmd, base, port, req, header, fis, prdt, tfes, done>>

PortHung == pc = "spin" /\ GiveUp("port hung")

\* Polls PxCI, then PxIS.
CommandDone ==
    /\ pc = "wait"
    /\ cmd_issue = {}
    /\ Goto("idle")
    /\ UNCHANGED <<init_vars, cmd, base, port, request_vars>>

CommandFailed_Ignored == pc = "wait" /\ cmd_issue # {} /\ tfes /\ UNCHANGED ahciVars
CommandFailed == pc = "wait" /\ cmd_issue # {} /\ tfes /\ GiveUp("failed to read")

-----------------------------------------------------------------------------
(* The controller.                                                         *)

\* CR follows ST and FR follows FRE.
EngineFollows(p, order, report) ==
    /\ (order \in cmd[p]) # (report \in cmd[p])
    /\ cmd' = [cmd EXCEPT ![p] = IF order \in @ THEN @ \cup {report} ELSE @ \ {report}]
    /\ UNCHANGED <<init_vars, base, pc, port, request_vars>>

Processing == cmd_issue # {} /\ "CR" \in cmd[port] /\ ~tfes

\* The entry and the place in it for the next sector.
EntryFor(k) == IF k \div EntrySectors < header.prdt_len THEN k \div EntrySectors + 1
               ELSE header.prdt_len
PlaceFor(k) == k - (EntryFor(k) - 1) * EntrySectors

\* What the drive reads from the command.
Lba == fis.lba[0] + fis.lba[1] * Place(Octet, 1) + fis.lba[2] * Place(Octet, 2)
           + fis.lba[3] * Place(Octet, 3) + fis.lba[4] * Place(Octet, 4) + fis.lba[5] * Place(Octet, 5)
Count == fis.count[0] + fis.count[1] * Octet

\* Whether the drive and the header agree on the direction.
Writes == fis.cmd = "ATA_CMD_WRITE_DMA_EXT"
Moved(write, disk, memory) == [write |-> write, disk |-> disk, memory |-> memory]

TransferSector ==
    LET k == Len(done)
    IN  /\ Processing
        /\ k < Count /\ Writes = header.write
        /\ PlaceFor(k) < prdt[EntryFor(k)].sectors
        /\ done' = Append(done, Moved(Writes, Lba + k, prdt[EntryFor(k)].start + PlaceFor(k)))
        /\ UNCHANGED <<init_vars, cmd, base, pc, port, req, header, fis, prdt, cmd_issue, tfes>>

\* The drive has sent every sector, or there is no room for more.
CompleteCommand ==
    LET k == Len(done)
    IN  /\ Processing
        /\ k = Count \/ Writes # header.write \/ PlaceFor(k) >= prdt[EntryFor(k)].sectors
        /\ cmd_issue' = {}
        /\ UNCHANGED <<init_vars, cmd, base, pc, port, req, header, fis, prdt, tfes, done>>

FailCommand ==
    /\ Processing
    /\ tfes' = TRUE
    /\ UNCHANGED <<init_vars, cmd, base, pc, port, req, header, fis, prdt, cmd_issue, done>>

-----------------------------------------------------------------------------
Driver ==
    \/ NextPort \/ AllPortsDone \/ stop_cmd \/ StopDone \/ AllocDma \/ AllocDmaFails
    \/ SetBases \/ SetTable \/ NoPhysicalAddress \/ StartDone \/ start_cmd
    \/ DescribeBuffer \/ IssueCommand \/ PortHung \/ CommandDone \/ CommandFailed

Request == \E d \in DOMAIN devices, sector \in Sectors, count \in Counts, buffer \in Buffers,
              write \in BOOLEAN :
               read_write_sectors(d, sector, count, buffer, write)

Engines == \E p \in Ports : EngineFollows(p, "ST", "CR") \/ EngineFollows(p, "FRE", "FR")

Controller == Engines \/ TransferSector \/ CompleteCommand \/ FailCommand

Stopped == (pc \in Stops \/ (pc = "idle" /\ devices = <<>>)) /\ UNCHANGED ahciVars

AhciNext == Driver \/ Request \/ Controller \/ Stopped

\* The driver runs alone on the processor; the engines follow their bits, and
\* a command that was fetched is worked off.
AhciSpec ==
    /\ AhciInit /\ [][AhciNext]_ahciVars
    /\ WF_ahciVars(Driver)
    /\ \A p \in Ports : /\ WF_ahciVars(EngineFollows(p, "ST", "CR"))
                        /\ WF_ahciVars(EngineFollows(p, "FRE", "FR"))
    /\ WF_ahciVars(TransferSector \/ CompleteCommand \/ FailCommand)

-----------------------------------------------------------------------------
(* Properties.                                                             *)

\* The driver's and the controller's data have their types.
AhciTypeOK ==
    /\ cmd_slots \in SlotCounts
    /\ drives \subseteq Ports
    /\ cmd \in [Ports -> SUBSET PORT_CMD]
    /\ base \in [Ports -> BOOLEAN]
    /\ devices \in Seq(drives)
    /\ pc \in Stops \cup {"next port", "stop", "stop fre", "stop wait", "allocate", "set bases",
                          "tables", "start fre", "start st", "idle", "describe", "spin", "wait"}
    /\ port \in Ports \cup {NoPort}
    /\ dma \in [pages : Nat, offset : Nat]
    /\ tables \in Seq(Nat) /\ Len(tables) <= cmd_slots
    /\ req \in [sector : {0} \cup Sectors, count : {0} \cup Counts, buffer : {<<>>} \cup Buffers,
                write : BOOLEAN, slot : 0 .. cmd_slots - 1]
    /\ header \in CMDHeader /\ fis \in FISRegH2D
    /\ prdt \in CMDTable /\ Len(prdt) <= PRDT_LEN
    /\ cmd_issue \subseteq 0 .. cmd_slots - 1
    /\ tfes \in BOOLEAN
    /\ done \in Seq([write : BOOLEAN, disk : Nat, memory : Nat])

\* The bases of a port change only while neither its command engine nor its
\* FIS receive engine runs, also when the firmware has left them running.
BasesChangeWhenStopped ==
    [][\A p \in Ports : base'[p] # base[p] => {"CR", "FR"} \cap cmd[p] = {}]_ahciVars

\* After initialisation the devices are the ports with a drive, in order and
\* each once, with their bases set and their engines ordered to run.
EveryDriveReady ==
    pc = "idle" => /\ ToSet(devices) = drives
                   /\ \A k, l \in DOMAIN devices : k < l => devices[k] < devices[l]
                   /\ \A p \in drives : base[p] /\ {"ST", "FRE"} \subseteq cmd[p]

\* When read_write_sectors returns, every sector asked for has been moved, in
\* the direction asked for, between its place on the drive and the place where
\* the caller's buffer has it, for every count up to a full PRDT and every
\* sector that 48 bits can name.
TransferExact ==
    /\ AhciTypeOK
    /\ pc = "idle" /\ devices # <<>> =>
           done = [k \in 1 .. req.count |-> Moved(req.write, req.sector + k - 1, BufferSector(k - 1))]

\* Every request comes to an end, successful or with an assertion.
RequestEnds == pc = "describe" ~> pc = "idle" \/ pc \in Stops
=============================================================================
