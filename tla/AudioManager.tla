---------------------------- MODULE AudioManager ----------------------------
(***************************************************************************)
(* The manager and the adapters of the audio passthrough HAL:              *)
(* audio_manager.c, audio_adapter.c and audio_adapter_info_common.c.  The  *)
(* sound cards are read from a configuration file, three libraries are     *)
(* opened, adapters are loaded and streams created on them, and the        *)
(* address of each of these objects is kept in a list of fixed size that   *)
(* every later call is checked against.  An address is used again as soon  *)
(* as its object is freed.  The inside of a stream is module AudioStream.  *)
(***************************************************************************)
EXTENDS Integers, FiniteSets, Sequences

CONSTANTS
    Configs,                  \* configuration files: sequences of cards
    SUPPORT_ADAPTER_NUM_MAX,  \* sound cards supported
    MaxAddr                   \* addresses the allocator hands out

SUPPORT_PORT_NUM_MAX == 4
SUPPORT_PORT_ID_MAX == 41
AUDIO_PRIMARY_ID == 0..10
AUDIO_PRIMARY_EXT_ID == 11..20
AUDIO_USB_ID == 21..30
AUDIO_A2DP_ID == 31..40

Addr == 1..MaxAddr
Libraries == <<"capture", "render", "pathselect">>
Streams == {"render", "capture"}

VARIABLES
    config,  \* the configuration file
    mgr,     \* is the manager constructed, the cards parsed, the table of functions in use
    libs,    \* libraries held open
    json,    \* has the path selection library parsed its own configuration?
    fuzz,    \* g_fuzzCheckFlag: are addresses checked?
    list,    \* g_localAudioAddrList
    heap,    \* the object at each address
    left     \* objects whose owner was freed or released under them

vars == <<config, mgr, libs, json, fuzz, list, heap, left>>

------------------------------------------------------------------------------
(***************************************************************************)
(* The configuration.  A card has a name, the kind its name begins with, a *)
(* claimed number of ports and the ports themselves.                       *)
(***************************************************************************)
AudioAdapterCheckName(card) == card.wellNamed

AudioAdapterCheckPortFlow(name) == name \in {"AIP", "AOP", "AIOP"}

AudioAdapterGetDir(dir) == dir \in {"PORT_OUT", "PORT_IN", "PORT_OUT_IN"}

AudioAdapterParsePort(port) ==
    /\ AudioAdapterGetDir(port.dir)
    /\ port.id \in 0..SUPPORT_PORT_ID_MAX
    /\ AudioAdapterCheckPortFlow(port.name)

MatchAdapterType(kind, id) ==
    CASE kind = "primary" -> IF id \in AUDIO_PRIMARY_ID THEN "PRIMARY" ELSE "PRIMARY_EXT"
      [] kind = "usb" -> "USB"
      [] kind = "a2dp" -> "A2DP"
      [] OTHER -> "MAX"

\* Mutant: the port of an extension card may have any supported number.
CheckPortIdExtended(kind, id) ==
    CASE MatchAdapterType(kind, id) = "PRIMARY" -> id \in AUDIO_PRIMARY_ID
      [] MatchAdapterType(kind, id) = "PRIMARY_EXT" -> id >= 11
      [] MatchAdapterType(kind, id) = "USB" -> id \in AUDIO_USB_ID
      [] MatchAdapterType(kind, id) = "A2DP" -> id \in AUDIO_A2DP_ID
      [] OTHER -> FALSE

AudioAdapterCheckPortId(kind, id) ==
    CASE MatchAdapterType(kind, id) = "PRIMARY" -> id \in AUDIO_PRIMARY_ID
      [] MatchAdapterType(kind, id) = "PRIMARY_EXT" -> id \in AUDIO_PRIMARY_EXT_ID
      [] MatchAdapterType(kind, id) = "USB" -> id \in AUDIO_USB_ID
      [] MatchAdapterType(kind, id) = "A2DP" -> id \in AUDIO_A2DP_ID
      [] OTHER -> FALSE

AudioAdapterParsePorts(card) ==
    /\ card.portNum \in 1..SUPPORT_PORT_NUM_MAX
    /\ Len(card.ports) = card.portNum
    /\ \A i \in 1..card.portNum :
        /\ AudioAdapterParsePort(card.ports[i])
        /\ AudioAdapterCheckPortId(card.kind, card.ports[i].id)

AudioAdapterParseAdapter(card) == AudioAdapterCheckName(card) /\ AudioAdapterParsePorts(card)

AudioAdaptersGetConfigToJsonObj(file) == file.adapterNum \in 1..SUPPORT_ADAPTER_NUM_MAX

AudioAdaptersSetAdapter(file) == \A i \in 1..file.adapterNum : AudioAdapterParseAdapter(file.cards[i])

\* The whole file is refused for one bad card.
Accepted(file) ==
    /\ AudioAdaptersGetConfigToJsonObj(file)
    /\ Len(file.cards) = file.adapterNum
    /\ AudioAdaptersSetAdapter(file)

Cards == 1..Len(config.cards)

AudioAdapterExist(name) == mgr.parsed /\ \E c \in Cards : config.cards[c].name = name

------------------------------------------------------------------------------
(***************************************************************************)
(* The list of addresses.                                                  *)
(***************************************************************************)
\* Mutant: the list has room for the adapters and one stream of each.
TwoForEach == SUPPORT_ADAPTER_NUM_MAX * 2
MAX_ADDR_RECORD_NUM == SUPPORT_ADAPTER_NUM_MAX * 3

Slots == 1..MAX_ADDR_RECORD_NUM
Unused == [addr |-> 0, type |-> "INVALID", name |-> "none"]
First(slots) == CHOOSE s \in slots : \A t \in slots : s <= t

AudioAdapterAddrMgrInit == [s \in Slots |-> Unused]

\* An adapter is listed once for a name, in a slot that has neither a name
\* nor an address.
AudioAddAdapterAddrToList(a, name) ==
    LET free == {s \in Slots : list[s].name = "none" /\ list[s].type = "INVALID"}
    IN  IF (\E s \in Slots : list[s].name = name) \/ free = {}
        THEN list
        ELSE [list EXCEPT ![First(free)] = [addr |-> a, type |-> "adapter", name |-> name]]

AddStream(a, type) ==
    LET free == {s \in Slots : list[s].addr = 0}
    IN  IF free = {} THEN list
        ELSE [list EXCEPT ![First(free)].addr = a, ![First(free)].type = type]

AudioAddRenderAddrToList(a) == AddStream(a, "render")
AudioAddCaptureAddrToList(a) == AddStream(a, "capture")

Listed(a, type) == \E s \in Slots : list[s].addr = a /\ list[s].type = type

AudioCheckAdapterAddr(a) == ~fuzz \/ Listed(a, "adapter")
AudioCheckRenderAddr(a) == ~fuzz \/ Listed(a, "render")
AudioCheckCaptureAddr(a) == ~fuzz \/ Listed(a, "capture")

\* The first slot with the address and the type is emptied.
Deleted(a, type) ==
    LET at == {s \in Slots : list[s].addr = a /\ list[s].type = type}
    IN  IF at = {} THEN list ELSE [list EXCEPT ![First(at)] = Unused]

AudioDelAdapterAddrFromList(a) == Deleted(a, "adapter")
AudioDelRenderAddrFromList(a) == Deleted(a, "render")
AudioDelCaptureAddrFromList(a) == Deleted(a, "capture")

------------------------------------------------------------------------------
(***************************************************************************)
(* The heap.                                                               *)
(***************************************************************************)
Nothing == [kind |-> "none", card |-> 0, owner |-> 0, ports |-> FALSE,
            mode |-> "none", flag |-> [s \in Streams |-> 0]]
Adapter(card) == [Nothing EXCEPT !.kind = "adapter", !.card = card]
StreamOf(owner, kind) == [Nothing EXCEPT !.kind = kind, !.owner = owner]

Live(a, kind) == heap[a].kind = kind
Free == {a \in Addr : Live(a, "none")}
AllLive == Addr \ Free

\* What callers pass: any address while addresses are checked, otherwise, as
\* the server does, an object of the kind that they were given.
Handles(kind) == IF fuzz THEN Addr ELSE {a \in Addr : Live(a, kind)}

Init ==
    /\ config \in Configs
    /\ mgr = [made |-> FALSE, parsed |-> FALSE, usable |-> FALSE]
    /\ libs = {}
    /\ json = FALSE
    /\ fuzz \in BOOLEAN
    /\ list = AudioAdapterAddrMgrInit
    /\ heap = [a \in Addr |-> Nothing]
    /\ left = {}

------------------------------------------------------------------------------
(***************************************************************************)
(* The manager.                                                            *)
(***************************************************************************)
\* The list is emptied when the manager is constructed, also after a release.
GetAudioManagerFuncs ==
    /\ mgr' = [mgr EXCEPT !.made = TRUE]
    /\ list' = IF mgr.made THEN list ELSE AudioAdapterAddrMgrInit
    /\ UNCHANGED <<config, libs, json, fuzz, heap, left>>

\* A library that is open already is not opened again; its file stays.
Opens(lib, ok) == IF ok \/ lib \in libs THEN {lib} ELSE {}
InitCaptureSoHandle(ok) == Opens("capture", ok)
InitRenderSoHandle(ok) == Opens("render", ok)
InitPathSelectSoHandle(ok) == Opens("pathselect", ok)

\* Mutant: the path selection parses its configuration again on every call.
PathSelParsesAlways(ok) == ok

\* The configuration of the path selection is parsed once.
AudioPathSelGetConfToJsonObj(ok) == ok \/ json

\* The cards are parsed once.  The libraries opened so far are closed again
\* when a later one cannot be opened or the paths cannot be parsed; the card
\* descriptors stay, so adapters can be loaded after a failed call.  Callers
\* load adapters only after a call that succeeded.  fails names the first of its
\* steps that fails, if it is one that still can.
AudioManagerGetAllAdapters ==
    /\ mgr.made
    /\ \E fails \in {"nothing", "memory", "capture", "render", "path", "parse"} :
        LET parsed == mgr.parsed \/ (fails # "memory" /\ Accepted(config))
            c == InitCaptureSoHandle(fails # "capture")
            r == InitRenderSoHandle(fails # "render")
            p == InitPathSelectSoHandle(fails # "path")
            j == AudioPathSelGetConfToJsonObj(fails # "parse")
        IN  /\ mgr' = [mgr EXCEPT !.parsed = parsed,
                                  !.usable = parsed /\ c # {} /\ r # {} /\ p # {} /\ j]
            /\ libs' = CASE ~parsed -> libs
                         [] parsed /\ c = {} -> libs
                         [] parsed /\ c # {} /\ r = {} -> libs \ {"capture"}
                         [] parsed /\ c # {} /\ r # {} /\ p = {} -> libs \ {"capture", "render"}
                         [] parsed /\ c # {} /\ r # {} /\ p # {} /\ ~j -> {}
                         [] OTHER -> c \cup r \cup p
            /\ json' = (json \/ (parsed /\ c # {} /\ r # {} /\ p # {} /\ j))
    /\ UNCHANGED <<config, fuzz, list, heap, left>>

\* An adapter object is made for the cards on board and on USB.  It is freed
\* again when the list refuses it.
Load(card) ==
    LET a == First(Free)
        listed == AudioAddAdapterAddrToList(a, config.cards[card].name)
    IN  /\ Free # {}
        /\ list' = listed
        /\ heap' = IF listed = list THEN heap ELSE [heap EXCEPT ![a] = Adapter(card)]
        /\ UNCHANGED <<config, mgr, libs, json, fuzz, left>>

loadAdapterPrimary(card) == Load(card)
loadAdapterUsb(card) == Load(card)

\* A Bluetooth card reports success and makes no adapter.
loadAdapterA2dp(card) == UNCHANGED vars

selectAppropriateAdapter(type, card) ==
    \/ type \in {"PRIMARY", "PRIMARY_EXT"} /\ loadAdapterPrimary(card)
    \/ type = "USB" /\ loadAdapterUsb(card)
    \/ type = "A2DP" /\ loadAdapterA2dp(card)

AudioManagerLoadAdapter(card) ==
    /\ mgr.made /\ mgr.usable
    /\ AudioAdapterExist(config.cards[card].name)
    /\ selectAppropriateAdapter(
            MatchAdapterType(config.cards[card].kind, config.cards[card].ports[1].id), card)

\* Mutant: the adapter is freed and stays listed.
UnloadListed(a) ==
    /\ mgr.made
    /\ a \in Handles("adapter") /\ AudioCheckAdapterAddr(a)
    /\ heap' = [heap EXCEPT ![a] = Nothing]
    /\ left' = (left \ {a}) \cup {s \in AllLive : heap[s].owner = a}
    /\ UNCHANGED <<config, mgr, libs, json, fuzz, list>>

\* The streams of the adapter are not looked at.
AudioManagerUnloadAdapter(a) ==
    /\ mgr.made
    /\ a \in Handles("adapter") /\ AudioCheckAdapterAddr(a)
    /\ list' = AudioDelAdapterAddrFromList(a)
    /\ heap' = [heap EXCEPT ![a] = Nothing]
    /\ left' = (left \ {a}) \cup {s \in AllLive : heap[s].owner = a}
    /\ UNCHANGED <<config, mgr, libs, json, fuzz>>

\* The descriptors are freed and the function table is cleared, with adapters
\* loaded or not.
ReleaseAudioManagerObjectComm == [mgr EXCEPT !.parsed = FALSE, !.usable = FALSE]

ReleaseAudioManagerObject ==
    /\ mgr.made
    /\ mgr' = [ReleaseAudioManagerObjectComm EXCEPT !.made = FALSE]
    /\ left' = left \cup AllLive
    /\ UNCHANGED <<config, libs, json, fuzz, list, heap>>

\* The server turns the checks off once it has listed the cards.
AudioSetFuzzCheckFlag ==
    /\ mgr.usable /\ left = {}
    /\ fuzz' = FALSE
    /\ UNCHANGED <<config, mgr, libs, json, list, heap, left>>

------------------------------------------------------------------------------
(***************************************************************************)
(* An adapter: its ports and its streams.                                  *)
(***************************************************************************)
InitPortForCapabilitySub(port) ==
    port.id \in AUDIO_PRIMARY_ID \cup AUDIO_USB_ID \cup AUDIO_PRIMARY_EXT_ID

InitForGetPortCapability(port) == port.dir # "PORT_OUT" \/ InitPortForCapabilitySub(port)

PortsOf(a) == IF ~Live(a, "adapter") THEN {} ELSE {config.cards[heap[a].card].ports[i] : i \in 1..config.cards[heap[a].card].portNum}

AudioAdapterInitAllPorts(a) ==
    /\ a \in Handles("adapter") /\ AudioCheckAdapterAddr(a) /\ a \notin left
    /\ ~heap[a].ports
    /\ \A p \in PortsOf(a) : InitForGetPortCapability(p)
    /\ heap' = [heap EXCEPT ![a].ports = TRUE, ![a].mode = "LPCM"]
    /\ UNCHANGED <<config, mgr, libs, json, fuzz, list, left>>

\* The only mode a port offers is the one it has.
AudioAdapterSetPassthroughMode(a, port, mode) ==
    /\ a \in Handles("adapter") /\ AudioCheckAdapterAddr(a) /\ a \notin left
    /\ port \in PortsOf(a) /\ port.dir = "PORT_OUT" /\ port.name = "AOP"
    /\ heap[a].ports
    /\ mode = "LPCM"
    /\ heap' = [heap EXCEPT ![a].mode = mode]
    /\ UNCHANGED <<config, mgr, libs, json, fuzz, list, left>>

AudioAdapterGetPortCapability(a, port) ==
    /\ AudioCheckAdapterAddr(a) /\ heap[a].ports
    /\ \E p \in PortsOf(a) : p.id = port.id

AudioAdapterGetPassthroughMode(a, port) ==
    /\ port.dir = "PORT_OUT" /\ port.name = "AOP"
    /\ AudioAdapterGetPortCapability(a, port)

\* The port asked for must be the first of the first card of that name.
AudioCheckDescPortId(card, id) ==
    LET same == {c \in Cards : config.cards[c].name = config.cards[card].name}
    IN  mgr.parsed /\ config.cards[First(same)].ports[1].id = id

AudioMakeCardServiceName(card, id) ==
    /\ AudioCheckDescPortId(card, id)
    /\ config.cards[card].kind \in {"primary", "usb", "a2dp"}

AudioSetAcodeModeRender(id) == id \in AUDIO_PRIMARY_ID \cup AUDIO_USB_ID \cup AUDIO_PRIMARY_EXT_ID
AudioSetAcodeModeCapture(id) == AudioSetAcodeModeRender(id)

\* What the two creations share.  A stream of the kind must not exist yet, its
\* library must be open, and the object is freed again whatever step fails:
\* the parameters, the path, binding the services, opening the device, its
\* codec, scene, attributes, threshold and preparation, and the list.
Create(a, kind, acodec(_), listed(_)) ==
    /\ a \in Handles("adapter") /\ AudioCheckAdapterAddr(a) /\ a \notin left
    /\ heap[a].flag[kind] = 0
    /\ kind \in libs
    /\ Free # {}
    /\ LET s == First(Free)
       IN  \E id \in {p.id : p \in PortsOf(a)}, driver \in BOOLEAN :
            LET bound == AudioMakeCardServiceName(heap[a].card, id) /\ acodec(id) /\ driver
            IN  /\ list' = IF bound THEN listed(s) ELSE list
                /\ heap' = IF list' = list THEN heap
                           ELSE [heap EXCEPT ![s] = StreamOf(a, kind), ![a].flag[kind] = @ + 1]
    /\ UNCHANGED <<config, mgr, libs, json, fuzz, left>>

AudioAdapterCreateRender(a) ==
    Create(a, "render", AudioSetAcodeModeRender, AudioAddRenderAddrToList)
AudioAdapterCreateCapture(a) ==
    Create(a, "capture", AudioSetAcodeModeCapture, AudioAddCaptureAddrToList)

\* Callers destroy a stream through the adapter that made it.  Stopping and
\* closing the driver may fail; the stream goes all the same.
Destroy(a, s, kind, delisted(_)) ==
    /\ kind \in libs
    /\ list' = delisted(s)
    /\ heap' = [heap EXCEPT ![s] = Nothing,
                            ![a].flag[kind] = IF @ > 0 THEN @ - 1 ELSE @]
    /\ left' = left \ {s}
    /\ UNCHANGED <<config, mgr, libs, json, fuzz>>

\* Mutant: the adapter's count is not taken back.
DestroyRenderCounted(a, s) ==
    /\ AudioCheckAdapterAddr(a) /\ AudioCheckRenderAddr(s) /\ s \in Handles("render") \ left
    /\ list' = AudioDelRenderAddrFromList(s)
    /\ heap' = [heap EXCEPT ![s] = Nothing]
    /\ UNCHANGED <<config, mgr, libs, json, fuzz, left>>

AudioAdapterDestroyRender(a, s) ==
    /\ AudioCheckAdapterAddr(a) /\ AudioCheckRenderAddr(s) /\ s \in Handles("render") \ left
    /\ Destroy(a, s, "render", AudioDelRenderAddrFromList)

AudioAdapterDestroyCapture(a, s) ==
    /\ AudioCheckAdapterAddr(a) /\ AudioCheckCaptureAddr(s) /\ s \in Handles("capture") \ left
    /\ Destroy(a, s, "capture", AudioDelCaptureAddrFromList)

Next ==
    \/ GetAudioManagerFuncs \/ AudioManagerGetAllAdapters \/ ReleaseAudioManagerObject
    \/ AudioSetFuzzCheckFlag
    \/ \E c \in Cards : AudioManagerLoadAdapter(c)
    \/ \E a \in Addr :
        \/ AudioManagerUnloadAdapter(a)
        \/ AudioAdapterInitAllPorts(a)
        \/ \E p \in PortsOf(a) : AudioAdapterSetPassthroughMode(a, p, "LPCM")
        \/ AudioAdapterCreateRender(a) \/ AudioAdapterCreateCapture(a)
        \/ \E s \in {s \in Addr : heap[s].owner = a} :
            AudioAdapterDestroyRender(a, s) \/ AudioAdapterDestroyCapture(a, s)

Spec == Init /\ [][Next]_vars

------------------------------------------------------------------------------
\* The address checks can be relied on: an address the list has for an
\* adapter, a render or a capture is a live object of that kind although
\* addresses are used again; every object not left behind is listed; and an
\* adapter counts its live streams.
AddressesAreTrue ==
    /\ \A s \in Slots : list[s].type # "INVALID" => Live(list[s].addr, list[s].type)
    /\ \A a \in AllLive \ left : Listed(a, heap[a].kind)
    /\ \A a \in AllLive \ left : Live(a, "adapter") =>
        \A k \in Streams : heap[a].flag[k] = Cardinality({s \in Addr \ left : Live(s, k) /\ heap[s].owner = a})

\* While nothing was left behind the list is large enough: every card not yet
\* loaded, with its two streams, and every stream an adapter can still make
\* has a slot.
RoomForEveryStream ==
    LET streams == {<<a, k>> \in Addr \X Streams : Live(a, "adapter") /\ heap[a].flag[k] = 0}
        loaded == {list[s].name : s \in Slots}
        cards == {config.cards[c].name : c \in Cards} \ loaded
        free == {s \in Slots : list[s].addr = 0}
    IN  left = {} /\ mgr.usable => Cardinality(free) >= Cardinality(streams) + 3 * Cardinality(cards)

\* No library is closed under an adapter that was loaded while it was open: a
\* later GetAllAdapters that fails on a library already open cannot happen.
LibraryHeld == (\E a \in Addr : Live(a, "adapter")) => \A i \in 1..3 : Libraries[i] \in libs

\* The ports of every adapter that can be loaded can be initialised: the
\* numbers the configuration parser lets through are those the capability
\* table knows.  Once they are, the adapter answers for each of them.
PortsAreSupported ==
    \A a \in AllLive \ left : Live(a, "adapter") => \A p \in PortsOf(a) :
        /\ InitForGetPortCapability(p)
        /\ heap[a].ports => AudioAdapterGetPortCapability(a, p)
        /\ heap[a].ports /\ p.dir = "PORT_OUT" /\ p.name = "AOP" => AudioAdapterGetPassthroughMode(a, p)
=============================================================================
