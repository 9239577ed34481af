---------------------------- MODULE MCComponents ----------------------------
(***************************************************************************)
(* Components that do not interact, model-checked side by side: part says  *)
(* which of them runs, and the variables of the others keep one value.     *)
(***************************************************************************)
EXTENDS UsbdBulk, Lifecycle

CONSTANTS
    Callers, Funcs, Roles,              \* UsbdRole
    Adapters, Renders, MaxPending,      \* BtAudio
    Rates, Scenes, Periods, ERROR_LOG_MAX_NUM, SEC_TO_NSEC, MaxMoves, MaxErrors, MaxMaps,
                                        \* AudioStream
    Configs, SUPPORT_ADAPTER_NUM_MAX, MaxAddr,
                                        \* AudioManager
    Thread, Priorities, StreamId, AdapterId
                                        \* AudioServer

VARIABLES
    part,
    currentFuncs, port, device, subscriber, work, odd,      \* UsbdRole
    adapter, render, playState, host, strayed,              \* BtAudio
    hal, drv, told, moved,                                  \* AudioStream
    config, mgr, libs, json, fuzz, list, heap, left,        \* AudioManager
    server, table, row, loaded, streams, call, held, has, pnp, tag, served
                                                            \* AudioServer

roleVars == <<currentFuncs, port, device, subscriber, work, odd>>
btVars == <<adapter, render, playState, host, strayed>>
streamVars == <<hal, drv, told, moved>>
managerVars == <<config, mgr, libs, json, fuzz, list, heap, left>>
serverVars == <<server, table, row, loaded, streams, call, held, has, pnp, tag, served>>
vars == <<part, bulkVars, roleVars, btVars, streamVars, managerVars, serverVars, lifeVars>>

Parts == {"bulk", "role", "bluetooth", "render", "capture", "manager", "server", "life"}

Role == INSTANCE UsbdRole
Bluetooth == INSTANCE BtAudio
Render == INSTANCE AudioStream WITH Stream <- "render", ghost <- moved
Capture == INSTANCE AudioStream WITH Stream <- "capture", ghost <- moved
Manager == INSTANCE AudioManager
Server == INSTANCE AudioServer WITH ghost <- served

AudioThreads == {<<1, 1>>, <<2, 1>>}

SomeFuncs == {{"hdc", "acm"}, {"ecm"}, {"hdc", "acm", "ecm"}}
SomeRoles == {<<"source", "host">>, <<"sink", "device">>}

------------------------------------------------------------------------------
\* Sound cards: one on the board with its first port at each end of the range of
\* the extended numbers, USB and Bluetooth cards at and beyond the ends of
\* theirs, and files that are refused.
Port(way, id, name) == [dir |-> way, id |-> id, name |-> name]
Out(id) == Port("PORT_OUT", id, "AOP")
In(id) == Port("PORT_IN", id, "AIP")
Card(name, kind, wellNamed, portNum, ports) ==
    [name |-> name, kind |-> kind, wellNamed |-> wellNamed, portNum |-> portNum, ports |-> ports]
File(adapterNum, cards) == [adapterNum |-> adapterNum, cards |-> cards]

SoundCards ==
    {File(1, <<Card("primary_ext", "primary", TRUE, 1, <<Out(p)>>)>>) : p \in {11, 20, 21, 31}}
    \cup {File(2, <<Card("usb", "usb", TRUE, 1, <<Out(u)>>),
                    Card("a2dp", "a2dp", TRUE, 1, <<Out(40)>>)>>) : u \in {20, 21, 30, 31}}
    \cup {File(2, <<Card("primary", "primary", TRUE, 2, <<Out(1), In(10)>>),
                    Card("usb", "usb", TRUE, 1, <<Out(25)>>)>>),
          File(1, <<Card("primary", "primary", TRUE, 2, <<Out(1)>>)>>),
          File(3, <<Card("primary", "primary", TRUE, 1, <<Out(1)>>)>>),
          File(1, <<Card("hdmi", "other", TRUE, 1, <<Out(1)>>)>>),
          File(1, <<Card("primary", "primary", FALSE, 1, <<Out(1)>>)>>)}

------------------------------------------------------------------------------
\* The parts of the system that are modelled by what they do with resources.
Functions == INSTANCE Cdc
ConfigFs == INSTANCE UsbFnAdapter
FnManager == INSTANCE UsbFnManager
FConfig == INSTANCE UsbFnAdapterLiteos
Serial == INSTANCE UsbSerial
RawSerial == INSTANCE UsbSerialRaw
RawApi == INSTANCE UsbRawApi
Liteos == INSTANCE UsbLiteosAdapter
Sdk == INSTANCE UsbSdk
Usbd == INSTANCE UsbdService

AllEntries ==
    [acm |-> Functions!AcmEntries, speed |-> Functions!AcmEntries, ecm |-> Functions!EcmEntries,
     configfs |-> ConfigFs!Entries, fnio |-> FnManager!IoEntries, master |-> FnManager!MasterEntries,
     fconfig |-> FConfig!Entries,
     serial |-> Serial!Entries, rawserial |-> RawSerial!Entries, ether |-> Serial!EcmEntries,
     rawapi |-> RawApi!Entries, liteos |-> Liteos!Entries, hostmem |-> RawApi!HostEntries,
     fnmem |-> RawApi!DeviceEntries, fnmemlite |-> RawApi!LiteosEntries, sdk |-> Sdk!Entries,
     usbd |-> Usbd!Entries]

AllLives ==
    [acm |-> Functions!AcmLives, speed |-> Functions!SpeedLives, ecm |-> Functions!EcmLives,
     configfs |-> ConfigFs!Lives, fnio |-> FnManager!IoLives, master |-> FnManager!MasterLives,
     fconfig |-> FConfig!Lives,
     serial |-> Serial!Lives, rawserial |-> RawSerial!Lives, ether |-> Serial!EcmLives,
     rawapi |-> RawApi!Lives, liteos |-> Liteos!Lives, hostmem |-> RawApi!MemLives,
     fnmem |-> RawApi!MemLives, fnmemlite |-> RawApi!MemLives, sdk |-> Sdk!Lives, usbd |-> Usbd!Lives]

AllUnits == DOMAIN AllLives

------------------------------------------------------------------------------
Init ==
    /\ part \in Parts
    /\ BulkInit /\ (part # "bulk" => dir = "read")
    /\ IF part = "role" THEN Role!RoleInit
       ELSE /\ currentFuncs = "none" /\ port = "none" /\ device = "none" /\ subscriber = "none"
            /\ work = "none" /\ odd = "none"
    /\ IF part = "bluetooth" THEN Bluetooth!BtInit
       ELSE adapter = "none" /\ render = "none" /\ playState = "none" /\ host = "none" /\ strayed = "none"
    /\ IF part = "render" THEN Render!Init
       ELSE IF part = "capture" THEN Capture!Init
       ELSE hal = "none" /\ drv = "none" /\ told = "none" /\ moved = "none"
    /\ IF part = "manager" THEN Manager!Init
       ELSE /\ config = "none" /\ mgr = "none" /\ libs = "none" /\ json = "none"
            /\ fuzz = "none" /\ list = "none" /\ heap = "none" /\ left = "none"
    /\ IF part = "server" THEN Server!ServerInit
       ELSE /\ server = "none" /\ table = "none" /\ row = "none" /\ loaded = "none"
            /\ streams = "none" /\ call = "none" /\ held = "none" /\ has = "none"
            /\ pnp = "none" /\ tag = "none" /\ served = "none"
    /\ IF part = "life" THEN LifeInit ELSE unit = "none" /\ phase = "none" /\ mem = "none"

Next ==
    \/ part = "bulk" /\ BulkNext
       /\ UNCHANGED <<part, roleVars, btVars, streamVars, managerVars, serverVars, lifeVars>>
    \/ part = "role" /\ Role!RoleNext
       /\ UNCHANGED <<part, bulkVars, btVars, streamVars, managerVars, serverVars, lifeVars>>
    \/ part = "bluetooth" /\ Bluetooth!BtNext
       /\ UNCHANGED <<part, bulkVars, roleVars, streamVars, managerVars, serverVars, lifeVars>>
    \/ part = "render" /\ Render!RenderNext
       /\ UNCHANGED <<part, bulkVars, roleVars, btVars, managerVars, serverVars, lifeVars>>
    \/ part = "capture" /\ Capture!CaptureNext
       /\ UNCHANGED <<part, bulkVars, roleVars, btVars, managerVars, serverVars, lifeVars>>
    \/ part = "manager" /\ Manager!Next
       /\ UNCHANGED <<part, bulkVars, roleVars, btVars, streamVars, serverVars, lifeVars>>
    \/ part = "server" /\ Server!ServerNext
       /\ UNCHANGED <<part, bulkVars, roleVars, btVars, streamVars, managerVars, lifeVars>>
    \/ part = "life" /\ LifeNext
       /\ UNCHANGED <<part, bulkVars, roleVars, btVars, streamVars, managerVars, serverVars>>

Spec == Init /\ [][Next]_vars

\* Bounds: a transfer whose cancellation gave up waiting is not followed; calls that
\* change the functions meet, or up to two kinds of step fail; the Bluetooth host goes
\* astray in one way at a time; a stream, started or not, has at most two of its
\* features away from where it began; at most one object is left behind, and none by
\* callers whose addresses are not checked.
\* The calls of the audio service that run at the same time are for one kind of stream,
\* on the card of the board; it is not followed after two calls changed a stream, or the
\* number of users, at the same time, a frame was late, or the driver was released.
Bound ==
    /\ part = "bulk" => ~ghost.late
    /\ part = "role" => Cardinality(odd.funcs \cup odd.port) <= (IF "overlap" \in odd.funcs THEN 1 ELSE 2)
    /\ part = "bluetooth" => Cardinality(strayed) <= 1
    /\ part = "render" => Render!Away <= 2
    /\ part = "capture" => Capture!Away <= 2
    /\ part = "manager" => Cardinality(left) <= (IF fuzz THEN 1 ELSE 0)
    /\ part = "server" =>
        /\ ~served.crossed /\ ~served.raced /\ ~served.late /\ ~served.recycled /\ ~served.outranked /\ ~served.outrun
        /\ served.mixed => row.render.status
        /\ server = "USB" => \A t \in Thread : call[t].at # "making"
        /\ \A t, u \in Thread : call[t].at # "idle" /\ call[u].at # "idle" => call[t].kind = call[u].kind

------------------------------------------------------------------------------
\* The functions and the port that the USB service reports are the device's, as
\* UsbdRole has it.
ReportedIsTrue == part = "role" => Role!ReportedIsTrue

\* The Bluetooth host plays exactly while the HAL has a stream started and not paused,
\* and an adapter knows whether it has a stream, as BtAudio has it.
HostPlays == part = "bluetooth" => Bluetooth!HostPlaysTheStreams /\ Bluetooth!OneStreamEach

\* What the audio HAL records of a stream is what the driver accepted and what the
\* caller was told, for a render and for a capture: controls, running, standby,
\* position, error log and mappings, as AudioStream has them.
StreamIsTrue ==
    /\ part = "render" =>
        /\ Render!InStep /\ Render!RunsAsTold /\ Render!StandbyAsAsked
        /\ Render!PositionIsTrue /\ Render!DumpIsFilled /\ Render!MapsAreGranted
    /\ part = "capture" =>
        /\ Capture!InStep /\ Capture!RunsAsTold /\ Capture!StandbyAsAsked
        /\ Capture!PositionIsTrue /\ Capture!DumpIsFilled /\ Capture!MapsAreGranted

\* The audio manager's address checks, room for streams, libraries and ports, as
\* AudioManager has them.
ManagerIsTrue ==
    part = "manager" =>
        /\ Manager!AddressesAreTrue /\ Manager!RoomForEveryStream
        /\ Manager!LibraryHeld /\ Manager!PortsAreSupported

\* The audio service's entry of a card, takeovers, frames, users of the adapter and
\* reports, as AudioServer has them.
ServerIsTrue == part = "server" => Server!ServerIsTrue

\* What the audio HAL and its service record is true of the streams, the adapters, the
\* drivers and the Bluetooth host, and what clients were told of them.
AudioIsTrue == HostPlays /\ StreamIsTrue /\ ManagerIsTrue /\ ServerIsTrue

------------------------------------------------------------------------------
\* What the code loses along some path, by the name that referred to it: on a
\* path with a failing call,
Leaks ==
    [acm |-> {"ctrlHandle", "ctrlInfo", "ctrlReq", "dataHandle", "notifyFlight", "notifyReq",
              "port.new", "readFifo", "readReq", "writeFifo", "writeReq"},
     speed |-> {"ctrlHandle", "ctrlInfo", "dataHandle", "g_req", "g_thread", "g_threadRead",
                "port.new"},
     ecm |-> {"ctrlHandle", "dataHandle", "ep0Req", "notifyFlight", "notifyReq", "port",
              "readFifo", "readReq", "writeFifo", "writeReq"},
     master |-> {"configs", "configs[0]", "des", "descriptors", "descriptors[0]", "descriptors[1]",
                 "devProp", "deviceDesc", "deviceStrings", "deviceStrings[0]",
                 "deviceStrings[0].strings", "deviceStrings[1]", "deviceStrings[1].strings",
                 "fnCfgPropMgr", "functions", "functions[0]", "functions[1]", "gadget", "prop",
                 "strings", "strings[0]", "strings[0].strings", "strings[1]", "strings[1].strings",
                 "thread"},
     fnio |-> {"ctrlReq", "fd0", "fd1", "funcMgr.fd", "mapAddr", "req", "reqEvent0"},
     configfs |-> {"dec", "dir", "ep", "fd", "function", "interface", "kernelFunction"},
     fconfig |-> {"config", "configFd", "configName.s", "function", "gadget", "gadgetName.s"},
     fnmem |-> {"g_usbRamTestHead", "testEntry"},
     fnmemlite |-> {"g_usbRamTestHead", "testEntry"},
     rawapi |-> {"configDescriptors", "descriptors", "extra", "fd", "interface0", "iso0", "iso1",
                 "pending", "pnpData", "pnpReply", "request.new"},
     liteos |-> {"configDescriptors", "descriptors", "isoUrbs", "osDev", "pending"},
     hostmem |-> {"g_usbRamTestHead", "testEntry"},
     sdk |-> {"device", "interface.ctrl", "interface.if", "ioAsyncReceiveProcess", "ioStopLock",
              "pipe.ctrl", "pipe.if", "pool"},
     serial |-> {"ctrlReq", "data", "notifyReq", "port.new", "readFifo", "wb.flight", "wb.use",
                 "wb0.request"},
     rawserial |-> {"ctrlReq", "ioThread", "notificationBuffer", "notifyReq", "port.new",
                    "readFifo", "readReq0", "readReq1", "wb.flight", "wb.use", "wb0.request"},
     ether |-> {"notifyReq", "readReq0", "readReq1", "wb.flight", "wb.use", "wb0.buf",
                "wb0.request", "wb1.buf", "wb1.request"},
     usbd |-> {"bulk.cb", "bulk.map", "cmdService", "ctrDevHandle", "ctrIface", "ctrPipe", "data",
               "fd", "g_usbPnpServ", "port", "readFifo", "remote.new", "remoteService", "reply",
               "sdk", "service", "subscriber", "usbPnpServ"}]

\* and although no call failed: requests in flight when the port is released, the
\* notification and control requests of the serial and ethernet drivers, the
\* property lists of a gadget's configuration, the entries of the memory tests, the
\* stop lock of a pool whose interfaces were never opened, and the subscriber and the
\* driver object of the USB service.
SmoothLeaks ==
    [acm |-> {"ctrlInfo", "ctrlReq", "notifyFlight", "notifyReq", "readFifo", "readReq",
              "writeFifo", "writeReq"},
     speed |-> {"g_req", "g_thread", "g_threadRead"},
     ecm |-> {"ep0Req", "notifyFlight", "notifyReq", "readFifo", "readReq", "writeFifo",
              "writeReq"},
     master |-> {"devProp", "deviceStrings[0].strings", "deviceStrings[1].strings", "prop",
                 "strings[0].strings", "strings[1].strings"},
     fnio |-> {"funcMgr.fd"},
     configfs |-> {"dir", "function", "interface"},
     fconfig |-> {"gadgetName.s"},
     fnmem |-> {"g_usbRamTestHead", "testEntry"},
     fnmemlite |-> {"g_usbRamTestHead", "testEntry"},
     rawapi |-> {},
     liteos |-> {},
     hostmem |-> {"g_usbRamTestHead", "testEntry"},
     sdk |-> {"ioStopLock"},
     serial |-> {"ctrlReq", "notifyReq", "readFifo", "wb.flight"},
     rawserial |-> {"ctrlReq", "notificationBuffer", "notifyReq", "readFifo", "wb.flight"},
     ether |-> {"notifyReq", "readReq0", "readReq1", "wb.flight", "wb0.buf", "wb0.request",
                "wb1.buf", "wb1.request"},
     usbd |-> {"readFifo", "remoteService", "service", "subscriber"}]

\* What is used, released or freed without being owned, or locked and not given
\* back, along some path.
Misuses ==
    [acm |-> {"ctrlHandle", "dataHandle", "port", "port.lock"},
     speed |-> {"ctrlHandle", "dataHandle", "port"},
     ecm |-> {"ctrlHandle", "dataHandle"},
     master |-> {"fnDevMgr"},
     fnio |-> {"fd0", "funcMgr.fd"},
     configfs |-> {"dir"},
     fconfig |-> {"fdEp0", "funcName.s", "str0", "str1"},
     fnmem |-> {"g_usbRamTestHead", "testEntry"},
     fnmemlite |-> {"g_usbRamTestHead", "testEntry"},
     rawapi |-> {"completed", "isoUrbs", "pending"},
     liteos |-> {"isoUrbs", "pending", "request", "urbs"},
     hostmem |-> {"g_usbRamTestHead"},
     sdk |-> {"interface.if", "ioStopLock"},
     serial |-> {"readLock"},
     rawserial |-> {"dataOutEp", "devHandle", "notifyEp"},
     ether |-> {"readReq0", "readReq1", "wb1.request"},
     usbd |-> {"asyncReq", "bulk.cb", "sdk"}]

\* Along every path through the entries of the USB stack, with every call failing or
\* not, what was acquired is given up or still referred to, but for the resources
\* that are known to be lost; and fewer are when no call fails.
NothingLeaks ==
    part = "life" =>
        \A f \in Lost : f[3] \in (IF mem.smooth THEN SmoothLeaks ELSE Leaks)[unit]

\* Nothing is used, released, freed or unlocked that is not owned, and no entry returns
\* with a lock taken, but for what is known to be.
NoMisuse == part = "life" => \A f \in Misused \cup Mislocked : f[3] \in Misuses[unit]
=============================================================================
