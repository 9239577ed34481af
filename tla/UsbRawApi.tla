----------------------------- MODULE UsbRawApi -------------------------------
(***************************************************************************)
(* The USB host stack on Linux, and the allocators of the host and the     *)
(* device stack.                                                           *)
(***************************************************************************)
EXTENDS Paths, TLC

------------------------------------------------------------------------------
(***************************************************************************)
(* The host stack's adapter to usbfs, usb/ddk/host/src/linux_adapter.c:    *)
(* what it owns for a device handle and for a request.  A long transfer    *)
(* has two URBs.  The flags urb0 and urb1 are the URBs the kernel has;     *)
(* numRetired counts the others, so it is numUrbs when neither is set.     *)
(* The resource "pending" is the completion that the request's owner is    *)
(* owed: it is released by the callback, and must be released once.        *)
(***************************************************************************)
Unless(r) == If(r, Never, Ok)
Either(F, G, H) == If("control", F, If("iso", G, H))
OsAdapterRealloc(ptr) == Local(<<"mem">>, Get("mem") & OnError(MayFail, Clear("mem")) & Free(ptr)
                               & Move("mem", ptr))

OsDevices ==
    LET OsDeviceCompare == Needs("listed")
    IN  [OsDeviceCompare |-> OsDeviceCompare,
         OsGetDeviceHandle |-> Locked("session.lock", OsDeviceCompare & Use("handle") & Set("twice")),
         OsCallocDeviceHandle |-> Get("handle"),
         OsAllocDevice |-> Use("handle") & Get("dev"),
         \* A node that is not there yet is tried once more.
         OsGetUsbFd |-> MayFail & Otherwise(Get("fd"), MayFail & Get("fd")),
         \* The buffer grows while the descriptors fill it; when it cannot, the result of
         \* the failed reallocation replaces the only reference to the old one.
         OsReadDescriptors |->
             LET Read == OnError(OsAdapterRealloc("descriptors"), Null("descriptors")) & Use("fd")
                     & MayFail
             IN  Read & May(Read)]

------------------------------------------------------------------------------
isoUrb == <<"iso0", "iso1">>

OsDeviceInit(api) ==
    LET OsParseConfigDescriptors == Use("descriptors") & May(Get("configDescriptors") & MayFail)
    IN  api @@
        [OsInitDevice |-> api.OsGetUsbFd & Heedless(Try("fd")) & api.OsReadDescriptors
         & OsParseConfigDescriptors & MayFail,
         OsGetActiveConfig |-> Needs("dev") & Try("fd"),
         OsFreeIsoUrbs |-> Use("isoUrbs") & Each(Clear, isoUrb) & Clear("isoUrbs")]

SyncRequestCallback == Use("completed") & Use("sem") & Set("posted")

\* A URB is the kernel's from the ioctl on: the reaper may have had the first one
\* before the second is submitted.
Submit(urb) == Use("fd") & MayFail & Set(urb)

Reaped == May(Unset("urb0"))
OnKernel(F) == Take("pending") & OnError(F, Give("pending"))

OsControlAndBulk ==
    \* The kernel gives discarded URBs back later.
    [OsDiscardUrbs |-> Use("fd") & If("iso", Use("isoUrbs"), If("urb", Use("urb"), Use("bulkUrb"))),
     OsSubmitControlRequest |->
         Use("fd") & Get("urb") & Unset("urbs")
         & OnKernel(OnError(If("urb0", Submit("urb1"), Submit("urb0")), Clear("urb"))),
     OsSubmitBulkRequestHandleUrb |-> MayFail]

OsSubmitBulkRequestHandle(api, numUrbs) ==
    OnKernel(api.OsSubmitBulkRequestHandleUrb & Submit("urb0"))
    & IF numUrbs = 1 THEN Ok
      ELSE Reaped & (Set("urb1") | May(Set("error")))

OsBulkAndIso(api) ==
    \* A request that is filled for a longer transfer gets a larger array.
    api @@
    [OsSubmitBulkRequest |->
         LET Two == Local(<<"urbs.new">>,
                          Heedless(Get("urbs.new")) & Clear("bulkUrb") & Unset("urbs")
                          & Needs("urbs.new")
                          & Move("urbs.new", "bulkUrb"))
             Ready == When("urb", Null("urb")) & Set("urbs") & Unset("error")
         IN  Use("fd") & MayFail
             & ((Two & Ready & OsSubmitBulkRequestHandle(api, 2))
                | (Needs("bulkUrb") & Ready & OsSubmitBulkRequestHandle(api, 1))),
     OsAllocIsoUrbs |-> OnError(Each(Get, isoUrb), api.OsFreeIsoUrbs),
     \* When the second URB cannot be submitted and the first has been reaped, the array
     \* goes, and not the URBs in it nor the request's reference to it.
     OsSubmitIsoUrbs |->
         OnError(OnKernel(Submit("urb0")), api.OsFreeIsoUrbs)
         & Reaped & (Set("urb1") | (Set("error") & If("urb0", Ok, Free("isoUrbs") & Unset("urbs"))))]

\* Whether every URB of the request has been retired.
Retired(F, G) == If("urb0", G, If("urb1", G, F))

\* An overflow completes the request whatever URBs are left; after other failures,
\* and after a short packet, the rest is discarded.
OsUrbStatusToRequestStatus(success, noDevice, failure) == success
    | (Set("error") & (noDevice | failure))

AdapterConfig(api) ==
    api @@
    [AdapterGetConfigDescriptor |-> Use("dev") & When("configDescriptors", Use("configDescriptors"))
     & MayFail,
     AdapterGetConfiguration |-> Needs("handle") & Use("dev") & api.OsGetActiveConfig,
     AdapterSetConfiguration |-> Needs("handle") & Use("dev") & Try("fd"),
     AdapterClaimInterface |-> Needs("handle") & Try("fd"),
     AdapterReleaseInterface |-> Needs("handle") & Try("fd"),
     AdapterSetInterface |-> Needs("handle") & Try("fd")]

AdapterSignals ==
    [OsSignalHandler |-> Ok,
     UsbAdapterGetOps |-> Ok,
     UsbAdapterGetTid |-> Ok,
     UsbAdapterRegisterSignal |-> MayFail,
     UsbAdapterKillSignal |-> MayFail]

FindNextDescriptor(F) == May(F)

DescriptorReads(api) ==
    api @@
    [GetConfigDescriptor |-> Needs("dev") & api.AdapterGetConfigDescriptor & MayFail,
     ParseDescriptor |-> Ok]

ClearEndpoint(i) == Clear(i[4])

\* What the descriptor of an endpoint carries is lost when it cannot be copied.
ParseEndpoint(api, i) ==
    MayFail & api.ParseDescriptor
    & FindNextDescriptor(Get("extra") & OnError(MayFail, Null("extra")) & Move("extra", i[4]))

\* An interface with its descriptor's extra bytes, its endpoints and theirs.
interfaces ==
    << <<"interface0", "extra0", "endPoint0", "endPoint0.extra">>,
       <<"interface1", "extra1", "endPoint1", "endPoint1.extra">> >>

ClearInterface(i) ==
    When(i[1], Clear(i[2]) & When(i[3], ClearEndpoint(i) & Clear(i[3])) & Clear(i[1]))

RawParseDescriptor(api) == api.ParseDescriptor & MayFail
ParseInterfaceCopy(i) == Get(i[2]) & MayFail
ParseInterfaceEndpoint(api, i) == May(Get(i[3]) & May(ParseEndpoint(api, i)))

ParseInterface(api, i) ==
    Use(i[1]) & MayFail
    & May(RawParseDescriptor(api) & FindNextDescriptor(ParseInterfaceCopy(i))
          & ParseInterfaceEndpoint(api, i))

inConfig == <<"config.extra", "interface0", "extra0", "endPoint0", "endPoint0.extra",
              "interface1", "extra1", "endPoint1", "endPoint1.extra">>

\* A request is filled between its transfers.
Fill(kind) ==
    Needs("request") & Use("request") & Needs("handle") & Unless("pending") & MayFail
    & Reset(<<"sync", "control", "iso">>) & kind

Lives ==
    {<<"new", "UsbRawInit", "session", "new">>,
     <<"session", "UsbRawInit", "session", "session">>,
     <<"session", "RawInitPnpService", "session", "session">>,
     <<"session", "UsbRawOpenDevice", "open", "session">>,
     <<"open", "UsbRawOpenDevice", "open", "open">>,
     <<"open", "Device", "open", "open">>,
     <<"open", "UsbRawGetConfigDescriptor", "config", "open">>,
     <<"config", "UsbRawFreeConfigDescriptor", "open", "open">>,
     <<"open", "UsbRawAllocRequest", "request", "open">>,
     <<"request", "UsbRawFillRequest", "request", "request">>,
     <<"request", "UsbRawSendRequest", "request", "request">>,
     <<"request", "UsbRawSubmitRequest", "request", "request">>,
     <<"request", "UsbRawCancelRequest", "request", "request">>,
     <<"request", "UsbRawHandleRequests", "request", "request">>,
     <<"open", "UsbRawHandleRequests", "open", "open">>,
     <<"request", "UsbRawFreeRequest", "open", "request">>,
     <<"open", "UsbRawCloseDevice", "session", "open">>,
     <<"session", "UsbRawExit", "gone", "session">>}

\* A head that cannot be allocated is used all the same.
TestHead == If("g_usbRamTestHead", Ok, Heedless(Get("g_usbRamTestHead")) & Use("g_usbRamTestHead"))

Noted == Use("testEntry") & Use("g_usbRamTestHead") & Locked("g_usbRamTestHead.lock", Ok)
Cleared == Get("buf") & OnError(MayFail, Clear("buf"))

RawMemory ==
    [RawUsbMemCalloc |->
         Cleared & When("g_usbRamTestFlag", TestHead & Heedless(Get("testEntry"))
                        & When("testEntry", Noted)),
     RawUsbMemFree |->
         Needs("buf")
         & When("g_usbRamTestFlag",
                When("g_usbRamTestHead", Locked("g_usbRamTestHead.lock", Clear("testEntry"))))
         & Clear("buf")]

------------------------------------------------------------------------------
(***************************************************************************)
(* The allocators of the USB stacks: usb_raw_api_library.c of the host,    *)
(* adapter_if.c and adapter_if_liteos.c of the device.  While the memory   *)
(* test is on, every allocation is noted in a list whose head, once made,  *)
(* is kept for good.                                                       *)
(***************************************************************************)
RawSignals(api) ==
    api @@
    [RawHandleRequestCompletion |-> Use("request") & When("sync", SyncRequestCallback)
     & Release("pending"),
     RawSetInterfaceAltsetting |-> api.AdapterSetInterface,
     RawGetTid |-> api.UsbAdapterGetTid,
     RawRegisterSignal |-> api.UsbAdapterRegisterSignal,
     RawKillSignal |-> api.UsbAdapterKillSignal,
     \* When there is no memory for one of the buffers the other is not recycled.
     RawInitPnpService |->
         Local(<<"serv", "pnpData", "pnpReply">>,
               MayFail & Get("serv")
               & Finally(Heedless(Get("pnpData")) & Get("pnpReply") & Needs("pnpData")
                         & Finally(MayFail, Clear("pnpData") & Clear("pnpReply")),
                         Clear("serv"))),
     RawRequestListInit |-> Needs("dev"),
     RawUsbMemTestTrigger |-> Set("g_usbRamTestFlag") | Unset("g_usbRamTestFlag"),
     RawUsbMemAlloc |-> MayFail & api.RawUsbMemCalloc]

------------------------------------------------------------------------------
OsIso(api) ==
    api @@
    [OsSubmitIsoRequest |-> MayFail & Get("isoUrbs") & api.OsAllocIsoUrbs
     & api.OsSubmitIsoUrbs,
     OsControlCompletion |-> Clear("urb") & api.RawHandleRequestCompletion,
     OsIsoRequestDesStatus |-> Use("request")]

OsIsoReaping(api) ==
    api @@
    [OsIsoCompletion |->
         Use("isoUrbs") & api.OsIsoRequestDesStatus
         & Retired(api.OsFreeIsoUrbs & api.RawHandleRequestCompletion, Ok),
     OsProcessAbnormalReap |-> Retired(api.RawHandleRequestCompletion, Ok)]

------------------------------------------------------------------------------
AdapterSession(api) ==
    api @@
    [OsBulkCompletion |->
         LET Cancel == Retired(api.RawHandleRequestCompletion, api.OsDiscardUrbs)
             Transferred == Retired(api.RawHandleRequestCompletion,
                                    May(Set("error") & api.OsDiscardUrbs))
         IN  Use("bulkUrb")
             & If("error", api.OsProcessAbnormalReap,
                  OsUrbStatusToRequestStatus(Transferred, Cancel,
                                             api.RawHandleRequestCompletion)),
     AdapterInit |-> Ok,
     AdapterExit |-> Ok,
     \* What OsInitDevice had acquired when it failed is not given back.
     AdapterOpenDevice |->
         Use("session")
         & Otherwise(api.OsGetDeviceHandle,
                     OnError(api.OsCallocDeviceHandle & api.OsAllocDevice
                             & OnError(api.OsInitDevice, Clear("dev")), Clear("handle"))
                     & Locked("session.lock", Set("listed"))),
     \* Fails here when another reference to the device remains.
     AdapterCloseDevice |->
         Needs("handle") & Use("dev") & If("twice", Unset("twice") & Fail, Ok)
         & Locked("session.lock", Unset("listed"))
         & Each(Clear, <<"configDescriptors", "descriptors", "dev", "fd", "handle">>)]

AdapterRequests(api) ==
    api @@
    [AdapterClearHalt |-> Needs("handle") & Try("fd"),
     AdapterResetDevice |-> Needs("handle")
         & When("claimed", Heedless(api.AdapterReleaseInterface)) & Try("fd"),
     \* The mapping is kept when there is no memory for the URB.
     AdapterAllocRequest |->
         Needs("handle") & Use("fd") & Get("request.new") & OnError(Get("bulkUrb"), Null("request.new"))
         & Move("request.new", "request") & Set("urbs"),
     AdapterFreeRequest |->
         Needs("request") & Use("request") & Clear("bulkUrb") & Unset("urbs") & When("urb", Null("urb"))
         & MayFail & Free("request"),
     AdapterSubmitRequest |->
         Needs("request") & Use("request")
         & Either(api.OsSubmitControlRequest, api.OsSubmitIsoRequest,
                  api.OsSubmitBulkRequest),
     AdapterCancelRequest |->
         Use("request") & If("urb", Ok, Needs("urbs")) & api.OsDiscardUrbs & Set("error")]

\* The reaper waits for a URB, and learns the request from it.
AdapterUrbCompleteHandle(api) ==
    LET Reap(urb) == Given(urb) & Unset(urb)
    IN  Needs("handle") & Use("fd")
        & (Fail | ((Reap("urb0") | Reap("urb1")) & Use("request")
                   & Either(api.OsControlCompletion, api.OsIsoCompletion,
                            api.OsBulkCompletion)))

------------------------------------------------------------------------------
(***************************************************************************)
(* The raw USB host API, usb/ddk/host/src/usb_raw_api_library.c and its    *)
(* checked entries in usb_raw_api.c, on the Linux adapter.  A synchronous  *)
(* request waits for its completion on a semaphore in the request; the     *)
(* caller's variable "completed" is on its stack.  Two interfaces stand    *)
(* for the interfaces of a configuration, one setting and one endpoint for *)
(* theirs.  The session is the default one.                                *)
(***************************************************************************)
RawRequests(api) ==
    api @@
    [RawSubmitRequest |-> api.AdapterSubmitRequest,
     RawCancelRequest |-> api.AdapterCancelRequest,
     RawHandleRequest |-> AdapterUrbCompleteHandle(api),
     RawClearHalt |-> api.AdapterClearHalt]

\* While a request is waited for, the reaper completes it, or does not in time: then
\* it is cancelled and completed here, and its URBs are still to come.
Reaping(api) == May(Heedless(AdapterUrbCompleteHandle(api))
                    & May(Heedless(AdapterUrbCompleteHandle(api))))

Completions(api) ==
    LET Completion ==
            Reaping(api) & MayFail
            & If("posted", Ok, Heedless(api.RawCancelRequest)
                 & api.RawHandleRequestCompletion)
        Awaited == Finally(Completion, Clear("sem")) & MayFail
    IN  api @@
        [Awaited |-> Awaited,
         HandleSyncRequestCompletion |-> Awaited]

------------------------------------------------------------------------------
RawSession(api) ==
    LET RawGetSession == Needs("session")
    IN  api @@
        [ControlRequestCompletion |-> api.Awaited,
         RawInit |->
             If("session", Set("session.twice"), Get("session")
                & OnError(api.AdapterInit, Clear("session"))),
         \* Fails here when another user of the session remains.
         RawExit |->
             Otherwise(RawGetSession, Never)
             & If("session.twice", Unset("session.twice") & Fail, api.AdapterExit
                  & Clear("session")),
         RawOpenDevice |-> RawGetSession & api.AdapterOpenDevice]

Sync(api, kind, F) ==
    Reset(<<"control", "iso", "posted">>) & kind & Set("sync")
    & Take("completed") & Finally(Get("sem") & OnError(api.RawSubmitRequest, Clear("sem")) & F,
                                 Free("completed") & Unset("posted"))

------------------------------------------------------------------------------
SyncRequests(api) ==
    api @@
    [HandleSyncRequest |-> MayFail & Use("request") & Sync(api, Ok, api.HandleSyncRequestCompletion),
     GetInterfaceNumberDes |-> Ok,
     GetInterfaceNumber |-> Ok]

RawFilling(api) ==
    api @@
    [RawCloseDevice |-> Needs("handle") & api.AdapterCloseDevice & Reset(<<"claimed">>),
     RawClaimInterface |->
         Needs("handle") & MayFail
         & Locked("handle.lock",
                  If("claimed", Ok, api.AdapterClaimInterface & Set("claimed"))),
     AllocRequest |-> api.AdapterAllocRequest,
     FreeRequest |-> api.AdapterFreeRequest,
     RawFillBulkRequest |-> Fill(Ok),
     RawFillControlSetup |-> MayFail,
     RawFillControlRequest |-> Fill(Set("control"))]

RawSending(api) ==
    api @@
    [RawFillInterruptRequest |-> Fill(Ok),
     RawFillIsoRequest |-> Fill(Set("iso")),
     RawSendControlRequest |->
         Needs("request") & Needs("handle") & Use("request") & api.RawFillControlSetup & MayFail
         & Sync(api, Set("control"), api.ControlRequestCompletion),
     RawSendBulkRequest |-> Needs("request") & Needs("handle") & api.HandleSyncRequest,
     RawSendInterruptRequest |-> Needs("request") & Needs("handle") & api.HandleSyncRequest,
     RawAllocRequest |-> api.AllocRequest]

RawConfig(api) ==
    api @@
    [RawClearConfiguration |-> Needs("config") & Each(ClearInterface, interfaces)
     & Clear("config.extra"),
     RawGetConfiguration |-> Needs("handle") & api.AdapterGetConfiguration,
     RawSetConfiguration |-> MayFail & api.AdapterSetConfiguration,
     RawGetDescriptor |-> Needs("request") & Needs("handle") & api.RawSendControlRequest,
     RawGetDevice |-> Needs("handle"),
     RawGetDeviceDescriptor |-> Needs("dev") & Use("dev"),
     RawReleaseInterface |->
         Needs("handle") & MayFail
         & Locked("handle.lock", Needs("claimed") & api.AdapterReleaseInterface
                  & Unset("claimed")),
     RawResetDevice |-> api.AdapterResetDevice]

ConfigParsing(api) ==
    LET ParseConfigurationDes ==
            OnError(FindNextDescriptor(Get("config.extra") & MayFail)
                    & May(Each(LAMBDA i : ParseInterface(api, i), interfaces)),
                    api.RawClearConfiguration)
        \* An interface that was allocated is not freed when the next cannot be.
        ParseConfiguration ==
            LET Alloc(i) == Get(i[1])
            IN  Use("config") & api.ParseDescriptor & MayFail
            & api.GetInterfaceNumber
                & Each(Alloc, interfaces) & ParseConfigurationDes
    IN  api @@
        [DescToConfig |->
             Get("config") & OnError(ParseConfiguration, Clear("config") & Drop(inConfig))]

RawConfigRead(api) ==
    api @@
    [RawFreeRequest |-> Needs("request") & api.FreeRequest
     & Reset(<<"sync", "control", "iso", "error">>),
     RawGetConfigDescriptor |->
         MayFail & api.GetConfigDescriptor & Get("buf")
         & Finally(api.GetConfigDescriptor & api.DescToConfig, Clear("buf"))]

------------------------------------------------------------------------------
(***************************************************************************)
(* The checked entries, as clients use them: a request that was submitted  *)
(* is left alone, but for a cancellation, until it completes, or until the *)
(* kernel has none of its URBs.                                            *)
(***************************************************************************)
UsbRawDevices(api) ==
    api @@
    [UsbRawInit |-> api.RawInit,
     UsbRawExit |-> api.RawExit,
     UsbRawOpenDevice |-> api.RawOpenDevice,
     UsbRawCloseDevice |-> Needs("handle") & api.RawCloseDevice & Reset(<<"urb0", "urb1">>),
     UsbRawSendControlRequest |-> Needs("request") & Needs("handle") & api.RawSendControlRequest,
     UsbRawSendBulkRequest |-> Needs("request") & Needs("handle") & api.RawSendBulkRequest,
     UsbRawSendInterruptRequest |-> Needs("request") & Needs("handle")
         & api.RawSendInterruptRequest,
     UsbRawGetConfigDescriptor |-> Needs("dev") & api.RawGetConfigDescriptor,
     UsbRawFreeConfigDescriptor |-> Needs("config") & api.RawClearConfiguration & Clear("config"),
     UsbRawGetConfiguration |-> Needs("handle") & api.RawGetConfiguration,
     UsbRawSetConfiguration |-> Needs("handle") & api.RawSetConfiguration,
     UsbRawGetDescriptor |-> Needs("request") & Needs("handle") & api.RawGetDescriptor,
     UsbRawGetDevice |-> Needs("handle") & api.RawGetDevice,
     UsbRawGetDeviceDescriptor |-> Needs("dev") & api.RawGetDeviceDescriptor,
     UsbRawClaimInterface |-> Needs("handle") & api.RawClaimInterface]

UsbRawRequests(api) ==
    api @@
    [UsbRawReleaseInterface |-> Needs("handle") & api.RawReleaseInterface,
     UsbRawResetDevice |-> Needs("handle") & api.RawResetDevice,
     UsbRawAllocRequest |-> Needs("handle") & api.RawAllocRequest,
     UsbRawFreeRequest |-> Needs("request") & If("pending", Retired(Null("pending"), Never), Ok)
         & api.RawFreeRequest,
     UsbRawFillBulkRequest |-> Needs("request") & api.RawFillBulkRequest,
     UsbRawFillControlSetup |-> api.RawFillControlSetup,
     UsbRawFillControlRequest |-> Needs("request") & api.RawFillControlRequest,
     UsbRawFillInterruptRequest |-> Needs("request") & api.RawFillInterruptRequest,
     UsbRawFillIsoRequest |-> Needs("request") & api.RawFillIsoRequest,
     UsbRawSubmitRequest |-> Needs("request") & Unless("pending") & Unless("sync")
         & api.RawSubmitRequest,
     UsbRawCancelRequest |-> Needs("request") & api.RawCancelRequest,
     UsbRawHandleRequests |-> Needs("handle") & api.RawHandleRequest]

\* The functions, each with the ones it calls.
Functions ==
    UsbRawRequests(UsbRawDevices(RawConfigRead(ConfigParsing(RawConfig(RawSending(RawFilling(
        SyncRequests(RawSession(Completions(RawRequests(AdapterRequests(AdapterSession(
        OsIsoReaping(OsIso(RawSignals(DescriptorReads(AdapterConfig(OsBulkAndIso(OsDeviceInit(
        OsDevices @@ OsControlAndBulk @@ AdapterSignals @@ RawMemory))))))))))))))))))))

Entries ==
    LET Of(api) ==
            [UsbRawInit |-> api.UsbRawInit, UsbRawExit |-> api.UsbRawExit,
             RawInitPnpService |-> api.RawInitPnpService,
             UsbRawOpenDevice |-> api.UsbRawOpenDevice,
             UsbRawCloseDevice |-> api.UsbRawCloseDevice,
             Device |-> AnyOf(<<api.UsbRawGetConfiguration, api.UsbRawSetConfiguration,
                                api.UsbRawGetDevice, api.UsbRawGetDeviceDescriptor,
                                api.UsbRawClaimInterface, api.UsbRawReleaseInterface,
                                api.UsbRawResetDevice, api.RawClearHalt,
                                api.RawSetInterfaceAltsetting, api.RawRegisterSignal
                                & api.RawGetTid, api.RawKillSignal>>),
             UsbRawGetConfigDescriptor |-> api.UsbRawGetConfigDescriptor,
             UsbRawFreeConfigDescriptor |-> api.UsbRawFreeConfigDescriptor,
             UsbRawAllocRequest |-> api.UsbRawAllocRequest,
             UsbRawFreeRequest |-> api.UsbRawFreeRequest,
             UsbRawFillRequest |-> AnyOf(<<api.UsbRawFillBulkRequest,
                                           api.UsbRawFillInterruptRequest,
                                           api.UsbRawFillIsoRequest,
                                           api.UsbRawFillControlSetup
                                           & api.UsbRawFillControlRequest>>),
             UsbRawSendRequest |-> Unless("pending")
                                   & AnyOf(<<api.UsbRawSendControlRequest,
                                             api.UsbRawSendBulkRequest,
                                             api.UsbRawSendInterruptRequest,
                                             api.UsbRawGetDescriptor>>),
             UsbRawSubmitRequest |-> api.UsbRawSubmitRequest,
             UsbRawCancelRequest |-> api.UsbRawCancelRequest,
             UsbRawHandleRequests |-> api.UsbRawHandleRequests]
    IN  Of(Functions)

\* The device stack uses a note that could not be allocated.
Tested == When("g_usbRamTestFlag", TestHead & Heedless(Get("testEntry")) & Noted)

FnMemory(api) ==
    LET UsbFnMemCalloc == Cleared & Tested
    IN  api @@
        [UsbFnMemAlloc |-> UsbFnMemCalloc,
         UsbFnMemFree |-> api.RawUsbMemFree,
         UsbFnAdpMemTestTrigger |-> api.RawUsbMemTestTrigger]

UsbFnMemTestTrigger(api) == api.UsbFnAdpMemTestTrigger

LiteosMemory(api) ==
    \* On LiteOS an allocation that failed is noted too.
    LET LiteosMemCalloc == (Cleared & Tested) | (Tested & Fail)
    IN  api @@
        [LiteosMemAlloc |-> LiteosMemCalloc,
         LiteosMemFree |-> api.RawUsbMemFree,
         LiteosMemTestTrigger |-> api.RawUsbMemTestTrigger]

MemEntries(alloc, free, trigger) == [Alloc |-> alloc, Free |-> free, Trigger |-> trigger, Exit |-> Ok]
HostEntries ==
    LET Of(api) == MemEntries(api.RawUsbMemAlloc, api.RawUsbMemFree,
                                  api.RawUsbMemTestTrigger)
    IN  Of(Functions)
DeviceEntries ==
    LET Of(api) == MemEntries(api.UsbFnMemAlloc, api.UsbFnMemFree, UsbFnMemTestTrigger(api))
    IN  Of(FnMemory(RawSignals(AdapterConfig(OsDeviceInit(OsDevices @@ AdapterSignals @@
           RawMemory)))))
LiteosEntries ==
    LET Of(api) == MemEntries(api.LiteosMemAlloc, api.LiteosMemFree,
                                    api.LiteosMemTestTrigger)
    IN  Of(LiteosMemory(RawSignals(AdapterConfig(OsDeviceInit(OsDevices @@ AdapterSignals @@
           RawMemory)))))

MemLives ==
    {<<"new", "Trigger", "new", "new">>,
     <<"new", "Alloc", "allocated", "new">>,
     <<"allocated", "Trigger", "allocated", "allocated">>,
     <<"allocated", "Free", "new", "allocated">>,
     <<"new", "Exit", "gone", "gone">>}
==============================================================================
