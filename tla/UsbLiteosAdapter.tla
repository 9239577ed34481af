--------------------------- MODULE UsbLiteosAdapter ---------------------------
(***************************************************************************)
(* The host stack's adapter to the LiteOS USB stack,                       *)
(* usb/ddk/host/src/liteos_adapter.c, in the terms of UsbLinuxAdapter.     *)
(* A URB that the stack has finished waits in osDev's list for the reaper; *)
(* the flags urb0 and urb1 are the URBs not yet reaped, and numUrbs is set *)
(* when the request counts its URBs.                                       *)
(***************************************************************************)
EXTENDS Paths, TLC

LOCAL L == INSTANCE UsbRawApi
OsAdapterRealloc(ptr) == L!OsAdapterRealloc(ptr)
UsbFindUrb == Ok
OsUrbComplete(urb) == Use("osDev") & Locked("completeLock", UsbFindUrb & Set(urb))
OsSubmitUrb(urb) == MayFail & Set(urb)

OsDevices(api) ==
    LET OsWaitUrb == Needs("osDev")
    \* The request is answered before the call returns: also one that failed is queued
    \* for the reaper, unless it could not even be read.
    IN  api @@
        [OsControlMsg |-> MayFail & OsUrbComplete("urb0") & MayFail,
         OsReapUrb |->
             LET Reap(urb) == Given(urb) & Unset(urb)
             IN  Use("dev") & OsWaitUrb
             & Locked("completeLock", Reap("urb0") | Reap("urb1") | (Given("g_CompleteExit") & Fail)),
         OsDeviceCompare |-> api.linux.OsDeviceCompare,
         OsGetDeviceHandle |-> api.linux.OsGetDeviceHandle,
         OsCallocDeviceHandle |-> api.linux.OsCallocDeviceHandle,
         OsAllocDevice |-> api.linux.OsAllocDevice]

OsDescriptors ==
    [OsReadDescriptors |->
         LET Read == OnError(OsAdapterRealloc("descriptors"), Null("descriptors")) & MayFail
         IN  Use("osDev") & MayFail & Read & May(Read),
     OsParseConfigDescriptors |-> Use("osDev") & May(Get("configDescriptors") & MayFail),
     OsDevAllocInit |-> Get("osDev"),
     OsDevDestory |-> Clear("osDev")]

------------------------------------------------------------------------------
OsDeviceInit(api) ==
    api @@
    [OsInitDevice |->
         api.OsDevAllocInit & Unset("g_CompleteExit") & MayFail
         & api.OsReadDescriptors & api.OsParseConfigDescriptors & MayFail,
     OsFreeIsoUrbs |-> api.linux.OsFreeIsoUrbs,
     OsDiscardUrbs |-> If("iso", Use("isoUrbs"), Use("urbs")),
     OsSubmitControlMsg |->
         MayFail & If("urbs", Ok, Get("urbs") & Set("numUrbs")) & Use("urbs") & MayFail
         & L!OnKernel(api.OsControlMsg)]

OsControlAndBulk(api) ==
    api @@
    [OsSubmitControlRequest |-> MayFail & Use("handle") & Use("dev") & api.OsSubmitControlMsg,
     OsSubmitBulkRequestHandleUrb |-> MayFail]

OsSubmitBulkRequestHandle(api, numUrbs) ==
    Use("dev") & Use("osDev") & MayFail
    & L!OnKernel(api.OsSubmitBulkRequestHandleUrb & OsSubmitUrb("urb0"))
    & IF numUrbs = 1 THEN Ok
      ELSE L!Reaped
      & (Set("urb1") | Locked("request.lock", May(Set("error")) & api.OsDiscardUrbs))

OsBulkAndIso(api) ==
    \* With no URB yet, one is made whatever the length.
    api @@
    [OsSubmitBulkRequest |->
         LET Ready == Use("urbs") & Set("numUrbs") & Unset("error")
         IN  MayFail
             & If("urbs", (Ready & OsSubmitBulkRequestHandle(api, 1))
                          | (Free("urbs") & Get("urbs") & Ready & OsSubmitBulkRequestHandle(api, 2)),
                  Get("urbs") & Ready & OsSubmitBulkRequestHandle(api, 1)),
     \* The array stays when the endpoint is not found.
     OsAllocIsoUrbs |-> Use("dev") & Use("osDev") & MayFail
         & OnError(Each(Get, L!isoUrb), api.OsFreeIsoUrbs),
     \* A URB of an isochronous request names no device: the first is refused.
     OsSubmitIsoUrbs |-> Failing(api.OsFreeIsoUrbs)]

------------------------------------------------------------------------------
OsIso(api) ==
    api @@
    [OsSubmitIsoRequest |-> MayFail & Get("isoUrbs") & Set("numUrbs") & api.OsAllocIsoUrbs
     & api.OsSubmitIsoUrbs,
     OsControlCompletion |-> Locked("request.lock", Ok) & api.linux.RawHandleRequestCompletion,
     OsIsoRequestDesStatus |-> api.linux.OsIsoRequestDesStatus]

OsIsoReaping(api) ==
    \* Compares the URB with what contains it, and finds none.
    api @@
    [OsIsoCompletion |-> Locked("request.lock", Use("isoUrbs") & Fail),
     OsProcessAbnormalReap |-> api.linux.OsProcessAbnormalReap]

\* Here an unknown failure completes the request as an overflow does; a reset one
\* goes on as a transfer.
OsUrbStatusToRequestStatus(success, noDevice, failure) ==
    success | (Set("error") & (noDevice | failure | success))

------------------------------------------------------------------------------
AdapterSession(api) ==
    api @@
    [OsBulkCompletion |->
         LET Cancel == L!Retired(api.linux.RawHandleRequestCompletion, api.OsDiscardUrbs)
             Transferred == L!Retired(api.linux.RawHandleRequestCompletion,
                                      May(Set("error") & api.OsDiscardUrbs))
         IN  Use("urbs") & Locked("request.lock", Ok)
             & If("error", api.OsProcessAbnormalReap,
                  OsUrbStatusToRequestStatus(Transferred, Cancel,
                                             api.linux.RawHandleRequestCompletion)),
     \* Waits for the reaper, and gives up in the end.
     OsFreeRequest |-> L!Retired(Ok, Fail),
     AdapterInit |-> Ok,
     AdapterExit |-> Ok,
     AdapterOpenDevice |->
         Use("session")
         & Otherwise(api.OsGetDeviceHandle,
                     OnError(api.OsCallocDeviceHandle & api.OsAllocDevice
                             & OnError(api.OsInitDevice, Clear("dev")), Clear("handle"))
                     & Locked("session.lock", Set("listed")))]

AdapterSignals ==
    [UsbAdapterGetOps |-> Ok,
     UsbAdapterGetTid |-> Fail,
     UsbAdapterRegisterSignal |-> Ok,
     UsbAdapterKillSignal |-> Use("dev") & Needs("osDev") & Set("g_CompleteExit")]

AdapterConfig(api) ==
    \* Fails here when another reference to the device remains.
    api @@
    [AdapterCloseDevice |->
         Needs("handle") & Heedless(api.UsbAdapterKillSignal)
         & If("twice", Unset("twice") & Fail, Ok)
         & Locked("session.lock", Unset("listed"))
         & Each(Clear, <<"configDescriptors", "descriptors">>) & api.OsDevDestory
         & Each(Clear, <<"dev", "handle">>),
     AdapterGetConfigDescriptor |-> Use("dev") & Use("osDev") & MayFail,
     AdapterGetConfiguration |-> Use("handle") & Use("dev") & Use("osDev"),
     AdapterSetConfiguration |-> Use("handle") & Use("dev") & Use("osDev") & MayFail,
     AdapterClaimInterface |-> Ok,
     AdapterReleaseInterface |-> Ok,
     AdapterSetInterface |-> Use("handle") & Use("dev") & Use("osDev") & MayFail,
     AdapterClearHalt |-> Use("handle") & Use("dev") & Use("osDev") & MayFail,
     AdapterResetDevice |-> Ok]

AdapterRequests(api) ==
    api @@
    [AdapterAllocRequest |-> Get("request"),
     \* The URBs that the request counts and the reaper has not had are killed and waited
     \* for; the URBs of an isochronous request are not looked at.
     AdapterFreeRequest |->
         Needs("request") & Use("request")
         & When("numUrbs", L!Retired(Ok, api.OsDiscardUrbs & api.OsFreeRequest))
         & Clear("urbs") & When("isoUrbs", Null("isoUrbs")) & Free("request"),
     AdapterSubmitRequest |->
         Needs("request") & Use("request") & Unset("numUrbs")
         & L!Either(api.OsSubmitControlRequest, api.OsSubmitIsoRequest,
                    api.OsSubmitBulkRequest),
     AdapterCancelRequest |-> Use("request") & When("urbs", api.OsDiscardUrbs),
     AdapterUrbCompleteHandle |->
         Needs("handle") & Use("dev") & Needs("osDev") & api.OsReapUrb & Use("request")
         & L!Either(api.OsControlCompletion, api.OsIsoCompletion,
                    api.OsBulkCompletion)]

------------------------------------------------------------------------------
\* The request is filled for one kind of transfer or another.
Fill(kind) == L!Unless("pending") & Reset(<<"control", "iso">>) & kind

Entries ==
    LET Of(api) ==
            [AdapterInit |-> Get("session") & api.AdapterInit,
             AdapterOpenDevice |-> api.AdapterOpenDevice,
             AdapterCloseDevice |-> api.AdapterCloseDevice & Reset(<<"urb0", "urb1">>),
             Device |-> AnyOf(<<api.AdapterGetConfigDescriptor,
                                api.AdapterGetConfiguration, api.AdapterSetConfiguration,
                                api.AdapterClaimInterface, api.AdapterReleaseInterface,
                                api.AdapterSetInterface, api.AdapterClearHalt,
                                api.AdapterResetDevice, api.UsbAdapterKillSignal,
                                api.UsbAdapterRegisterSignal, api.UsbAdapterGetTid>>),
             AdapterAllocRequest |-> api.AdapterAllocRequest
                 & Reset(<<"control", "iso", "error", "numUrbs">>),
             Fill |-> AnyOf(<<Fill(Ok), Fill(Set("control")), Fill(Set("iso"))>>),
             AdapterSubmitRequest |-> L!Unless("pending") & api.AdapterSubmitRequest,
             AdapterCancelRequest |-> api.AdapterCancelRequest,
             AdapterUrbCompleteHandle |-> api.AdapterUrbCompleteHandle,
             AdapterFreeRequest |-> If("pending", L!Retired(Null("pending"), Never), Ok)
                 & api.AdapterFreeRequest,
             AdapterExit |-> api.AdapterExit & Clear("session")]
    IN  Of(AdapterRequests(AdapterConfig(AdapterSession(OsIsoReaping(OsIso(OsBulkAndIso(
           OsControlAndBulk(OsDeviceInit(OsDevices([linux |-> L!Functions] @@ OsDescriptors @@
           AdapterSignals))))))))))

Lives ==
    {<<"new", "AdapterInit", "session", "new">>,
     <<"session", "AdapterOpenDevice", "open", "session">>,
     <<"open", "AdapterOpenDevice", "open", "open">>,
     <<"open", "Device", "open", "open">>,
     <<"open", "AdapterAllocRequest", "request", "open">>,
     <<"request", "Fill", "request", "request">>,
     <<"request", "AdapterSubmitRequest", "request", "request">>,
     <<"request", "AdapterCancelRequest", "request", "request">>,
     <<"request", "AdapterUrbCompleteHandle", "request", "request">>,
     <<"open", "AdapterUrbCompleteHandle", "open", "open">>,
     <<"request", "AdapterFreeRequest", "open", "request">>,
     <<"open", "AdapterCloseDevice", "session", "open">>,
     <<"session", "AdapterExit", "gone", "gone">>}
==============================================================================
