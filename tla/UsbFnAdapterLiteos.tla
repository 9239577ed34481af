------------------------- MODULE UsbFnAdapterLiteos -------------------------
(***************************************************************************)
(* The gadget adapter of LiteOS, usb/ddk/device/src/adapter_if_liteos.c,   *)
(* for a device with one configuration of one function.  The functions     *)
(* that write descriptors are those of adapter_if.c.                       *)
(***************************************************************************)
EXTENDS Paths, TLC

LOCAL A == INSTANCE UsbFnAdapter

FnEndpoints ==
    [UsbFnAdapterOpenFn |-> Get("configFd"),
     UsbFnAdapterClosefn |-> Needs("configFd") & Free("configFd") & MayFail]

UsbFnAdapterCreateFconfigString(s) == Get(s) & OnError(MayFail, Free(s))

DeviceStrings ==
    \* A string that could not be filled in has been freed already.
    LET UsbFnAdapterWriteDevString ==
            Local(<<"str0", "str1", "strings">>,
                  Get("strings")
                  & OnError(UsbFnAdapterCreateFconfigString("str0"), Free("str0") & Free("strings"))
                  & OnError(UsbFnAdapterCreateFconfigString("str1"), Free("str1") & Free("str0")
                            & Free("strings"))
                  & Finally(MayFail, Free("str0") & Free("str1") & Free("strings")))
    IN  [UsbFnAdapterWriteDevDesc |-> MayFail,
         UsbFnAdapterWriteDevStrings |-> UsbFnAdapterWriteDevString,
         UsbFnAdapterFillConfigDesc |-> Ok]

UsbFnAdapterOpenPipe(ep) == MayFail & Get(ep)
UsbFnAdapterClosePipe(ep) == Needs(ep) & Free(ep) & MayFail

FnStrings(api) ==
    [GetHeaderStr |-> api.configfs.GetHeaderStr,
     UsbFnWriteStrings |-> api.configfs.UsbFnWriteStrings]

FnDescriptors(api) ==
    [WriteFuncDescriptors |-> api.configfs.WriteFuncDescriptors,
     CopyCount |-> api.configfs.CopyCount]

UsbFnAdapterCreatPipes(api, ep) ==
    If(ep, api.configfs.UsbFnAdapterCreatPipes, Failing(api.configfs.UsbFnAdapterCreatPipes))

\* Whether the pipe was opened is not looked at, and the name is freed a second
\* time when a later step fails.
UsbFnAdapterWriteFunctions(api, make) ==
    Local(<<"funcName.s", "fdEp0">>,
          MayFail & UsbFnAdapterCreateFconfigString("funcName.s")
          & OnError(IF make THEN Get("function") ELSE Clear("function") | Fail, Free("funcName.s"))
          & Free("funcName.s")
          & IF make
            THEN Heedless(UsbFnAdapterOpenPipe("fdEp0"))
                 & OnError(UsbFnAdapterCreatPipes(api, "fdEp0") & UsbFnAdapterClosePipe("fdEp0"),
                           Heedless(UsbFnAdapterClosePipe("fdEp0")) & Free("funcName.s"))
            ELSE Ok)

UsbFnAdapterWriteGadget(make) == IF make THEN Get("gadget") ELSE Clear("gadget") | Fail

DeviceCreation(api) ==
    LET UsbFnAdapterWriteConfigs ==
            Local(<<"configName.s">>,
                  MayFail & UsbFnAdapterCreateFconfigString("configName.s")
                  & api.UsbFnAdapterFillConfigDesc
                  & Get("config") & UsbFnAdapterWriteFunctions(api, TRUE) & Free("configName.s"))
        UsbFnAdapterWriteFcofnigUDC ==
            Local(<<"udcName.s">>,
                  UsbFnAdapterCreateFconfigString("udcName.s") & Finally(MayFail, Free("udcName.s")))
    IN  api @@
        [UsbFnAdapterWriteFcofnigUDC |-> UsbFnAdapterWriteFcofnigUDC,
         UsbFnAdapterCreateDevice |->
             Local(<<"configFd", "gadgetName.s">>,
                   api.UsbFnAdapterOpenFn
                   & Finally(UsbFnAdapterCreateFconfigString("gadgetName.s")
                             & Finally(UsbFnAdapterWriteGadget(TRUE)
                                       & api.UsbFnAdapterWriteDevDesc
                                       & api.UsbFnAdapterWriteDevStrings
                                       & UsbFnAdapterWriteConfigs
                                       & UsbFnAdapterWriteFcofnigUDC,
                                       Free("gadgetName.s")),
                             Heedless(api.UsbFnAdapterClosefn)))]

DeviceDeletion(api) ==
    LET UsbFnAdapterDelConfigs ==
            Local(<<"configName.s">>,
                  MayFail & UsbFnAdapterCreateFconfigString("configName.s")
                  & Finally(UsbFnAdapterWriteFunctions(api, FALSE) & api.UsbFnAdapterFillConfigDesc
                            & (Clear("config") | Fail),
                            Free("configName.s")))
    \* Only a removal that succeeds closes the configuration device.
    IN  api @@
        [UsbFnAdapterDelDevice |->
             Local(<<"configFd", "gadgetName.s">>,
                   api.UsbFnAdapterOpenFn & UsbFnAdapterCreateFconfigString("gadgetName.s")
                   & Finally(api.UsbFnAdapterWriteFcofnigUDC & UsbFnAdapterDelConfigs
                             & UsbFnAdapterWriteGadget(FALSE) & api.UsbFnAdapterClosefn,
                             Free("gadgetName.s")))]

Unsupported(api) ==
    LET UsbFnWriteProp ==
            Local(<<"configFd", "gadgetName.s">>,
                  UsbFnAdapterCreateFconfigString("gadgetName.s")
                  & Finally(api.UsbFnAdapterOpenFn & MayFail
                            & Heedless(api.UsbFnAdapterClosefn), Free("gadgetName.s")))
    IN  api @@
        [UsbFnAdapterWriteUDC |->
             Local(<<"configFd", "gadgetName.s">>,
                   api.UsbFnAdapterOpenFn & UsbFnAdapterCreateFconfigString("gadgetName.s")
                   & api.UsbFnAdapterWriteFcofnigUDC
                   & Heedless(api.UsbFnAdapterClosefn)),
         UsbFnWriteProp |-> UsbFnWriteProp,
         UsbFnWriteDesString |-> UsbFnWriteProp]

------------------------------------------------------------------------------
UsbFnAdapterGetPipeInfo(ep) == Needs(ep) & Try(ep)
UsbFnAdapterReleaseBuf(ep) == Try(ep)
UsbFnAdapterPipeIo(ep) == Needs(ep) & Try(ep)
UsbFnAdapterCancelIo(ep) == Try(ep)
UsbFnAdapterRequestGetStatus(ep) == Needs(ep) & Try(ep)
UsbFnAdapterMapAddr(ep, map) == Use(ep) & Get(map)
Ep0Event(ep) == Try(ep)
EpEvent(ep) == Try(ep)
UsbFnAdapterPollEvent(ep) == MayFail & Use(ep) & Ep0Event(ep) & EpEvent(ep)

Pipe ==
    If("ep", AnyOf(<<UsbFnAdapterGetPipeInfo("ep"), UsbFnAdapterPipeIo("ep"),
                     UsbFnAdapterCancelIo("ep"),
                     UsbFnAdapterRequestGetStatus("ep"), UsbFnAdapterPollEvent("ep"),
                     If("map", UsbFnAdapterReleaseBuf("ep") & Clear("map"),
                        UsbFnAdapterMapAddr("ep", "map")),
                     If("map", Never, Heedless(UsbFnAdapterClosePipe("ep")) & Null("ep"))>>),
       UsbFnAdapterOpenPipe("ep"))

Entries ==
    LET Of(api) ==
            [createDevice |-> api.UsbFnAdapterCreateDevice,
             delDevice |-> If("ep", Never, api.UsbFnAdapterDelDevice),
             write |-> AnyOf(<<api.UsbFnAdapterWriteUDC, api.UsbFnWriteProp,
                               api.UsbFnWriteDesString>>), pipe |-> Pipe]
    IN  Of(Unsupported(DeviceDeletion(DeviceCreation([configfs |-> A!Functions] @@
           FnEndpoints @@ DeviceStrings))))

\* The caller of a creation that failed keeps nothing of the device.
Lives ==
    {<<"new", "createDevice", "made", "gone">>,
     <<"made", "write", "made", "made">>,
     <<"made", "pipe", "made", "made">>,
     <<"made", "delDevice", "gone", "made">>}
==============================================================================
