---------------------------- MODULE UsbFnManager ----------------------------
(***************************************************************************)
(* The manager of the function devices of the gadget, usb/ddk/device/src, in*)
(* two parts that are followed apart: the devices and their descriptions, and*)
(* the interfaces of a device with the requests on them.                   *)
(***************************************************************************)
EXTENDS UsbFnAdapter

(***************************************************************************)
(* The description of a function device as it is read from the             *)
(* configuration source, and the properties of its interfaces:             *)
(* usb/ddk/device/src/usbfn_cfg_mgr.c.  A list read from the configuration *)
(* has two elements where its error path walks back over it, else one.     *)
(***************************************************************************)
ParseDevice ==
    LET UsbFnCfgMgrParseDevDesc == MayFail
    IN  [UsbFnCfgMgrParseUsbFnDevDesc |->
             MayFail & Get("deviceDesc") & OnError(UsbFnCfgMgrParseDevDesc, Free("deviceDesc"))]

\* A table of strings: list is the array of tables, item a table, text the
\* strings of one; the strings of a table are freed nowhere but here.
UsbFnCfgMgrParseString(text) == MayFail & Get(text) & OnError(MayFail, Free(text))

UsbFnCfgMgrParseStrings(strs, item, text) ==
    MayFail & Get(strs)
    & OnError(Get(item[1]) & UsbFnCfgMgrParseString(text[1]), Clear(strs) & Drop(item \o text))
    & OnError(Get(item[2]) & UsbFnCfgMgrParseString(text[2]),
              Free(item[1]) & Clear(strs) & Drop(item \o text))

UsbFnCfgMgrFreeFnStrings(strs, item, text) == Each(Free, item) & Free(strs) & Drop(item \o text)
tables == <<"deviceStrings[0]", "deviceStrings[1]">>
texts == <<"deviceStrings[0].strings", "deviceStrings[1].strings">>
fnTables == <<"strings[0]", "strings[1]">>
fnTexts == <<"strings[0].strings", "strings[1].strings">>

------------------------------------------------------------------------------
ParseInterfaces ==
    [UsbFnCfgMgrParseUsbFnDevStrings |->
         MayFail & UsbFnCfgMgrParseStrings("deviceStrings", tables, texts),
     \* The descriptors of each type differ in their fields only.
     UsbFnCfgMgrParseAccocInterfaceDesc |-> MayFail,
     UsbFnCfgMgrParseInterfaceDesc |-> MayFail,
     UsbFnCfgMgrParseEndpointDesc |-> MayFail,
     UsbFnCfgMgrParseStringDesc |-> MayFail]

ParseEndpoints ==
    [UsbFnCfgMgrParseSspIsocEndpointDesc |-> MayFail,
     UsbFnCfgMgrParseSsEndpointDesc |-> MayFail,
     UsbFnCfgMgrParseQualifierDesc |-> MayFail,
     UsbFnCfgMgrParseOtgDesc |-> MayFail,
     UsbFnCfgMgrParseDebugDesc |-> MayFail,
     UsbFnCfgMgrParseSecurityDesc |-> MayFail]

ParseDescriptors(api) ==
    LET UsbFnCfgMgrParseOtherDesc == MayFail
        UsbFnCfgMgrParseDescriptor ==
            AnyOf(<<api.UsbFnCfgMgrParseAccocInterfaceDesc,
                    api.UsbFnCfgMgrParseInterfaceDesc,
                    api.UsbFnCfgMgrParseEndpointDesc,
                    api.UsbFnCfgMgrParseStringDesc,
                    api.UsbFnCfgMgrParseSspIsocEndpointDesc,
                    api.UsbFnCfgMgrParseSsEndpointDesc,
                    api.UsbFnCfgMgrParseQualifierDesc,
                    api.UsbFnCfgMgrParseOtgDesc, api.UsbFnCfgMgrParseDebugDesc,
                    api.UsbFnCfgMgrParseSecurityDesc, UsbFnCfgMgrParseOtherDesc>>)
        UsbFnCfgMgrParseDesc(desc) == MayFail & Get(desc)
            & OnError(UsbFnCfgMgrParseDescriptor, Clear(desc))
    IN  api @@
        [UsbFnCfgMgrParseFunDesc |->
             MayFail & Get("descriptors")
             & OnError(UsbFnCfgMgrParseDesc("descriptors[0]"), Clear("descriptors"))
             & OnError(UsbFnCfgMgrParseDesc("descriptors[1]"), Clear("descriptors[0]")
                       & Clear("descriptors"))]

------------------------------------------------------------------------------
\* Properties: devProp is registered under the name of a field of the device
\* descriptor, prop under another.  The description was read from the
\* configuration if there is a node, and is static otherwise.
FromNode(r) == When("node", Use(r))

FreeConfigs ==
    LET UsbFnCfgMgrFreeFuncDescHead ==
            Clear("descriptors[0]") & Clear("descriptors[1]") & Clear("descriptors")
        FunctionGone ==
            Drop(<<"strings", "descriptors", "descriptors[0]",
                   "descriptors[1]">> \o fnTables \o fnTexts)
        UsbFnCfgMgrFreeFunctions ==
            Clear("functions[0]")
            & When("strings", UsbFnCfgMgrFreeFnStrings("strings", fnTables, fnTexts))
            & When("descriptors", UsbFnCfgMgrFreeFuncDescHead)
            & Clear("functions[1]") & FunctionGone & Clear("functions")
        UsbFnCfgMgrFreeConfigs ==
            When("functions", UsbFnCfgMgrFreeFunctions) & Clear("configs[0]") & Clear("configs")
        DescGone ==
            Drop(<<"deviceDesc", "deviceStrings", "configs", "configs[0]", "functions", "functions[0]",
                   "functions[1]">> \o tables \o texts)
            & FunctionGone
        IsPropRegisted(prop) == Needs(prop)
    IN  [FunctionGone |-> FunctionGone, DescGone |-> DescGone,
         UsbFnCfgMgrFreeUsbFnDeviceDesc |->
             When("des", When("deviceDesc", Free("deviceDesc"))
                         & When("deviceStrings",
                                UsbFnCfgMgrFreeFnStrings("deviceStrings", tables, texts))
                         & When("configs", UsbFnCfgMgrFreeConfigs)
                         & Clear("des") & DescGone),
         IsDevDescPropAndGetValue |-> FromNode("des") & FromNode("deviceDesc")]

ParseFunctions(api) ==
    LET UsbFnCfgMgrParseUsbFnFunction ==
            MayFail & UsbFnCfgMgrParseStrings("strings", fnTables, fnTexts)
            & Heedless(api.UsbFnCfgMgrParseFunDesc)
        \* The first of two functions is the plain one; the loop that frees them stops
        \* before it, and begins behind the one that failed.
        UsbFnCfgMgrParseUsbFnFunctions ==
            MayFail & Get("functions")
            & OnError(Get("functions[0]") & MayFail & Get("functions[1]") & MayFail
                      & UsbFnCfgMgrParseUsbFnFunction,
                      Clear("functions") & Drop(<<"functions[0]", "functions[1]">>)
                      & api.FunctionGone)
    IN  api @@
        [UsbFnCfgMgrParseUsbFnConfiguration |-> MayFail & UsbFnCfgMgrParseUsbFnFunctions]

ParseConfigs(api) ==
    \* The error path frees the device's strings instead of the configurations.
    LET UsbFnCfgMgrParseUsbFnCfgLists ==
            MayFail & Get("configs")
            & OnError(Get("configs[0]") & MayFail
                      & api.UsbFnCfgMgrParseUsbFnConfiguration, Free("deviceStrings"))
        UsbFnCfgMgrParseUsbFnConfigurations == MayFail & UsbFnCfgMgrParseUsbFnCfgLists
    IN  api @@
        [UsbFnCfgMgrGetInstanceFromHCS |->
             MayFail & Get("des")
             & OnError(api.UsbFnCfgMgrParseUsbFnDevDesc, Null("des") & api.DescGone)
             & OnError(api.UsbFnCfgMgrParseUsbFnDevStrings
                       & UsbFnCfgMgrParseUsbFnConfigurations,
                       Free("deviceDesc") & Clear("des") & api.DescGone)]

UsbfnCfgMgrFindPropMgr(prop) == Use(prop)
IsDevDescProp(prop) == prop = "devProp"

Properties ==
    LET UsbFnCfgGetPropValueFromPropList == MayFail
        UsbFnCfgGetPropValueFromHcs == MayFail & UsbFnCfgGetPropValueFromPropList
    IN  [UsbFnCfgFindPropFromHcs |-> Needs("node") & MayFail & UsbFnCfgGetPropValueFromHcs,
         UsbFnCfgChangeUdcName |-> UsbFnAdapterWriteUDC(GadgetFiles, FALSE)
             & UsbFnAdapterWriteUDC(GadgetFiles, TRUE)]

ChangeDescriptors(api) ==
    LET UsbFnCfgChangeStrings == FromNode("deviceStrings") & GadgetFiles.UsbFnWriteDesString
    IN  api @@
        [UsbFnCfgChangeDevceDes |->
             FromNode("des") & MayFail & (UsbFnCfgChangeStrings | GadgetFiles.UsbFnWriteProp)
             & api.UsbFnCfgChangeUdcName]

\* A new property that cannot be filled in is forgotten.
UsbFnCfgMgrRegisterProp(prop) ==
    If(prop, IF IsDevDescProp(prop) THEN UsbfnCfgMgrFindPropMgr(prop) & MayFail ELSE Fail,
       Get("fnCfgPropMgr") & OnError(MayFail, Null("fnCfgPropMgr")) & Move("fnCfgPropMgr", prop))

\* The list is emptied without freeing what is on it.
UsbFnCfgMgrUnRegisterAllProp == Drop(<<"devProp", "prop">>)

UsbFnCfgMgrGetProp(api, prop) ==
    If(prop, UsbfnCfgMgrFindPropMgr(prop) & MayFail,
       (IF IsDevDescProp(prop) THEN api.IsDevDescPropAndGetValue ELSE api.UsbFnCfgFindPropFromHcs)
       & MayFail)

UsbFnCfgMgrSetProp(api, prop) ==
    LET Value == UsbfnCfgMgrFindPropMgr(prop) & MayFail
    IN  IF IsDevDescProp(prop)
        THEN If(prop, Value, UsbFnCfgMgrRegisterProp(prop)) & api.UsbFnCfgChangeDevceDes
        ELSE If(prop, Value, api.UsbFnCfgFindPropFromHcs & UsbFnCfgMgrRegisterProp(prop))

------------------------------------------------------------------------------
(***************************************************************************)
(* The function device from its creation to its removal:                   *)
(* usb/gadget/function/master/dev_master.c, which drives                   *)
(* usb/ddk/device/src/usbfn_dev_mgr.c through usbfn_sdk_if.c.  What the    *)
(* adapter makes of the device is the resource gadget here (UsbFnAdapter   *)
(* has the adapter's own steps).                                           *)
(***************************************************************************)
createDevice == Get("gadget") & Set("deviceDir")
delDevice == Clear("gadget") | Fail

InterfaceObjects ==
    LET FindEmptyId == MayFail
        GetInterfaceInfo == Use("interfaceMgr")
    IN  [CreateInterface |-> Use("funcMgr") & May(GetInterfaceInfo),
         CreatDev |-> FindEmptyId & MayFail & createDevice,
         GetInterfaceNum |-> MayFail]

IoThread ==
    \* One turn of the event thread that has nothing to report.
    [UsbFnEventProcess |->
         If("thread", Use("fnDevMgr"), Given("runsOn") & Use("fnDevMgr")) & Unset("runsOn"),
     StartThreadIo |-> MayFail & Get("thread") & MayFail]

MgrGone == Drop(<<"interfaceMgr", "funcMgr", "thread", "gadget">>)

DeviceManager(api) ==
    LET AllocInterfaceAndFuncMgr ==
            api.GetInterfaceNum & Get("interfaceMgr")
            & OnError(Get("funcMgr"), Free("interfaceMgr"))
    \* The manager is on the list of devices before its thread starts, and is not
    \* taken off when the thread does not start.
    IN  api @@
        [UsbFnMgrDeviceCreate |->
             Get("fnDevMgr")
             & OnError(api.CreatDev & AllocInterfaceAndFuncMgr, Clear("fnDevMgr")
                       & MgrGone)
             & api.CreateInterface & Set("listed")
             & OnError(api.StartThreadIo, Free("interfaceMgr") & Free("funcMgr")
                       & Free("fnDevMgr") & MgrGone),
         \* After twenty waits the thread is given up, although it may still run.
         UsbFnMgrDeviceRemove |->
             Use("fnDevMgr") & May(Set("runsOn"))
             & If("thread", Clear("thread") | Fail, Fail) & delDevice
             & Unset("listed") & UsbFnCfgMgrUnRegisterAllProp & Clear("funcMgr") & Clear("interfaceMgr")
             & When("node", api.UsbFnCfgMgrFreeUsbFnDeviceDesc) & Clear("fnDevMgr")
             & MgrGone & Unset("node")]

DeviceQueries ==
    [UsbFnMgrDeviceGet |-> When("listed", Use("fnDevMgr")),
     UsbFnMgrDeviceGetState |-> Use("fnDevMgr"),
     UsbFnMgrDeviceGetInterface |-> Use("fnDevMgr") & MayFail & Use("interfaceMgr")]

------------------------------------------------------------------------------
DescriptorApi ==
    LET ChangeDescriptorDoSwitch == Ok
        UsbFnChangeDescriptor == ChangeDescriptorDoSwitch
        UsbFnChangeDescInfo == Ok | UsbFnChangeDescriptor
        DoChangeFunction == Use("functions[0]") & May(UsbFnChangeDescInfo)
    IN  [IsDescriptorOk |-> MayFail,
         UsbFnChangeFunction |-> Use("des") & Use("functions") & DoChangeFunction]

DeviceApi(api) ==
    \* A description that was read is forgotten when the device is not made of it.
    api @@
    [UsbFnCreateDevice |->
         If("listed", api.UsbFnMgrDeviceGet & Fail, Ok)
         & If("useHcs", api.UsbFnCfgMgrGetInstanceFromHCS
              & api.UsbFnChangeFunction & Set("node"), Ok)
         & OnError(api.IsDescriptorOk & api.UsbFnMgrDeviceCreate, Null("des")
                   & api.DescGone & Unset("node")),
     UsbFnRemoveDevice |-> api.UsbFnMgrDeviceRemove,
     UsbFnGetDevice |-> api.UsbFnMgrDeviceGet,
     UsbFnGetDeviceState |-> api.UsbFnMgrDeviceGetState,
     UsbFnGetInterface |-> api.UsbFnMgrDeviceGetInterface]

PropertyApi(api) ==
    api @@
    [UsbFnRegistInterfaceProp |-> UsbFnCfgMgrRegisterProp("devProp") | UsbFnCfgMgrRegisterProp("prop"),
     UsbFnGetInterfaceProp |-> UsbFnCfgMgrGetProp(api, "devProp") | UsbFnCfgMgrGetProp(api, "prop"),
     UsbFnSetInterfaceProp |-> UsbFnCfgMgrSetProp(api, "devProp") | UsbFnCfgMgrSetProp(api, "prop")]

------------------------------------------------------------------------------
MasterDriver(api) ==
    LET MasterReleaseFuncDevice == Needs("g_fnDev") & api.UsbFnRemoveDevice & Unset("g_fnDev")
        UsbFnRegistUsbfnDevice == MayFail & Use("devMgr") & MayFail & api.UsbFnCreateDevice
            & Set("g_fnDev") & MayFail
    IN  api @@
        [MasterDispatch |-> MayFail & (UsbFnRegistUsbfnDevice | MasterReleaseFuncDevice),
         MasterDriverBind |-> Get("devMgr") & OnError(MayFail, Clear("devMgr")),
         MasterDriverInit |-> MayFail & Use("devMgr") & May(Set("useHcs")),
         MasterDriverRelease |-> When("devMgr", Clear("devMgr"))]

\* What the function drivers ask of the device while it is there, and the host
\* of the driver, which ends it after they have released the device.
Client(api) ==
    Given("g_fnDev")
    & AnyOf(<<api.UsbFnGetDevice, api.UsbFnGetDeviceState, api.UsbFnGetInterface,
              api.UsbFnRegistInterfaceProp,
              api.UsbFnGetInterfaceProp, api.UsbFnSetInterfaceProp>>)

MasterEntries ==
    LET Of(api) ==
            [MasterDriverBind |-> api.MasterDriverBind,
             MasterDriverInit |-> api.MasterDriverInit,
             MasterDispatch |-> api.MasterDispatch,
             UsbFnEventProcess |-> api.UsbFnEventProcess,
             MasterDriverRelease |-> If("g_fnDev", Never, api.MasterDriverRelease),
             Client |-> Client(api)]
    IN  Of(MasterDriver(PropertyApi(DeviceApi(DeviceManager(ChangeDescriptors(ParseConfigs(
           ParseFunctions(ParseDescriptors(ParseDevice @@ ParseInterfaces @@ ParseEndpoints @@
           FreeConfigs @@ Properties @@ InterfaceObjects @@ IoThread @@ DeviceQueries @@
           DescriptorApi)))))))))

MasterLives ==
    {<<"new", "MasterDriverBind", "bound", "gone">>,
     <<"bound", "MasterDriverInit", "ready", "bound">>,
     <<"bound", "MasterDriverRelease", "gone", "gone">>,
     <<"ready", "MasterDispatch", "ready", "ready">>,
     <<"ready", "Client", "ready", "ready">>,
     <<"ready", "UsbFnEventProcess", "ready", "ready">>,
     <<"ready", "MasterDriverRelease", "gone", "gone">>}

------------------------------------------------------------------------------
(***************************************************************************)
(* An interface of a function device and the requests on it:               *)
(* usb/ddk/device/src/usbfn_io_mgr.c, the events of usbfn_dev_mgr.c and    *)
(* their wrappers in usbfn_sdk_if.c.  The interface has two pipes with a   *)
(* request on the first; the control pipe has one request.  A client frees *)
(* the requests of a handle before it closes the handle.  The event thread *)
(* gathers the open endpoints, polls them without any lock, and then       *)
(* handles what they report.                                               *)
(***************************************************************************)
fds == <<"fd0", "fd1">>
reqEvent == [fd0 |-> "reqEvent0", fd1 |-> "reqEvent1"]

------------------------------------------------------------------------------
IoHandles ==
    \* Only a failed allocation frees the buffers of the pipes before it, and no
    \* failure closes a pipe.
    LET HandleInit ==
            LET Open(fd) == UsbFnAdapterOpenPipe(fd) & UsbFnAdapterQueueInit(fd)
            IN  Open("fd0") & Get("reqEvent0") & Open("fd1")
            & OnError(Get("reqEvent1"), Clear("reqEvent0"))
        HandleGone == Drop(<<"fd0", "fd1", "reqEvent0", "reqEvent1">>)
    IN  [UsbFnIoMgrInterfaceOpen |->
             If("isOpen", Fail, Ok) & Get("handle") & OnError(HandleInit, Clear("handle") & HandleGone)
             & Set("isOpen"),
         UsbFnIoMgrInterfaceClose |->
             LET Close(fd) ==
                     UsbFnAdapterQueueDel(fd) & UsbFnAdapterClosePipe(fd) & Null(fd)
                     & Free(reqEvent[fd])
             IN  Given("handle") & Needs("isOpen") & Each(Close, fds)
                 & Clear("handle") & HandleGone & Unset("isOpen"),
         UsbFnIoMgrInterfaceGetPipeInfo |->
             MayFail
             & If("isOpen", Use("handle") & UsbFnAdapterGetPipeInfo("fd0"),
                  UsbFnAdapterOpenPipe("fd")
                  & Finally(UsbFnAdapterGetPipeInfo("fd"), Heedless(UsbFnAdapterClosePipe("fd"))
                            & Null("fd")))]

IoHelpers(api) ==
    api @@
    [ReqToIoData |-> MayFail,
     OpenEp0AndMapAddr |-> UsbFnAdapterOpenPipe("funcMgr.fd") & UsbFnAdapterQueueInit("funcMgr.fd"),
     GetReqType |-> Heedless(api.UsbFnIoMgrInterfaceGetPipeInfo)]

UsbFnIoMgrRequestAlloc(req, map, ep, type) ==
    Local(<<"mapAddr">>,
          UsbFnAdapterMapAddr(ep, "mapAddr") & Get(req)
          & When("mapAddr", Move("mapAddr", map)) & type)

\* unlist takes the request off its list.
UsbFnIoMgrRequestFree(req, map, ep, unlist) ==
    Given(req) & UsbFnAdapterUnmapAddr(map) & UsbFnAdapterReleaseBuf(ep) & unlist
    & Null(map) & Clear(req)

UsbFnIoMgrRequestSubmitAsync(api, req, ep) == Given(req) & api.ReqToIoData & UsbFnAdapterPipeIo(ep)
UsbFnIoMgrRequestSubmitSync(api, req, ep) == Given(req) & api.ReqToIoData & UsbFnAdapterPipeIo(ep)
UsbFnIoMgrRequestCancel(api, req, ep) == Given(req) & api.ReqToIoData & UsbFnAdapterCancelIo(ep)

UsbFnIoMgrRequestGetStatus(api, req, ep) ==
    Given(req) & api.ReqToIoData & Heedless(UsbFnAdapterRequestGetStatus(ep))

EventSwitch(api) ==
    \* The callback is set before the control pipe is opened, and stays when that
    \* fails.  receiving: the client was told it is set.
    api @@
    [UsbFnMgrStartRecvEvent |->
         If("callback", Fail, Ok) & Set("callback") & If("funcMgr.fd", Ok, api.OpenEp0AndMapAddr)
         & Set("receiving"),
     UsbFnStopRecvEvent |->
         UsbFnAdapterQueueDel("funcMgr.fd") & UsbFnAdapterClosePipe("funcMgr.fd") & Null("funcMgr.fd")
         & Unset("callback") & Unset("receiving")]

------------------------------------------------------------------------------
Unless(r) == If(r, Never, Ok)

InterfaceApi(api) ==
    api @@
    [UsbFnStartRecvInterfaceEvent |-> MayFail & api.UsbFnMgrStartRecvEvent,
     UsbFnStopRecvInterfaceEvent |-> Given("receiving") & api.UsbFnStopRecvEvent,
     UsbFnOpenInterface |-> Unless("handle") & api.UsbFnIoMgrInterfaceOpen,
     UsbFnCloseInterface |-> Unless("req") & Unless("ctrlReq") & api.UsbFnIoMgrInterfaceClose,
     UsbFnGetInterfacePipeInfo |-> api.UsbFnIoMgrInterfaceGetPipeInfo]

OnRequest(Op(_, _)) == Op("req", "fd0") | Op("ctrlReq", "funcMgr.fd")

RequestApi(api) ==
    api @@
    [UsbFnAllocRequest |->
         Given("handle") & Unless("req") & MayFail
         & UsbFnIoMgrRequestAlloc("req", "map", "fd0", api.GetReqType),
     UsbFnAllocCtrlRequest |->
         Given("handle") & Unless("ctrlReq") & MayFail
         & If("funcMgr.fd", Ok, api.OpenEp0AndMapAddr)
         & UsbFnIoMgrRequestAlloc("ctrlReq", "ctrlMap", "funcMgr.fd", Ok),
     \* The clients forget the request even when it could not be freed.
     UsbFnFreeRequest |->
         Finally(UsbFnIoMgrRequestFree("req", "map", "fd0", Use("handle")), Drop(<<"req", "map">>))
         | Finally(UsbFnIoMgrRequestFree("ctrlReq", "ctrlMap", "funcMgr.fd", Ok),
                   Drop(<<"ctrlReq", "ctrlMap">>)),
     UsbFnGetRequestStatus |-> OnRequest(LAMBDA req, ep : UsbFnIoMgrRequestGetStatus(api, req, ep)),
     UsbFnSubmitRequestAsync |-> OnRequest(LAMBDA req, ep : UsbFnIoMgrRequestSubmitAsync(api, req, ep)),
     UsbFnCancelRequest |-> OnRequest(LAMBDA req, ep : UsbFnIoMgrRequestCancel(api, req, ep)),
     UsbFnSubmitRequestSync |-> OnRequest(LAMBDA req, ep : UsbFnIoMgrRequestSubmitSync(api, req, ep))]

------------------------------------------------------------------------------
EventHandlers ==
    [CollectEventHandle |->
         If("polling", Never, Ok) & Set("polling")
         & When("funcMgr.fd", When("callback", Set("polled.ep0")))
         & When("isOpen", Use("handle") & When("fd0", Set("polled.fd0"))),
     \* A completion is looked up by its buffer in the list of the handle.
     HandleEp0IoEvent |-> When("ctrlReq", Use("ctrlReq")),
     HandleEp0CtrlEvent |-> Ok,
     HandleEpsIoEvent |-> Use("handle") & When("req", Use("req"))]

EventThread(api) ==
    LET HandleEp0Event == api.HandleEp0CtrlEvent | api.HandleEp0IoEvent
        GetHandleMgr == If("isOpen", Use("handle"), Fail)
    IN  api @@
        [UsbFnEventProcess |->
             Given("polling")
             & Heedless(UsbFnAdapterPollEvent(When("polled.ep0", Ep0Event("funcMgr.fd"))
                                              & When("polled.fd0", EpEvent("fd0", "reqEvent0")))
                        & When("polled.ep0", HandleEp0Event)
                        & When("polled.fd0", GetHandleMgr & api.HandleEpsIoEvent))
             & Reset(<<"polling", "polled.ep0", "polled.fd0">>)]

\* The device may be removed once its client is done with the interface.
Removed == Each(Unless, <<"handle", "req", "ctrlReq", "receiving", "polling">>)

IoEntries ==
    LET Of(api) ==
            [Client |-> AnyOf(<<api.UsbFnOpenInterface, api.UsbFnCloseInterface,
                                api.UsbFnGetInterfacePipeInfo,
                                api.UsbFnAllocRequest, api.UsbFnAllocCtrlRequest,
                                api.UsbFnFreeRequest,
                                api.UsbFnSubmitRequestAsync, api.UsbFnSubmitRequestSync,
                                api.UsbFnCancelRequest,
                                api.UsbFnGetRequestStatus, api.UsbFnStartRecvInterfaceEvent,
                                api.UsbFnStopRecvInterfaceEvent>>),
             CollectEventHandle |-> api.CollectEventHandle,
             UsbFnEventProcess |-> api.UsbFnEventProcess,
             Removed |-> Removed]
    IN  Of(EventThread(RequestApi(InterfaceApi(EventSwitch(IoHelpers(IoHandles @@
           EventHandlers))))))

IoLives ==
    {<<"new", "Client", "new", "new">>,
     <<"new", "CollectEventHandle", "new", "new">>,
     <<"new", "UsbFnEventProcess", "new", "new">>,
     <<"new", "Removed", "gone", "gone">>}
==============================================================================
