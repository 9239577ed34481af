------------------------------- MODULE UsbdHdi -------------------------------
(***************************************************************************)
(* The USB service (usb/hal), its client and its dispatcher.               *)
(***************************************************************************)
EXTENDS HdiFields, TLC

------------------------------------------------------------------------------
(***************************************************************************)
(* The client side of the USB service (usb/hal/client), which runs in the  *)
(* USB system service, and the service side of the notifications it        *)
(* subscribes to.  The parcels are local objects of each function.         *)
(***************************************************************************)
\* The callers ignore the result.
SetDeviceMessage == Unchecked(<<"busNum", "devAddr">>)

Device == Checked(<<"token">>) & SetDeviceMessage
Pipe == Checked(<<"interfaceId", "endpointId">>)

\* The pipe of an interrupt or an isochronous transfer is of that type.
OtherPipe == Checked(<<"interfaceId", "other endpointId">>)

SetBufferMessage(buffer) == Checked(<<"no size">>) \cup Checked(<<"size", buffer>>)
GetBufferMessage(buffer) == Checked(<<"no size">>) \cup Checked(<<"size", buffer>>)

ClientSession ==
    [BindUsbdSubscriber |->
         Proxy("CMD_BIND_USB_SUBSCRIBER",
             Checked(<<"token">>) & Unchecked(<<"RemoteObject subscriber">>), Nothing),
     UnbindUsbdSubscriber |->
         Proxy("CMD_UNBIND_USB_SUBSCRIBER",
             Checked(<<"token">>) & Unchecked(<<"RemoteObject subscriber">>), Nothing),
     OpenDevice |-> Proxy("CMD_FUN_OPEN_DEVICE", Device, Nothing),
     GetCurrentFunctions |->
         Proxy("CMD_FUN_GET_CURRENT_FUNCTIONS", Checked(<<"token">>), Checked(<<"funcs">>)),
     SetCurrentFunctions |->
         Proxy("CMD_FUN_SET_CURRENT_FUNCTIONS", Checked(<<"token", "funcs">>), Nothing),
     SetPortRole |->
         Proxy("CMD_SET_ROLE", Checked(<<"token", "portId", "powerRole", "dataRole">>), Nothing),
     \* The reply is read before the result of the dispatch is looked at, and is empty when that is
     \* an error.
     QueryPort |->
         Proxy("CMD_QUERY_PORT", Checked(<<"token">>),
             Checked(<<"portId", "powerRole", "dataRole", "mode">>))]

ClientDescriptors ==
    [GetRawDescriptor |->
         Proxy("CMD_FUN_GET_DESCRIPTOR", Device, GetBufferMessage("Buffer descriptor")),
     GetFileDescriptor |-> Proxy("CMD_FUN_GET_FILEDESCRIPTOR", Device, Checked(<<"fd">>)),
     GetDeviceDescriptor |->
         Proxy("CMD_FUN_GET_DEVICE_DESCRIPTOR", Device, GetBufferMessage("Buffer descriptor")),
     GetStringDescriptor |->
         Proxy("CMD_FUN_GET_STRING_DESCRIPTOR", Device & Checked(<<"descId">>),
             GetBufferMessage("Buffer descriptor")),
     GetConfigDescriptor |->
         Proxy("CMD_FUN_GET_CONFIG_DESCRIPTOR", Device & Checked(<<"descId">>),
             GetBufferMessage("Buffer descriptor")),
     SetConfig |-> Proxy("CMD_FUN_SET_CONFIG", Device & Checked(<<"configIndex">>), Nothing),
     \* The index is looked for in the message and not in the reply. The read position of the message
     \* is still at its start, where the token is.
     GetConfig |-> Proxy("CMD_FUN_GET_CONFIG", Device, Checked(<<"configIndex in message">>))]

ClientInterfaces ==
    [ClaimInterface |->
         Proxy("CMD_FUN_CLAIM_INTERFACE", Device & Checked(<<"interfaceIndex", "force">>), Nothing),
     ReleaseInterface |->
         Proxy("CMD_FUN_RELEASE_INTERFACE", Device & Checked(<<"interfaceIndex">>), Nothing),
     SetInterface |->
         Proxy("CMD_FUN_SET_INTERFACE", Device & Checked(<<"interfaceIndex", "altIndex">>), Nothing),
     BulkTransferRead |->
         Proxy("CMD_FUN_SEND_BULK_READ_SYNC", Device & Pipe & Checked(<<"timeout">>),
             GetBufferMessage("Buffer bufferData")),
     BulkTransferWrite |->
         Proxy("CMD_FUN_SEND_BULK_WRITE_SYNC",
             Device & Pipe & Checked(<<"timeout">>) & SetBufferMessage("Buffer bufferData"), Nothing)]

ClientTransfers ==
    \* The direction of the request decides which way the buffer travels.
    [ControlTransfer |->
         Proxy("CMD_FUN_SEND_CTRL_REQUEST_SYNC",
             Device & Checked(<<"requestType out", "requestCmd", "value", "index", "timeout">>)
               & SetBufferMessage("Buffer bufferData"),
             Nothing)
         \cup
         Proxy("CMD_FUN_SEND_CTRL_REQUEST_SYNC",
             Device & Checked(<<"requestType in", "requestCmd", "value", "index", "timeout">>),
             GetBufferMessage("Buffer bufferData")),
     InterruptTransferRead |->
         Proxy("CMD_FUN_SEND_INTERRUPT_READ_SYNC", Device & OtherPipe & Checked(<<"timeout">>),
             GetBufferMessage("Buffer bufferData")),
     InterruptTransferWrite |->
         Proxy("CMD_FUN_SEND_INTERRUPT_WRITE_SYNC",
             Device & OtherPipe & Checked(<<"timeout">>) & SetBufferMessage("Buffer bufferData"),
             Nothing),
     IsoTransferRead |->
         Proxy("CMD_FUN_SEND_ISO_READ_SYNC", Device & OtherPipe & Checked(<<"timeout">>),
             GetBufferMessage("Buffer bufferData")),
     IsoTransferWrite |->
         Proxy("CMD_FUN_SEND_ISO_WRITE_SYNC",
             Device & OtherPipe & Checked(<<"timeout">>) & SetBufferMessage("Buffer bufferData"),
             Nothing)]

ClientRequests ==
    [CloseDevice |-> Proxy("CMD_FUN_CLOSE_DEVICE", Device, Nothing),
     RequestQueue |->
         Proxy("CMD_FUN_REQUEST_QUEUE",
             Device & Pipe & SetBufferMessage("Buffer clientData") & SetBufferMessage("Buffer buffer"),
             Nothing),
     RequestWait |->
         Proxy("CMD_FUN_REQUEST_WAIT", Device & Checked(<<"timeout">>),
             GetBufferMessage("Buffer clientData") & GetBufferMessage("Buffer buffer")),
     RequestCancel |-> Proxy("CMD_FUN_REQUEST_CANCEL", Device & Pipe, Nothing)]

ClientBulk ==
    [RegBulkCallback |->
         Proxy("CMD_FUN_REG_BULK_CALLBACK", Device & Pipe & Checked(<<"RemoteObject cb">>), Nothing),
     UnRegBulkCallback |-> Proxy("CMD_FUN_UNREG_BULK_CALLBACK", Device & Pipe, Nothing),
     \* A shared memory travels as its descriptor and its size.
     BulkRead |->
         Proxy("CMD_FUN_SEND_BULK_READ_ASYNC",
             Device & Pipe & Checked(<<"FileDescriptor fd", "size">>), Nothing),
     BulkWrite |->
         Proxy("CMD_FUN_SEND_BULK_WRITE_ASYNC",
             Device & Pipe & Checked(<<"FileDescriptor fd", "size">>), Nothing),
     BulkCancel |-> Proxy("CMD_FUN_BULK_CANCEL", Device & Pipe, Nothing)]

\* The operations of the service and the functions that ask for them.
Calls ==
    LET Of(api) ==
            [BindUsbSubscriber |-> api.BindUsbdSubscriber,
             UnbindUsbSubscriber |-> api.UnbindUsbdSubscriber,
             OpenDevice |-> api.OpenDevice, CloseDevice |-> api.CloseDevice,
             GetCurrentFunctions |-> api.GetCurrentFunctions,
             SetCurrentFunctions |-> api.SetCurrentFunctions,
             SetRole |-> api.SetPortRole, QueryPort |-> api.QueryPort,
             GetRawDeviceDescriptor |-> api.GetRawDescriptor,
             GetFileDescriptor |-> api.GetFileDescriptor,
             GetDeviceDescriptor |-> api.GetDeviceDescriptor,
             GetStringDescriptor |-> api.GetStringDescriptor,
             GetConfigDescriptor |-> api.GetConfigDescriptor,
             SetActiveConfig |-> api.SetConfig,
             GetActiveConfig |-> api.GetConfig,
             ClaimInterface |-> api.ClaimInterface,
             ReleaseInterface |-> api.ReleaseInterface,
             SetInterface |-> api.SetInterface,
             BulkReadSync |-> api.BulkTransferRead,
             BulkWriteSync |-> api.BulkTransferWrite,
             InterruptReadSync |-> api.InterruptTransferRead,
             InterruptWriteSync |-> api.InterruptTransferWrite,
             IsoReadSync |-> api.IsoTransferRead, IsoWriteSync |-> api.IsoTransferWrite,
             ControlTransfer |-> api.ControlTransfer,
             RequestQueue |-> api.RequestQueue, RequestWait |-> api.RequestWait,
             RequestCancel |-> api.RequestCancel,
             RegBulkCallback |-> api.RegBulkCallback, UnRegBulkCallback |-> api.UnRegBulkCallback,
             BulkRead |-> api.BulkRead, BulkWrite |-> api.BulkWrite,
             BulkCancel |-> api.BulkCancel]
    IN  Of(ClientSession @@ ClientDescriptors @@ ClientInterfaces @@ ClientTransfers @@
           ClientRequests @@ ClientBulk)

-----------------------------------------------------------------------------
(* The subscriber. *)
SubscriberParsers ==
    [ParserUsbInfo |-> Checked(<<"status", "busNum", "devNum">>),
     ParserPortInfo |-> Checked(<<"portId", "powerRole", "dataRole", "mode">>)]

OnRemoteRequest ==
    LET Of(api) ==
            [CMD_NOTIFY_SUBSCRIBER_DEVICE_EVENT |->
                Stub(Checked(<<"token">>) & api.ParserUsbInfo, "DeviceEvent", TRUE, Nothing),
             CMD_NOTIFY_PORT_CHANGED |->
                Stub(Checked(<<"token">>) & api.ParserPortInfo, "PortChangedEvent", TRUE,
                     Nothing)]
    IN  Of(SubscriberParsers)

------------------------------------------------------------------------------
(***************************************************************************)
(* The service side of the USB service (usb/hal/service) and the           *)
(* notifications it sends to its subscriber.                               *)
(***************************************************************************)
\* An empty buffer is its length only.
UsbdHdfWriteBuf(buffer) == Checked(<<"no size">>) \cup Checked(<<"size", buffer>>)

ReadBuffer(buffer) == Checked(<<"no size">>) \cup Checked(<<"size", buffer>>)

\* Mutant: the address is read first.
ParseDeviceSwapped == Unchecked(<<"devAddr", "busNum">>)

ParseDeviceBuf == Unchecked(<<"busNum", "devAddr">>)

UsbdBulkReadSyncGetParams ==
    Checked(<<"interfaceId", "endpointId", "timeout">>)
    \cup Checked(<<"interfaceId", "other endpointId", "timeout">>)

FunBulkWriteSyncGetParam ==
    Checked(<<"interfaceId", "endpointId", "timeout">>)
    \cup Checked(<<"interfaceId", "other endpointId", "timeout">>)

\* The pipe found for the endpoint must be a bulk pipe.
BulkOnly(forms) ==
    {f \in forms : \A i \in DOMAIN f : f[i].name # "other endpointId"}
    \cup ({f \in forms : \E i \in DOMAIN f : f[i].name = "other endpointId"}
            & Failing(<<"bulk pipe">>))

\* Nothing is replied when nothing was read.
FunBulkReadSync(op) ==
    Stub(BulkOnly(UsbdBulkReadSyncGetParams), op, TRUE,
         Nothing \cup Checked(<<"size", "Buffer bufferData">>))

FunBulkWriteSync(op) ==
    Stub(BulkOnly(FunBulkWriteSyncGetParam & ReadBuffer("Buffer bufferData")),
         op, TRUE, Nothing)

ControlStub ==
    LET CtrlTranParamGetReqType(direction) ==
            IF direction = "requestType out" THEN ReadBuffer("Buffer bufferData") ELSE Nothing
        CtrlTransferParamInit(direction) ==
            Checked(<<direction, "requestCmd", "value", "index", "timeout">>)
              & CtrlTranParamGetReqType(direction)
    \* A request from the device always replies with the whole buffer. A reply that cannot be
    \* written is only logged.
    IN  [FunControlTransfer |->
             Stub(CtrlTransferParamInit("requestType out"), "ControlTransfer", TRUE, Nothing)
             \cup Stub(CtrlTransferParamInit("requestType in"), "ControlTransfer", TRUE,
                       Unchecked(<<"size", "Buffer bufferData">>))]

ClaimStubs ==
    [FunClaimInterface |-> Stub(Checked(<<"interfaceIndex", "force">>), "ClaimInterface", TRUE,
                                Nothing),
     FunReleaseInterface |-> Stub(Checked(<<"interfaceIndex">>), "ReleaseInterface", TRUE, Nothing)]

DescriptorStubs ==
    [FunGetDeviceDescriptor |->
         Stub(Nothing, "GetDeviceDescriptor", TRUE, UsbdHdfWriteBuf("Buffer descriptor")),
     FunGetConfigDescriptor |->
         Stub(Checked(<<"descId">>), "GetConfigDescriptor", TRUE, UsbdHdfWriteBuf("Buffer descriptor")),
     FunGetStringDescriptor |->
         Stub(Checked(<<"descId">>), "GetStringDescriptor", TRUE, UsbdHdfWriteBuf("Buffer descriptor"))]

FunGetActiveConfig == Stub(Nothing, "GetActiveConfig", TRUE, Checked(<<"configIndex">>))

ConfigStubs ==
    [FunSetActiveConfig |-> Stub(Checked(<<"configIndex">>), "SetActiveConfig", TRUE, Nothing),
     FunSetInterface |-> Stub(Checked(<<"interfaceIndex", "altIndex">>), "SetInterface", TRUE, Nothing)]

UsbdHdfReadBufAndMalloc(buffer) == Checked(<<"no size">>) \cup Checked(<<"size", buffer>>)
UsbReqQueueParamInfo == Checked(<<"interfaceId", "endpointId">>)

FunRequestQueue ==
    Stub(UsbReqQueueParamInfo & UsbdHdfReadBufAndMalloc("Buffer clientData")
           & UsbdHdfReadBufAndMalloc("Buffer buffer"),
         "RequestQueue", TRUE, Nothing)

RequestStubs ==
    [FunRequestWait |->
         Stub(Checked(<<"timeout">>), "RequestWait", TRUE,
              UsbdHdfWriteBuf("Buffer clientData") & UsbdHdfWriteBuf("Buffer buffer")),
     FunRequestCancel |->
         Stub(Checked(<<"interfaceId", "endpointId">>), "RequestCancel", TRUE, Nothing),
     FunOpenDevice |-> Stub(Nothing, "OpenDevice", TRUE, Nothing),
     FunCloseDevice |-> Stub(Nothing, "CloseDevice", TRUE, Nothing),
     FunSetRole |->
         Stub(Checked(<<"portId", "powerRole", "dataRole">>), "SetRole", TRUE,
              Unchecked(<<"Status">>))]

PortStubs ==
    [FunQueryPort |->
         Stub(Nothing, "QueryPort", TRUE, Unchecked(<<"portId", "powerRole", "dataRole", "mode">>)),
     FunGetCurrentFunctions |-> Stub(Nothing, "GetCurrentFunctions", TRUE, Unchecked(<<"funcs">>)),
     FunSetCurrentFunctions |-> Stub(Unchecked(<<"funcs">>), "SetCurrentFunctions", TRUE, Nothing),
     DispatchBindUsbSubscriber |->
         Stub(Checked(<<"RemoteObject subscriber">>), "BindUsbSubscriber", TRUE, Nothing),
     DispatchUnbindUsbSubscriber |-> Stub(Nothing, "UnbindUsbSubscriber", TRUE, Nothing),
     FunGetRawDeviceDescriptor |->
         Stub(Nothing, "GetRawDeviceDescriptor", TRUE, UsbdHdfWriteBuf("Buffer descriptor")),
     FunGetFileDescriptor |-> Stub(Nothing, "GetFileDescriptor", TRUE, Checked(<<"fd">>))]

BulkCallbackStubs ==
    [FunRegBulkCallback |->
         Stub(Checked(<<"interfaceId", "endpointId", "RemoteObject cb">>),
              "RegBulkCallback", TRUE, Nothing),
     FunUnRegBulkCallback |->
         Stub(Checked(<<"interfaceId", "endpointId">>), "UnRegBulkCallback", TRUE, Nothing)]

BulkCancelStubs ==
    [FunBulkCancel |-> Stub(Checked(<<"interfaceId", "endpointId">>), "BulkCancel", TRUE, Nothing),
     UsbdGetBulkParams |-> Checked(<<"interfaceId", "endpointId", "FileDescriptor fd", "size">>)]

BulkStubs(api) ==
    api @@
    [FunBulkRead |-> Stub(api.UsbdGetBulkParams, "BulkRead", TRUE, Nothing),
     FunBulkWrite |-> Stub(api.UsbdGetBulkParams, "BulkWrite", TRUE, Nothing)]

DispatchSwitches(api) ==
    LET DispatchSwitchHost ==
            [CMD_FUN_OPEN_DEVICE |-> api.FunOpenDevice,
             CMD_FUN_CLOSE_DEVICE |-> api.FunCloseDevice,
             CMD_FUN_SEND_BULK_READ_ASYNC |-> api.FunBulkRead,
             CMD_FUN_SEND_BULK_WRITE_ASYNC |-> api.FunBulkWrite,
             CMD_FUN_SEND_BULK_READ_SYNC |-> FunBulkReadSync("BulkReadSync"),
             CMD_FUN_SEND_INTERRUPT_READ_SYNC |-> FunBulkReadSync("InterruptReadSync"),
             CMD_FUN_SEND_ISO_READ_SYNC |-> FunBulkReadSync("IsoReadSync"),
             CMD_FUN_SEND_BULK_WRITE_SYNC |-> FunBulkWriteSync("BulkWriteSync"),
             CMD_FUN_SEND_INTERRUPT_WRITE_SYNC |-> FunBulkWriteSync("InterruptWriteSync"),
             CMD_FUN_SEND_ISO_WRITE_SYNC |-> FunBulkWriteSync("IsoWriteSync"),
             CMD_FUN_GET_DESCRIPTOR |-> api.FunGetRawDeviceDescriptor,
             CMD_FUN_GET_FILEDESCRIPTOR |-> api.FunGetFileDescriptor,
             CMD_FUN_REG_BULK_CALLBACK |-> api.FunRegBulkCallback,
             CMD_FUN_UNREG_BULK_CALLBACK |-> api.FunUnRegBulkCallback,
             CMD_FUN_BULK_CANCEL |-> api.FunBulkCancel]
        DispatchSwitchDevice ==
            [CMD_SET_ROLE |-> api.FunSetRole, CMD_QUERY_PORT |-> api.FunQueryPort,
             CMD_FUN_GET_CURRENT_FUNCTIONS |-> api.FunGetCurrentFunctions,
             CMD_FUN_SET_CURRENT_FUNCTIONS |-> api.FunSetCurrentFunctions]
    IN  api @@
        [DispatchSwitch |->
             DispatchSwitchHost @@ DispatchSwitchDevice @@
             [CMD_BIND_USB_SUBSCRIBER |-> api.DispatchBindUsbSubscriber,
              CMD_UNBIND_USB_SUBSCRIBER |-> api.DispatchUnbindUsbSubscriber,
              CMD_FUN_SEND_CTRL_REQUEST_SYNC |-> api.FunControlTransfer,
              CMD_FUN_GET_DEVICE_DESCRIPTOR |-> api.FunGetDeviceDescriptor,
              CMD_FUN_GET_CONFIG_DESCRIPTOR |-> api.FunGetConfigDescriptor,
              CMD_FUN_GET_STRING_DESCRIPTOR |-> api.FunGetStringDescriptor,
              CMD_FUN_REQUEST_QUEUE |-> FunRequestQueue,
              CMD_FUN_REQUEST_WAIT |-> api.FunRequestWait,
              CMD_FUN_REQUEST_CANCEL |-> api.FunRequestCancel,
              CMD_FUN_CLAIM_INTERFACE |-> api.FunClaimInterface,
              CMD_FUN_RELEASE_INTERFACE |-> api.FunReleaseInterface,
              CMD_FUN_SET_CONFIG |-> api.FunSetActiveConfig,
              CMD_FUN_GET_CONFIG |-> FunGetActiveConfig,
              CMD_FUN_SET_INTERFACE |-> api.FunSetInterface]]

\* The commands that are for a device, which must be known and open.
FilterCmd(cmd) ==
    cmd \notin {"CMD_FUN_GET_CURRENT_FUNCTIONS", "CMD_FUN_SET_CURRENT_FUNCTIONS", "CMD_SET_ROLE",
                "CMD_QUERY_PORT", "CMD_BIND_USB_SUBSCRIBER", "CMD_UNBIND_USB_SUBSCRIBER"}

UsbdServiceDispatch ==
    LET Of(api) ==
            [cmd \in DOMAIN api.DispatchSwitch |->
                Behind(Checked(<<"token">>) & (IF FilterCmd(cmd) THEN ParseDeviceBuf ELSE Nothing),
                       api.DispatchSwitch[cmd])]
    IN  Of(DispatchSwitches(BulkStubs(ControlStub @@ ClaimStubs @@ DescriptorStubs @@
           ConfigStubs @@ RequestStubs @@ PortStubs @@ BulkCallbackStubs @@ BulkCancelStubs)))

-----------------------------------------------------------------------------
(* The notifications. A failure is only logged. *)
Notices ==
    [NotifySubscriberDevice |->
         Lapsing(Proxy("CMD_NOTIFY_SUBSCRIBER_DEVICE_EVENT",
                     Checked(<<"token">>) & Unchecked(<<"status", "busNum", "devNum">>), Nothing),
                 {"void"}),
     NotifyUsbPortSubscriber |->
         Lapsing(Proxy("CMD_NOTIFY_PORT_CHANGED",
                     Checked(<<"token">>) & Unchecked(<<"portId", "powerRole", "dataRole", "mode">>),
                     Nothing),
                 {"void"})]

Notifications ==
    LET Of(api) ==
            [DeviceEvent |-> api.NotifySubscriberDevice,
             PortChangedEvent |-> api.NotifyUsbPortSubscriber]
    IN  Of(Notices)
==============================================================================
