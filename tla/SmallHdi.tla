------------------------------ MODULE SmallHdi ------------------------------
(***************************************************************************)
(* Services with few operations, and the driver of the audio HAL.          *)
(***************************************************************************)
EXTENDS HdiFields, TLC

------------------------------------------------------------------------------
(***************************************************************************)
(* Three services with few operations: the graphics memory allocator       *)
(* (display/hdi_service/gralloc), the Bluetooth host controller interface  *)
(* (bluetooth/hdi/ohos/hardware/bt/v1_0) and the connected NFC tag         *)
(* (nfc/connected_tag/v1_0).                                               *)
(***************************************************************************)
AllocInfos ==
    [UnpackAllocInfo |-> Unchecked(<<"width", "height", "64-bit usage", "format", "expectedSize">>),
     PackAllocInfo |-> Checked(<<"width", "height", "64-bit usage", "format", "expectedSize">>)]

AllocMem(api) ==
    Proxy("CMD_ALLOCATOR_ALLOCMEM", Checked(<<"token">>) & api.PackAllocInfo,
        Unchecked(<<"Status">>) & Checked(<<"BufferHandle">>))

AllocaltorStubAllocMem(api) ==
    Stub(Checked(<<"token">>) & api.UnpackAllocInfo, "AllocMem", TRUE,
         Checked(<<"Status", "BufferHandle">>))

AllocatorProxy ==
    LET Of(api) == [AllocMem |-> AllocMem(api)]
    IN  Of(AllocInfos)
AllocatorServiceStubOnRemoteRequest ==
    LET Of(api) == [CMD_ALLOCATOR_ALLOCMEM |-> AllocaltorStubAllocMem(api)]
    IN  Of(AllocInfos)

-----------------------------------------------------------------------------
(* The host controller interface and its callbacks. *)
HciProxies ==
    [HciInit |-> Proxy("CMD_INIT", Checked(<<"RemoteObject callbacks">>), Nothing),
     SendHciPacket |-> Proxy("CMD_SEND_HCI_PACKET", Checked(<<"type", "UInt8Vector packet">>), Nothing),
     HciClose |-> Proxy("CMD_CLOSE", Nothing, Nothing)]

BtHciProxy ==
    LET Of(api) == [Init |-> api.HciInit, SendHciPacket |-> api.SendHciPacket,
                       Close |-> api.HciClose]
    IN  Of(HciProxies)

HciStubs ==
    [BtHciStubInit |-> Stub(Unchecked(<<"RemoteObject callbacks">>), "Init", TRUE, Nothing),
     BtHciStubSendHciPacket |->
         Stub(Unchecked(<<"type">>) & Checked(<<"UInt8Vector packet">>), "SendHciPacket", TRUE,
              Nothing),
     BtHciStubClose |-> Stub(Nothing, "Close", TRUE, Nothing)]

BtHciStubOnRemoteRequest ==
    LET Of(api) ==
            [CMD_INIT |-> api.BtHciStubInit, CMD_SEND_HCI_PACKET |-> api.BtHciStubSendHciPacket,
             CMD_CLOSE |-> api.BtHciStubClose]
    IN  Of(HciStubs)

HciCallbackProxies ==
    [OnInited |-> Proxy("CMD_ON_INITED", Checked(<<"token", "status">>), Nothing),
     OnReceivedHciPacket |->
         Proxy("CMD_ON_RECEIVED_HCI_PACKET", Checked(<<"token", "type", "UInt8Vector packet">>),
               Nothing)]

BtHciCallbacksProxy ==
    LET Of(api) == [OnInited |-> api.OnInited,
                                OnReceivedHciPacket |-> api.OnReceivedHciPacket]
    IN  Of(HciCallbackProxies)

HciCallbackStubs ==
    [BtHciCallbacksStubOnInited |-> Stub(Unchecked(<<"status">>), "OnInited", TRUE, Nothing),
     BtHciCallbacksStubOnReceivedHciPacket |->
         Stub(Unchecked(<<"type">>) & Checked(<<"UInt8Vector packet">>), "OnReceivedHciPacket", TRUE,
              Nothing)]

BtHciCallbacksStubOnRemoteRequest ==
    LET Of(api) ==
            [CMD_ON_INITED |-> Behind(Checked(<<"token">>), api.BtHciCallbacksStubOnInited),
             CMD_ON_RECEIVED_HCI_PACKET |->
                Behind(Checked(<<"token">>), api.BtHciCallbacksStubOnReceivedHciPacket)]
    IN  Of(HciCallbackStubs)

-----------------------------------------------------------------------------
(* The connected tag. Reading it returns the text only, empty after an error. *)
TagProxies ==
    [TagInit |-> Proxy("CMD_INIT", Checked(<<"token">>), Nothing),
     TagUninit |-> Proxy("CMD_UNINIT", Checked(<<"token">>), Nothing),
     ReadNdefTag |->
         Lapsing(Proxy("CMD_READ_NDEF", Checked(<<"token">>),
                     Unchecked(<<"exception", "String ndefData">>)), {"void"}),
     WriteNdefTag |->
         Proxy("CMD_WRITE_NDEF", Checked(<<"token">>) & Unchecked(<<"status", "String ndefData">>),
             Unchecked(<<"exception", "Status">>))]

ConnectedTagProxy ==
    LET Of(api) ==
            [Init |-> api.TagInit, Uninit |-> api.TagUninit,
             ReadNdefTag |-> api.ReadNdefTag,
             WriteNdefTag |-> api.WriteNdefTag]
    IN  Of(TagProxies)

TagStubs ==
    [StubInit |-> Stub(Checked(<<"token">>), "Init", TRUE, Nothing),
     StubUninit |-> Stub(Checked(<<"token">>), "Uninit", TRUE, Nothing),
     StubReadNdef |->
         Stub(Checked(<<"token">>), "ReadNdefTag", FALSE,
              Unchecked(<<"exception", "String ndefData">>)),
     StubWriteNdef |->
         Stub(Checked(<<"token">>) & Unchecked(<<"status", "String ndefData">>), "WriteNdefTag", TRUE,
              Unchecked(<<"exception", "Status">>))]

StubOnRemoteRequest ==
    LET Of(api) ==
            [CMD_INIT |-> api.StubInit, CMD_UNINIT |-> api.StubUninit,
             CMD_READ_NDEF |-> api.StubReadNdef,
             CMD_WRITE_NDEF |-> api.StubWriteNdef]
    IN  Of(TagStubs)

------------------------------------------------------------------------------
(***************************************************************************)
(* The video layer service (display/hdi_service/video_layer: the client's  *)
(* video_layer_proxy.cpp and the server's video_layer_stub.cpp).  The      *)
(* result of the service travels in the reply, and both sides read without *)
(* checks.  Values written one after the other are an error only if none   *)
(* of them can be written.                                                 *)
(***************************************************************************)
Sending(names) == Checked(<<"token">>) & Checked(names)
Status == Unchecked(<<"Status">>)

LayerProxies ==
    [InitDisplay |-> Proxy("CMD_DISPLAY_LAYER_INIT_DISPLAY", Sending(<<"devId">>), Status),
     DeinitDisplay |-> Proxy("CMD_DISPLAY_LAYER_DEINIT_DISPLAY", Sending(<<"devId">>), Status),
     GetDisplayInfo |->
         Proxy("CMD_DISPLAY_LAYER_GET_DISPLAY_INFO", Sending(<<"devId">>),
             Status & Unchecked(<<"width", "height", "rotAngle">>)),
     CreateLayer |->
         Proxy("CMD_DISPLAY_LAYER_CREATE_LAYER",
             Sending(<<"devId">>) & Unchecked(<<"width", "height", "type", "bpp", "pixFormat">>),
             Status & Unchecked(<<"layerId">>)),
     CloseLayer |-> Proxy("CMD_DISPLAY_LAYER_CLOSE_LAYER", Sending(<<"devId", "layerId">>), Status)]

LayerPlaceProxies ==
    [SetLayerVisible |->
         Proxy("CMD_DISPLAY_LAYER_SET_LAYER_VISIBLE", Sending(<<"devId", "layerId", "visible">>),
             Status),
     GetLayerVisibleState |->
         Proxy("CMD_DISPLAY_LAYER_GET_LAYER_VISIBLE_STATE", Sending(<<"devId", "layerId">>),
             Status & Unchecked(<<"visible">>)),
     SetLayerRect |->
         Proxy("CMD_DISPLAY_LAYER_SET_LAYER_RECT",
             Sending(<<"devId", "layerId">>) & Unchecked(<<"x", "y", "w", "h">>), Status),
     GetLayerRect |->
         Proxy("CMD_DISPLAY_LAYER_GET_LAYER_RECT", Sending(<<"devId", "layerId">>),
             Status & Unchecked(<<"x", "y", "w", "h">>))]

LayerBufferProxies ==
    [SetLayerZorder |->
         Proxy("CMD_DISPLAY_LAYER_SET_LAYER_ZORDER", Sending(<<"devId", "layerId", "zorder">>), Status),
     GetLayerZorder |->
         Proxy("CMD_DISPLAY_LAYER_GET_LAYER_ZORDER", Sending(<<"devId", "layerId">>),
             Status & Unchecked(<<"zorder">>)),
     SetTransformMode |->
         Proxy("CMD_DISPLAY_LAYER_SET_TRANSFORM_MODE", Sending(<<"devId", "layerId", "type">>), Status),
     \* The fence is not sent.
     SetLayerBuffer |->
         Proxy("CMD_DISPLAY_LAYER_SET_LAYER_BUFFER", Sending(<<"devId", "layerId", "BufferHandle">>),
             Status)]

VideoLayerProxy ==
    LET Of(api) ==
            [InitDisplay |-> api.InitDisplay, DeinitDisplay |-> api.DeinitDisplay,
             GetDisplayInfo |-> api.GetDisplayInfo, CreateLayer |-> api.CreateLayer,
             CloseLayer |-> api.CloseLayer,
             SetLayerVisible |-> api.SetLayerVisible,
             GetLayerVisibleState |-> api.GetLayerVisibleState,
             SetLayerRect |-> api.SetLayerRect, GetLayerRect |-> api.GetLayerRect,
             SetLayerZorder |-> api.SetLayerZorder,
             GetLayerZorder |-> api.GetLayerZorder,
             SetTransformMode |-> api.SetTransformMode,
             SetLayerBuffer |-> api.SetLayerBuffer]
    IN  Of(LayerProxies @@ LayerPlaceProxies @@ LayerBufferProxies)

-----------------------------------------------------------------------------
Serving(names, op, puts) ==
    Stub(Checked(<<"token">>) & Unchecked(names), op, FALSE, Checked(<<"Status">>) & puts)

LayerStubs ==
    [LayerStubInitDisplay |-> Serving(<<"devId">>, "InitDisplay", Nothing),
     LayerStubDeinitDisplay |-> Serving(<<"devId">>, "DeinitDisplay", Nothing),
     LayerStubGetDisplayInfo |->
         Serving(<<"devId">>, "GetDisplayInfo", Unchecked(<<"width", "height", "rotAngle">>)),
     LayerStubCreateLayer |->
         Serving(<<"devId", "width", "height", "type", "bpp", "pixFormat">>, "CreateLayer",
             Checked(<<"layerId">>)),
     LayerStubCloseLayer |-> Serving(<<"devId", "layerId">>, "CloseLayer", Nothing),
     LayerStubSetLayerVisible |->
         Serving(<<"devId", "layerId", "visible">>, "SetLayerVisible", Nothing),
     LayerStubGetLayerVisibleState |->
         Serving(<<"devId", "layerId">>, "GetLayerVisibleState", Checked(<<"visible">>))]

LayerPlaceStubs ==
    [LayerStubSetLayerRect |->
         Serving(<<"devId", "layerId", "x", "y", "w", "h">>, "SetLayerRect", Nothing),
     LayerStubGetLayerRect |->
         Serving(<<"devId", "layerId">>, "GetLayerRect", Unchecked(<<"x", "y", "w", "h">>)),
     LayerStubSetLayerZorder |-> Serving(<<"devId", "layerId", "zorder">>, "SetLayerZorder", Nothing),
     LayerStubGetLayerZorder |->
         Serving(<<"devId", "layerId">>, "GetLayerZorder", Checked(<<"zorder">>)),
     LayerStubSetLayerTransformMode |->
         Serving(<<"devId", "layerId", "type">>, "SetTransformMode", Nothing),
     LayerStubSetLayerBuffer |->
         Stub(Checked(<<"token">>) & Unchecked(<<"devId", "layerId">>) & Checked(<<"BufferHandle">>)
              & Unchecked(<<"fence">>), "SetLayerBuffer", FALSE, Checked(<<"Status">>))]

LayerStubOnRemoteRequest ==
    LET Of(api) ==
            [CMD_DISPLAY_LAYER_INIT_DISPLAY |-> api.LayerStubInitDisplay,
             CMD_DISPLAY_LAYER_DEINIT_DISPLAY |-> api.LayerStubDeinitDisplay,
             CMD_DISPLAY_LAYER_GET_DISPLAY_INFO |-> api.LayerStubGetDisplayInfo,
             CMD_DISPLAY_LAYER_CREATE_LAYER |-> api.LayerStubCreateLayer,
             CMD_DISPLAY_LAYER_CLOSE_LAYER |-> api.LayerStubCloseLayer,
             CMD_DISPLAY_LAYER_SET_LAYER_BUFFER |-> api.LayerStubSetLayerBuffer,
             CMD_DISPLAY_LAYER_SET_LAYER_RECT |-> api.LayerStubSetLayerRect,
             CMD_DISPLAY_LAYER_GET_LAYER_RECT |-> api.LayerStubGetLayerRect,
             CMD_DISPLAY_LAYER_SET_LAYER_ZORDER |-> api.LayerStubSetLayerZorder,
             CMD_DISPLAY_LAYER_GET_LAYER_ZORDER |-> api.LayerStubGetLayerZorder,
             CMD_DISPLAY_LAYER_SET_LAYER_VISIBLE |-> api.LayerStubSetLayerVisible,
             CMD_DISPLAY_LAYER_GET_LAYER_VISIBLE_STATE |-> api.LayerStubGetLayerVisibleState,
             CMD_DISPLAY_LAYER_SET_TRANSFORM_MODE |-> api.LayerStubSetLayerTransformMode]
    IN  Of(LayerStubs @@ LayerPlaceStubs)

------------------------------------------------------------------------------
(***************************************************************************)
(* The input service and its callbacks (input/input_adapter/input_ipc:     *)
(* the client's input_proxy.cpp and input_host_callback_stub.cpp, the      *)
(* service's input_service_stub.cpp and input_host_callback_proxy.cpp).    *)
(* The proxy puts an interface token in front of every word it writes, the *)
(* stub expects one at the start of the message.  Reads are not checked.   *)
(***************************************************************************)
Word(name) == Checked(<<"token", name>>)

\* Copying from a buffer that is not there fails.
Text == Unchecked(<<"length">>) & Checked(<<"Buffer text">>)

InputPowerProxies ==
    [SetPowerStatus |->
         Proxy("CMD_INPUT_SET_POWER_STATUS", Word("devIndex") & Word("status"), Nothing),
     GetPowerStatus |-> Proxy("CMD_INPUT_GET_POWER_STATUS", Word("devIndex"), Unchecked(<<"status">>)),
     GetDeviceType |-> Proxy("CMD_INPUT_GET_DEVICE_TYPE", Word("devIndex"),
                             Unchecked(<<"deviceType">>)),
     GetChipInfo |-> Proxy("CMD_INPUT_GET_CHIP_INFO", Word("devIndex") & Word("length"), Text),
     GetVendorName |-> Proxy("CMD_INPUT_GET_VENDOR_NAME", Word("devIndex") & Word("length"), Text)]

InputTestProxies ==
    [GetChipName |-> Proxy("CMD_INPUT_GET_CHIP_NAME", Word("devIndex") & Word("length"), Text),
     SetGestureMode |->
         Proxy("CMD_INPUT_SET_GESTURE_MODE", Word("devIndex") & Word("gestureMode"), Nothing),
     \* The text is read anew for each of its three uses.
     RunCapacitanceTest |->
         Proxy("CMD_INPUT_RUN_CAPACITANCE_TEST", Word("devIndex") & Word("testType") & Word("length"),
             Unchecked(<<"String result", "String result", "String result">>)),
     RunExtraCommand |-> Proxy("CMD_INPUT_RUN_EXTRA_COMMAND", Word("devIndex"), Nothing),
     ScanInputDevice |->
         Proxy("CMD_INPUT_SCAN_DEVICE", Word("arrLen"), Unchecked(<<"length", "Buffer staArr">>))]

InputDeviceProxies ==
    [OpenInputDevice |-> Proxy("CMD_INPUT_OPNE_DEVICE", Word("devIndex"), Nothing),
     CloseInputDevice |-> Proxy("CMD_INPUT_CLOSE_DEVICE", Word("devIndex"), Nothing),
     GetInputDevice |->
         Proxy("CMD_INPUT_GET_DEVICE", Word("devIndex"), Unchecked(<<"length", "Buffer devInfo">>)),
     GetInputDeviceList |->
         Proxy("CMD_INPUT_GET_DEVICE_LIST", Word("size"),
             Unchecked(<<"devNum", "length", "Buffer devList">>)),
     RegisterReportCallback |->
         Proxy("CMD_INPUT_REGISTER_DEVICE",
             Word("devIndex") & Checked(<<"flag", "RemoteObject callback">>), Nothing),
     UnregisterReportCallback |-> Proxy("CMD_INPUT_UNREGISTER_DEVICE", Word("devIndex"), Nothing)]

HotPlugProxies ==
    \* These two send no interface token at all.
    [RegisterHotPlugCallback |->
         Proxy("CMD_INPUT_REGISTER_HOT_PLAUS_DEVICE", Checked(<<"flag", "RemoteObject callback">>),
             Nothing),
     UnregisterHotPlugCallback |-> Proxy("CMD_INPUT_UNREGISTER_HOT_PLAUS_DEVICE", Nothing, Nothing)]

InputProxy ==
    LET Of(api) ==
            [SetPowerStatus |-> api.SetPowerStatus,
             GetPowerStatus |-> api.GetPowerStatus,
             GetDeviceType |-> api.GetDeviceType, GetChipInfo |-> api.GetChipInfo,
             GetVendorName |-> api.GetVendorName, GetChipName |-> api.GetChipName,
             SetGestureMode |-> api.SetGestureMode,
             RunCapacitanceTest |-> api.RunCapacitanceTest,
             RunExtraCommand |-> api.RunExtraCommand,
             ScanInputDevice |-> api.ScanInputDevice,
             OpenInputDevice |-> api.OpenInputDevice,
             CloseInputDevice |-> api.CloseInputDevice,
             GetInputDevice |-> api.GetInputDevice,
             GetInputDeviceList |-> api.GetInputDeviceList,
             RegisterReportCallback |-> api.RegisterReportCallback,
             UnregisterReportCallback |-> api.UnregisterReportCallback,
             RegisterHotPlugCallback |-> api.RegisterHotPlugCallback,
             UnregisterHotPlugCallback |-> api.UnregisterHotPlugCallback]
    IN  Of(InputPowerProxies @@ InputTestProxies @@ InputDeviceProxies @@ HotPlugProxies)

-----------------------------------------------------------------------------
Taking(part) == Checked(<<"token">>) & part

InputDeviceStubs ==
    [InputServerStubScanInputDevice |->
         Stub(Taking(Unchecked(<<"arrLen">>)), "ScanInputDevice", TRUE,
              Checked(<<"length", "Buffer staArr">>)),
     InputServerStubOpenInputDevice |->
         Stub(Taking(Unchecked(<<"devIndex">>)), "OpenInputDevice", TRUE, Checked(<<"Status">>)),
     InputServerStubCloseInputDevice |->
         Stub(Taking(Unchecked(<<"devIndex">>)), "CloseInputDevice", TRUE, Checked(<<"Status">>)),
     InputServerStubGetInputDevice |->
         Stub(Taking(Unchecked(<<"devIndex">>)), "GetInputDevice", TRUE,
              Checked(<<"length", "Buffer devInfo">>)),
     InputServerStubGetInputDeviceList |->
         Stub(Taking(Unchecked(<<"size">>)), "GetInputDeviceList", TRUE,
              Checked(<<"devNum", "length", "Buffer devList">>))]

InputChipStubs ==
    [InputServerStubGetChipInfo |->
         Stub(Taking(Unchecked(<<"devIndex", "length">>)), "GetChipInfo", TRUE,
              Checked(<<"length", "Buffer text">>)),
     InputServerStubGetVendorName |->
         Stub(Taking(Unchecked(<<"devIndex", "length">>)), "GetVendorName", TRUE,
              Checked(<<"length", "Buffer text">>)),
     InputServerStubGetChipName |->
         Stub(Taking(Unchecked(<<"devIndex", "length">>)), "GetChipName", TRUE,
              Checked(<<"length", "Buffer text">>))]

InputCallbackStubs ==
    [InputServerStubRegisterReportCallback |->
         Stub(Taking(Unchecked(<<"devIndex", "flag">>) & Checked(<<"RemoteObject callback">>)),
              "RegisterReportCallback", FALSE, Checked(<<"Status">>)),
     InputServerStubUnregisterReportCallback |->
         Stub(Taking(Unchecked(<<"devIndex">>)), "UnregisterReportCallback", FALSE,
              Checked(<<"Status">>)),
     InputServerStubRegisterHotPlugCallback |->
         Stub(Taking(Unchecked(<<"flag">>) & Checked(<<"RemoteObject callback">>)),
              "RegisterHotPlugCallback", FALSE, Checked(<<"Status">>)),
     InputServerStubUnregisterHotPlugCallback |->
         Stub(Taking(Nothing), "UnregisterHotPlugCallback", FALSE, Checked(<<"Status">>))]

InputServerStubOnRemoteRequest ==
    LET Of(api) ==
            [CMD_INPUT_SCAN_DEVICE |-> api.InputServerStubScanInputDevice,
             CMD_INPUT_OPNE_DEVICE |-> api.InputServerStubOpenInputDevice,
             CMD_INPUT_CLOSE_DEVICE |-> api.InputServerStubCloseInputDevice,
             CMD_INPUT_GET_DEVICE |-> api.InputServerStubGetInputDevice,
             CMD_INPUT_GET_DEVICE_LIST |-> api.InputServerStubGetInputDeviceList,
             CMD_INPUT_GET_CHIP_INFO |-> api.InputServerStubGetChipInfo,
             CMD_INPUT_GET_VENDOR_NAME |-> api.InputServerStubGetVendorName,
             CMD_INPUT_GET_CHIP_NAME |-> api.InputServerStubGetChipName,
             CMD_INPUT_REGISTER_DEVICE |-> api.InputServerStubRegisterReportCallback,
             CMD_INPUT_UNREGISTER_DEVICE |-> api.InputServerStubUnregisterReportCallback,
             CMD_INPUT_REGISTER_HOT_PLAUS_DEVICE |-> api.InputServerStubRegisterHotPlugCallback,
             CMD_INPUT_UNREGISTER_HOT_PLAUS_DEVICE |-> api.InputServerStubUnregisterHotPlugCallback]
    IN  Of(InputDeviceStubs @@ InputChipStubs @@ InputCallbackStubs)

-----------------------------------------------------------------------------
(* The callbacks. A package that is larger than one event is dropped. *)
ReportProxies ==
    [ReportEventPkgCallback |->
         Lapsing(Proxy("CMD_INPUT_CALLBACK_REMOTE_REPROT_EVENT",
                     Checked(<<"token", "one event", "devIndex", "length", "RawData pkgs">>)
                     \cup Checked(<<"token", "events", "devIndex", "length", "RawData pkgs">>),
                     Nothing), {"void"}),
     ReportHotPlugEventCallback |->
         Lapsing(Proxy("CMD_INPUT_CALLBACK_REMOTE_REPROT_HOT_PLUG_EVENT",
                     Checked(<<"token", "length", "RawData event">>), Nothing), {"void"})]

CallbackProxy ==
    LET Of(api) ==
            [ReportEventPkgCallback |-> api.ReportEventPkgCallback,
             ReportHotPlugEventCallback |-> api.ReportHotPlugEventCallback]
    IN  Of(ReportProxies)

ReportStubs ==
    [InputReportEventCallbackStubOnRemoteRequest |->
         Stub(Taking(Unchecked(<<"one event", "devIndex", "length", "RawData pkgs">>)),
              "ReportEventPkgCallback", TRUE, Nothing)
         \cup Stub(Taking(Unchecked(<<"events", "devIndex", "length">>)), "none", TRUE, Nothing),
     InputReportHostEventCallbackStubOnRemoteRequest |->
         Stub(Taking(Unchecked(<<"length", "RawData event">>)), "ReportHotPlugEventCallback", TRUE,
              Nothing)]

CallbackStub ==
    LET Of(api) ==
            [CMD_INPUT_CALLBACK_REMOTE_REPROT_EVENT |-> api.InputReportEventCallbackStubOnRemoteRequest,
             CMD_INPUT_CALLBACK_REMOTE_REPROT_HOT_PLUG_EVENT |->
                api.InputReportHostEventCallbackStubOnRemoteRequest]
    IN  Of(ReportStubs)

------------------------------------------------------------------------------
(***************************************************************************)
(* The commands of the audio HAL to the audio driver model in the kernel   *)
(* (audio/supportlibs/adm_adapter), in the build without ALSA.  Controls   *)
(* of one device share the commands ELEM_WRITE, ELEM_READ and ELEM_INFO    *)
(* and are told apart by the interface and the item in the message.        *)
(* While the ring buffer of the driver stays full or empty the frame       *)
(* functions try again, and report the failure of the driver in the end.   *)
(***************************************************************************)
\* The identification of a control.
Id(iface, item) == Checked(<<iface, "String cardServiceName", item>>)

Write(id) == Proxy("ELEM_WRITE", Checked(<<"value">>) & id, Nothing)
Read(id) == Proxy("ELEM_READ", id, Checked(<<"value">>))
AudioCtlGetVolThresholdRead == Checked(<<"type", "max", "min">>)

-----------------------------------------------------------------------------
(* Rendering. *)
RenderSetVolume ==
    LET AudioCtlRenderSetVolumeSBuf == Id("DAC", "Main Playback Volume")
    IN  [AudioCtlRenderGetVolumeSBuf |-> Id("DAC", "Main Playback Volume"),
         AudioCtlRenderSetVolume |-> Write(AudioCtlRenderSetVolumeSBuf)]

RenderPause(api) ==
    LET AudioCtlRenderSetPauseBuf == Checked(<<"value">>) & Id("MIXER", "Main Playback Pause")
    IN  api @@
        [AudioCtlRenderGetVolume |-> Read(api.AudioCtlRenderGetVolumeSBuf),
         AudioCtlRenderSetPauseStu |->
             Proxy("PAUSE", AudioCtlRenderSetPauseBuf, Nothing)
             \cup Proxy("RESUME", AudioCtlRenderSetPauseBuf, Nothing)]

RenderSetMute ==
    LET AudioCtlRenderSetMuteBuf == Id("DAC", "Playback Mute")
    IN  [AudioCtlRenderSetMuteStu |-> Write(AudioCtlRenderSetMuteBuf),
         AudioCtlRenderGetMuteSBuf |-> Id("DAC", "Playback Mute")]

RenderGain(api) ==
    LET AudioCtlRenderSetGainBuf == Id("GAIN", "Mic Left Gain")
    IN  api @@
        [AudioCtlRenderGetMuteStu |-> Read(api.AudioCtlRenderGetMuteSBuf),
         AudioCtlRenderSetGainStu |-> Write(AudioCtlRenderSetGainBuf),
         AudioCtlRenderGetGainSBuf |-> Id("GAIN", "Mic Left Gain")]

RenderScene(api) ==
    \* One message for each switch of the path; the items come from the path configuration.
    LET AudioCtlRenderSceneSelectSBuf == Id("DAC", "String deviceSwitch")
    IN  api @@
        [AudioCtlRenderGetGainStu |-> Read(api.AudioCtlRenderGetGainSBuf),
         AudioCtlRenderSceneSelect |-> Write(AudioCtlRenderSceneSelectSBuf)]

RenderGainThreshold ==
    LET AudioCtlRenderSceneGetGainThresholdSBuf == Id("MIXER", "Mic Left Gain")
    IN  [AudioCtlRenderGetVolThresholdSBuf |-> Id("DAC", "Main Playback Volume"),
         AudioCtlRenderSceneGetGainThreshold |->
             Proxy("ELEM_INFO", AudioCtlRenderSceneGetGainThresholdSBuf, Checked(<<"type", "max">>))]

RenderVolThreshold(api) ==
    LET AudioCtlRenderSetChannelModeBuf == Id("AIAO", "Render Channel Mode")
    IN  api @@
        [AudioCtlRenderGetVolThreshold |->
             Proxy("ELEM_INFO", api.AudioCtlRenderGetVolThresholdSBuf,
                   AudioCtlGetVolThresholdRead),
         AudioCtlRenderSetChannelMode |-> Write(AudioCtlRenderSetChannelModeBuf)]

RenderGetChannelMode ==
    LET AudioCtlRenderGetChannelModeSBuf == Id("AIAO", "Render Channel Mode")
    IN  [AudioCtlRenderGetChannelMode |-> Read(AudioCtlRenderGetChannelModeSBuf)]

\* The internal codec for an input change, the external one for an output change.
AudioCtlRenderSetAcodecSBuf(codec) == Id("ACODEC", codec)

AudioCtlRenderChangeInAcodec(codec) == Write(AudioCtlRenderSetAcodecSBuf(codec))

RenderControls(api) ==
    LET AudioCtlRenderSetAcodecMode ==
            AudioCtlRenderChangeInAcodec("Internally Codec Enable")
            \cup AudioCtlRenderChangeInAcodec("External Codec Enable")
    IN  api @@
        [AudioInterfaceLibCtlRender |->
             [GetVolume |-> api.AudioCtlRenderGetVolume,
              SetVolume |-> api.AudioCtlRenderSetVolume,
              GetMute |-> api.AudioCtlRenderGetMuteStu,
              SetMute |-> api.AudioCtlRenderSetMuteStu,
              GetChannelMode |-> api.AudioCtlRenderGetChannelMode,
              SetChannelMode |-> api.AudioCtlRenderSetChannelMode,
              SetGain |-> api.AudioCtlRenderSetGainStu,
              GetGain |-> api.AudioCtlRenderGetGainStu,
              SceneSelect |-> api.AudioCtlRenderSceneSelect,
              GetGainThreshold |-> api.AudioCtlRenderSceneGetGainThreshold,
              SetAcodecMode |-> AudioCtlRenderSetAcodecMode,
              GetVolThreshold |-> api.AudioCtlRenderGetVolThreshold],
         \* The hardware parameters, for rendering and for capturing.
         ParamsSbufWriteBuffer |->
             Checked(<<"streamType", "channels", "rate", "periodSize", "periodCount", "format",
                       "String cardServiceName", "period", "frameSize", "isBigEndian", "isSignedData",
                       "startThreshold", "stopThreshold", "silenceThreshold">>)]

RenderHwParams(api) ==
    api @@
    [FrameSbufWriteBuffer |-> Checked(<<"bufferFrameSize", "Buffer buffer">>),
     AudioOutputRenderHwParams |-> Proxy("HW_PARAMS", api.ParamsSbufWriteBuffer, Nothing)]

AudioOutputRenderWriteFrame == Checked(<<"buffStatus">>)

RenderOutput(api) ==
    api @@
    [AudioOutputRenderWrite |-> Proxy("WRITE", api.FrameSbufWriteBuffer,
                                      AudioOutputRenderWriteFrame),
     AudioOutputRenderStartPrepare |->
         Proxy("START", Nothing, Nothing) \cup Proxy("PREPARE", Nothing, Nothing)
         \cup Proxy("RENDER_CLOSE", Nothing, Nothing),
     AudioOutputRenderOpen |-> Proxy("RENDER_OPEN", Checked(<<"String cardServiceName">>), Nothing),
     AudioOutputRenderStop |-> Proxy("STOP", Checked(<<"turnStandbyStatus">>), Nothing)]

RenderMmap(api) ==
    LET MmapDescWriteBuffer ==
            Checked(<<"64-bit mmapAddr", "memoryFd", "totalBufferFrames", "transferFrameSize",
                      "isShareable", "offset">>)
        AudioOutputRenderReqMmapBuffer == Proxy("MMAP_BUFFER", MmapDescWriteBuffer, Nothing)
        AudioOutputRenderGetMmapPosition == Proxy("MMAP_POSITION", Nothing,
                                                  Checked(<<"64-bit frames">>))
    IN  api @@
        [AudioInterfaceLibOutputRender |->
             [HwParams |-> api.AudioOutputRenderHwParams,
              Write |-> api.AudioOutputRenderWrite,
              Stop |-> api.AudioOutputRenderStop,
              StartPrepare |-> api.AudioOutputRenderStartPrepare,
              Open |-> api.AudioOutputRenderOpen,
              SetPause |-> api.AudioCtlRenderSetPauseStu,
              ReqMmapBuffer |-> AudioOutputRenderReqMmapBuffer,
              GetMmapPosition |-> AudioOutputRenderGetMmapPosition]]

AudioInterfaceLibModeRender ==
    LET Of(api) == api.AudioInterfaceLibOutputRender @@ api.AudioInterfaceLibCtlRender
    IN  Of(RenderMmap(RenderOutput(RenderHwParams(RenderControls(RenderVolThreshold(
           RenderScene(RenderGain(RenderPause(RenderSetVolume @@ RenderSetMute @@
           RenderGainThreshold @@ RenderGetChannelMode)))))))))

-----------------------------------------------------------------------------
(* Capturing. *)
CapturePause ==
    LET AudioCtlCaptureSetPauseBuf == Checked(<<"value">>) & Id("MIXER", "Main Playback Pause")
    IN  [AudioCtlCaptureSetPauseStu |->
             Proxy("PAUSE", AudioCtlCaptureSetPauseBuf, Nothing)
             \cup Proxy("RESUME", AudioCtlCaptureSetPauseBuf, Nothing),
         AudioCtlCaptureGetVolumeSBuf |-> Id("ADC", "Main Capture Volume")]

CaptureVolume(api) ==
    LET AudioCtlCaptureSetVolumeSBuf == Id("ADC", "Main Capture Volume")
    IN  api @@
        [AudioCtlCaptureGetVolume |-> Read(api.AudioCtlCaptureGetVolumeSBuf),
         AudioCtlCaptureSetVolume |-> Write(AudioCtlCaptureSetVolumeSBuf)]

CaptureMute ==
    LET AudioCtlCaptureSetMuteSBuf == Id("ADC", "Capture Mute")
        AudioCtlCaptureGetMuteSBuf == Id("ADC", "Capture Mute")
    IN  [AudioCtlCaptureSetMuteStu |-> Write(AudioCtlCaptureSetMuteSBuf),
         AudioCtlCaptureGetMuteStu |-> Read(AudioCtlCaptureGetMuteSBuf)]

CaptureGain ==
    LET AudioCtlCaptureSetGainSBuf == Id("GAIN", "Mic Left Gain")
        AudioCtlCaptureGetGainSBuf == Id("GAIN", "Mic Left Gain")
    IN  [AudioCtlCaptureSetGainStu |-> Write(AudioCtlCaptureSetGainSBuf),
         AudioCtlCaptureGetGainStu |-> Read(AudioCtlCaptureGetGainSBuf)]

CaptureScene ==
    LET AudioCtlCaptureSceneSelectSBuf == Id("SELECT", "String deviceSwitch")
    IN  [AudioCtlCaptureSceneSelect |-> Write(AudioCtlCaptureSceneSelectSBuf),
         AudioCtlCaptureGetGainThresholdSBuf |-> Id("MIXER", "Mic Left Gain")]

CaptureThresholds(api) ==
    api @@
    [AudioCtlCaptureGetGainThreshold |->
         Proxy("ELEM_INFO", api.AudioCtlCaptureGetGainThresholdSBuf,
               Checked(<<"type", "max">>)),
     AudioCtlCaptureGetVolThresholdSBuf |-> Id("ADC", "Main Capture Volume")]

AudioCtlCaptureGetVolThreshold(api) ==
    Proxy("ELEM_INFO", api.AudioCtlCaptureGetVolThresholdSBuf,
          AudioCtlGetVolThresholdRead)

AudioCtlCaptureSetAcodecSBuf(codec) == Id("ACODEC", codec)
AudioCtlCaptureChangeInAcodec(codec) == Write(AudioCtlCaptureSetAcodecSBuf(codec))

CaptureControls(api) ==
    LET AudioCtlCaptureSetAcodecMode ==
            AudioCtlCaptureChangeInAcodec("Internally Codec Enable")
            \cup AudioCtlCaptureChangeInAcodec("External Codec Enable")
    IN  api @@
        [AudioInterfaceLibCtlCapture |->
             [SetVolume |-> api.AudioCtlCaptureSetVolume,
              SetMute |-> api.AudioCtlCaptureSetMuteStu,
              GetMute |-> api.AudioCtlCaptureGetMuteStu,
              GetVolume |-> api.AudioCtlCaptureGetVolume,
              SetGain |-> api.AudioCtlCaptureSetGainStu,
              GetGain |-> api.AudioCtlCaptureGetGainStu,
              SceneSelect |-> api.AudioCtlCaptureSceneSelect,
              GetGainThreshold |-> api.AudioCtlCaptureGetGainThreshold,
              SetAcodecMode |-> AudioCtlCaptureSetAcodecMode,
              GetVolThreshold |-> AudioCtlCaptureGetVolThreshold(api)],
         AudioOutputCaptureHwParams |-> Proxy("HW_PARAMS", api.ParamsSbufWriteBuffer,
                                              Nothing)]

CaptureFrame ==
    [AudioOutputCaptureOpen |-> Proxy("CAPTURE_OPEN", Checked(<<"String cardServiceName">>), Nothing),
     AudioOutputCaptureReadFrame |-> Checked(<<"buffStatus">>)]

CaptureInput(api) ==
    api @@
    [AudioOutputCaptureRead |->
         Proxy("READ", Nothing, api.AudioOutputCaptureReadFrame
               & Checked(<<"Buffer frame", "frameCount">>)),
     AudioOutputCaptureStartPrepare |->
         Proxy("START_CAPTURE", Nothing, Nothing) \cup Proxy("PREPARE_CAPTURE", Nothing, Nothing)
         \cup Proxy("CAPTURE_CLOSE", Nothing, Nothing),
     AudioOutputCaptureStop |-> Proxy("STOP_CAPTURE", Checked(<<"turnStandbyStatus">>), Nothing),
     MmapDescWriteBufferCapture |->
         Checked(<<"64-bit mmapAddr", "memoryFd", "totalBufferFrames", "transferFrameSize",
                   "isShareable", "offset">>)]

CaptureMmap(api) ==
    LET AudioOutputCaptureReqMmapBuffer ==
            Proxy("MMAP_BUFFER_CAPTURE", api.MmapDescWriteBufferCapture, Nothing)
        AudioOutputCaptureGetMmapPosition ==
            Proxy("MMAP_POSITION_CAPTURE", Nothing, Checked(<<"64-bit frames">>))
    IN  api @@
        [AudioInterfaceLibOutputCapture |->
             [HwParams |-> api.AudioOutputCaptureHwParams,
              Read |-> api.AudioOutputCaptureRead,
              StartPrepare |-> api.AudioOutputCaptureStartPrepare,
              Open |-> api.AudioOutputCaptureOpen,
              Stop |-> api.AudioOutputCaptureStop,
              SetPause |-> api.AudioCtlCaptureSetPauseStu,
              ReqMmapBuffer |-> AudioOutputCaptureReqMmapBuffer,
              GetMmapPosition |-> AudioOutputCaptureGetMmapPosition]]

AudioInterfaceLibModeCapture ==
    LET Of(api) == api.AudioInterfaceLibOutputCapture @@ api.AudioInterfaceLibCtlCapture
    IN  Of(CaptureMmap(CaptureInput(CaptureControls(CaptureThresholds(CaptureVolume(
           RenderControls(RenderVolThreshold(RenderScene(RenderGain(RenderPause(
           RenderSetVolume @@ RenderSetMute @@ RenderGainThreshold @@ RenderGetChannelMode @@
           CapturePause @@ CaptureMute @@ CaptureGain @@ CaptureScene @@ CaptureFrame)))))))))))
==============================================================================
