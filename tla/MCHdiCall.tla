----------------------------- MODULE MCHdiCall -----------------------------
(***************************************************************************)
(* Every HDI service of the repository, by the tables of its proxy and of  *)
(* its stub, under the call machine of HdiCall.  A service whose stub is   *)
(* in the kernel has a Peer that answers as the code expects.  The calls   *)
(* that break a promise are named, promise by promise, and every other one *)
(* is checked to keep it.                                                  *)
(***************************************************************************)
EXTENDS HdiCall

Display == INSTANCE DisplayHdi
Audio == INSTANCE AudioHdi
BtAudio == INSTANCE BtAudioHdi
Usbd == INSTANCE UsbdHdi
Wlan == INSTANCE WlanHdi
Codec == INSTANCE CodecHdi
Camera == INSTANCE CameraHdi
Small == INSTANCE SmallHdi

MCCalls ==
    [display |-> Display!Calls, audio |-> Audio!Calls, btaudio |-> BtAudio!Calls,
     usbd |-> Usbd!Calls, usbd_subscriber |-> Usbd!Notifications,
     wlan |-> Wlan!IwifiConstruct, wlan_callback |-> Wlan!WifiServiceCallback,
     wlan_driver |-> Wlan!DriverCalls,
     codec |-> Codec!CodecIpmlConstruct, codec_callback |-> Codec!CodecCallbackProxyConstruct,
     codec_component |-> Codec!Calls,
     component_callback |-> Codec!CodecCallbackTypeProxyConstruct,
     camera_host |-> Camera!CameraHostProxy, camera_device |-> Camera!CameraDeviceProxy,
     camera_operator |-> Camera!StreamOperatorProxy,
     camera_offline |-> Camera!OfflineStreamOperatorProxy, camera_callback |-> Camera!Callbacks,
     video_layer |-> Small!VideoLayerProxy, allocator |-> Small!AllocatorProxy,
     bt_hci |-> Small!BtHciProxy, bt_hci_callback |-> Small!BtHciCallbacksProxy,
     nfc_tag |-> Small!ConnectedTagProxy,
     input |-> Small!InputProxy, input_callback |-> Small!CallbackProxy,
     adm_render |-> Small!AudioInterfaceLibModeRender, adm_capture |-> Small!AudioInterfaceLibModeCapture]
MCHandlers ==
    [display |-> Display!g_displayDeviceServerFuncTbl, audio |-> Audio!HdiServiceDispatch,
     btaudio |-> BtAudio!HdiServiceDispatch,
     usbd |-> Usbd!UsbdServiceDispatch, usbd_subscriber |-> Usbd!OnRemoteRequest,
     wlan |-> Wlan!WlanHdiServiceOnRemoteRequest,
     wlan_callback |-> Wlan!ServiceManagerTestCallbackDispatch,
     wlan_driver |-> Peer(Wlan!DriverCalls),
     codec |-> Codec!CodecServiceOnRemoteRequest,
     codec_callback |-> Codec!CodecCallbackServiceOnRemoteRequest,
     codec_component |-> Codec!CodecComponentTypeServiceOnRemoteRequest,
     component_callback |-> Codec!CodecCallbackTypeServiceOnRemoteRequest,
     camera_host |-> Camera!CameraHostServiceStubOnRemoteRequest,
     camera_device |-> Camera!CameraDeviceStubOnRemoteRequest,
     camera_operator |-> Camera!StreamOperatorStubOnRemoteRequest,
     camera_offline |-> Camera!OfflineStreamOperatorStubOnRemoteRequest,
     camera_callback |-> Camera!CallbacksStub,
     video_layer |-> Small!LayerStubOnRemoteRequest,
     allocator |-> Small!AllocatorServiceStubOnRemoteRequest,
     bt_hci |-> Small!BtHciStubOnRemoteRequest,
     bt_hci_callback |-> Small!BtHciCallbacksStubOnRemoteRequest,
     nfc_tag |-> Small!StubOnRemoteRequest,
     input |-> Small!InputServerStubOnRemoteRequest, input_callback |-> Small!CallbackStub,
     adm_render |-> Peer(Small!AudioInterfaceLibModeRender),
     adm_capture |-> Peer(Small!AudioInterfaceLibModeCapture)]

-----------------------------------------------------------------------------
(* The calls that do not keep a promise. *)

Among(exceptions) == service \in DOMAIN exceptions /\ op \in exceptions[service]

Mangled ==
    [display |-> {"CreateVirtualDisplay", "DeinitDisplay", "SetDisplayProperty",
                  "SetLayerColorKey", "SetLayerDirtyRegion", "SetLayerVisibleRegion"},
     camera_device |-> {"UpdateSettings"},
     camera_operator |-> {"Capture", "CommitStreams", "IsStreamsSupported"},
     camera_callback |-> {"OnResult"},
     video_layer |-> {"SetLayerBuffer"},
     input |-> {"GetChipInfo", "GetChipName", "GetVendorName", "RegisterHotPlugCallback"}]

Unfounded ==
    [display |-> Mangled.display \cup
                 {"GetDisplayCompChange", "GetDisplayReleaseFence", "GetLayerZorder",
                  "RegDisplayVBlankCallback", "RegHotPlugCallback", "SetDisplayClientBuffer",
                  "SetDisplayClientCrop"},
     wlan_callback |-> {"ResetDriverEvent", "ScanResultEvent"},
     usbd |-> {"GetActiveConfig"},
     codec |-> {"CodecEnumerateCapbility", "CodecGetParameter"},
     camera_host |-> {"GetCameraAbility"},
     camera_device |-> Mangled.camera_device,
     camera_operator |-> Mangled.camera_operator \cup {"GetStreamAttributes"},
     camera_offline |-> {"CancelCapture"},
     video_layer |-> Mangled.video_layer,
     input |-> Mangled.input \cup {"RegisterReportCallback", "UnregisterReportCallback"}]

Lossy ==
    [usbd |-> DOMAIN Usbd!Calls
              \ {"BindUsbSubscriber", "GetCurrentFunctions", "SetCurrentFunctions"},
     wlan |-> {"getDeviceMacAddress", "getNetworkIfaceName", "getSupportCombo",
               "getSupportFeature", "getValidFreqsWithBand"},
     camera_offline |-> {"CancelCapture"},
     video_layer |-> {"CreateLayer", "GetDisplayInfo", "GetLayerRect", "SetLayerRect"},
     nfc_tag |-> {"WriteNdefTag"}]

Unusable ==
    [display |-> {"CreateVirtualDisplay", "CreateWriteBack", "DeinitDisplay",
                  "DestroyWriteBack", "Flush", "GetDisplayCompChange",
                  "GetDisplayReleaseFence", "GetDisplaySupportedModes", "GetLayerPalette",
                  "GetLayerSize", "SetDisplayClientDamage", "SetDisplayProperty",
                  "SetLayerColorKey", "SetLayerDirtyRegion", "SetLayerVisibleRegion",
                  "SnapShot"},
     usbd |-> {"BulkReadSync", "GetActiveConfig", "InterruptReadSync",
               "InterruptWriteSync", "IsoReadSync", "IsoWriteSync"},
     codec |-> {"CodecEnumerateCapbility", "CodecGetParameter", "CodecQueueInput",
                "CodecQueueOutput", "CodecSetParameter"},
     codec_callback |-> {"InputBufferAvailable", "OutputBufferAvailable"},
     codec_component |-> {"ComponentRoleEnum", "GetConfig", "GetParameter"},
     input |-> {"GetDeviceType", "GetPowerStatus", "RegisterHotPlugCallback",
                "RunCapacitanceTest", "RunExtraCommand", "SetGestureMode",
                "SetPowerStatus", "UnregisterHotPlugCallback"},
     input_callback |-> {"ReportEventPkgCallback"},
     wlan |-> {"getAsscociatedStas", "getSupportCombo"},
     wlan_driver |-> {"GetIfNamesByChipId"},
     camera_offline |-> {"CancelCapture"}]

Leaky ==
    [audio |-> {"CaptureCaptureFrame", "LoadAdapter"},
     codec_component |-> {"CreateComponent", "DestoryComponent",
                          "GetComponentCapabilityList", "GetComponentNum"}]

\* Apart from the calls that are mangled, every stub reads every argument as what its proxy
\* wrote: the two files of each service agree on the order and the type of each field.
ArgumentsArriveIntact == ~Among(Mangled) => ArgumentsArrive

\* Apart from the calls whose success is unfounded, a proxy function returns success only for
\* an operation that the service has performed, with the values of the client in either way.
SuccessIsFounded == ~Among(Unfounded) => SuccessMeansDone

\* Apart from the lossy calls, a field that did not fit its parcel never goes by unnoticed: one
\* of the checks in proxy and stub turns it into an error of the call.
NoLossIsHidden == ~Among(Lossy) => LossIsNoticed

\* Apart from the calls that are unusable for some of their arguments, a call with nothing wrong
\* is performed and ends without an error.
HealthyCallIsServed == ~Among(Unusable) => HealthyCallSucceeds

\* Apart from the leaky calls, the proxy function recycles its two buffers on every path.
NoBufferIsKept == ~Among(Leaky) => BuffersReturned
============================================================================
