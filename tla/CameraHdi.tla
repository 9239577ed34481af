------------------------------ MODULE CameraHdi ------------------------------
(***************************************************************************)
(* The camera services (camera/interfaces/hdi_ipc) and their callbacks,    *)
(* proxies and stubs.                                                      *)
(***************************************************************************)
EXTENDS HdiFields, TLC

------------------------------------------------------------------------------
(***************************************************************************)
(* What the proxies and stubs of the camera services send besides plain    *)
(* values: metadata (camera/interfaces/metadata/src/metadata_utils.cpp)    *)
(* and stream information                                                  *)
(* (camera/interfaces/hdi_ipc/utils/src/utils_data_stub.cpp).              *)
(* The writing functions stop at the first failure, the reading functions  *)
(* check nothing.                                                          *)
(***************************************************************************)
\* The values of an item are a vector of its data type, a rational being two integers.
Values ==
    {<<"META_TYPE_BYTE", "UInt8Vector values">>, <<"META_TYPE_INT32", "Int32Vector values">>,
     <<"META_TYPE_FLOAT", "FloatVector values">>, <<"META_TYPE_UINT32", "UInt32Vector values">>,
     <<"META_TYPE_INT64", "Int64Vector values">>, <<"META_TYPE_DOUBLE", "DoubleVector values">>,
     <<"META_TYPE_RATIONAL", "Int32Vector values">>}

ReadMetadata == UNION {Unchecked(<<v[1], "count", v[2]>>) : v \in Values}

MetadataUtils ==
    LET WriteMetadata == UNION {Checked(<<v[1], "count", v[2]>>) : v \in Values}
    \* Of metadata whose memory could not be obtained only the number of items, zero, is written.
    IN  [EncodeCameraMetadata |->
             (Checked(<<"tagCount", "itemCapacity", "dataCapacity", "index", "item">>) & WriteMetadata)
             \cup Checked(<<"no tagCount", "itemCapacity", "dataCapacity">>)
             \cup Checked(<<"no tagCount">>),
         DecodeCameraMetadata |->
             (Unchecked(<<"tagCount", "itemCapacity", "dataCapacity", "index", "item">>) & ReadMetadata)
             \cup Unchecked(<<"no tagCount", "itemCapacity", "dataCapacity">>)]

StreamInfos ==
    [EncodeStreamInfo |->
         Checked(<<"streamId", "width", "height", "format", "intent", "tunneledMode">>)
         & (Checked(<<"no bufferQueue">>) \cup Checked(<<"bufferQueue", "RemoteObject bufferQueue">>))
         & Checked(<<"minFrameDuration", "encodeType">>),
     DecodeStreamInfo |->
         Unchecked(<<"streamId", "width", "height", "format", "intent", "tunneledMode">>)
         & (Unchecked(<<"no bufferQueue">>)
            \cup Unchecked(<<"bufferQueue", "RemoteObject bufferQueue">>))
         & Unchecked(<<"minFrameDuration", "encodeType">>)]

------------------------------------------------------------------------------
(***************************************************************************)
(* The client side of the camera services and the service side of their    *)
(* callbacks (camera/interfaces/hdi_ipc: client/src and                    *)
(* callback/<part>/src/<part>_proxy.cpp).  The result of the service is    *)
(* read from the reply without a check.                                    *)
(***************************************************************************)
Sending(part) == Checked(<<"token">>) & part
Status == Unchecked(<<"Status">>)

\* An object that may be absent follows a flag.
Optional(absent, present, object) == Checked(<<absent>>) \cup Checked(<<present, object>>)

HostProxies(api) ==
    api @@
    [HostSetCallback |->
         Proxy("CMD_CAMERA_HOST_SET_CALLBACK",
             Sending(Optional("no callback", "callback", "RemoteObject callback")), Status),
     HostGetCameraIds |->
         Proxy("CMD_CAMERA_HOST_GET_CAMERAID", Sending(Nothing),
             Status & Checked(<<"StringVector cameraIds">>)),
     HostGetCameraAbility |->
         Proxy("CMD_CAMERA_HOST_GET_CAMERA_ABILITY", Sending(Checked(<<"String cameraId">>)),
             Status & api.DecodeCameraMetadata),
     HostOpenCamera |->
         Proxy("CMD_CAMERA_HOST_OPEN_CAMERA",
             Sending(Checked(<<"String cameraId">>)
                     & Optional("no callback", "callback", "RemoteObject callback")),
             Status & (Unchecked(<<"no device">>)
                       \cup (Unchecked(<<"device">>) & Checked(<<"RemoteObject device">>))))]

HostSetFlashlight ==
    Proxy("CMD_CAMERA_HOST_SET_FLASH_LIGHT", Sending(Checked(<<"String cameraId", "isEnable">>)),
        Status)

CameraHostProxy ==
    LET Of(api) ==
            [SetCallback |-> api.HostSetCallback, GetCameraIds |-> api.HostGetCameraIds,
             GetCameraAbility |-> api.HostGetCameraAbility, OpenCamera |-> api.HostOpenCamera,
             SetFlashlight |-> HostSetFlashlight]
    IN  Of(HostProxies(MetadataUtils))

-----------------------------------------------------------------------------
DeviceProxies(api) ==
    api @@
    [DeviceGetStreamOperator |->
         Proxy("CMD_CAMERA_DEVICE_GET_STREAM_OPERATOR",
             Sending(Optional("no callback", "callback", "RemoteObject callback")),
             Status & (Unchecked(<<"no operator">>)
                       \cup Unchecked(<<"operator", "RemoteObject operator">>))),
     DeviceUpdateSettings |->
         Proxy("CMD_CAMERA_DEVICE_UPDATE_SETTINGS", Sending(api.EncodeCameraMetadata),
               Status),
     DeviceSetResultMode |->
         Proxy("CMD_CAMERA_DEVICE_SET_RESULT_MODE", Sending(Checked(<<"mode">>)), Status),
     DeviceGetEnabledResults |->
         Proxy("CMD_CAMERA_DEVICE_GET_ENABLED_RESULTS", Sending(Nothing),
             Status & Checked(<<"Int32Vector results">>)),
     DeviceEnableResult |->
         Proxy("CMD_CAMERA_DEVICE_ENABLE_RESULT", Sending(Checked(<<"Int32Vector results">>)), Status)]

DeviceCloseProxies ==
    [DeviceDisableResult |->
         Proxy("CMD_CAMERA_DEVICE_DISABLE_RESULT", Sending(Checked(<<"Int32Vector results">>)), Status),
     DeviceClose |->
         Lapsing(Proxy("CMD_CAMERA_DEVICE_CLOSE", Sending(Nothing), Nothing), {"void"})]

CameraDeviceProxy ==
    LET Of(api) ==
            [GetStreamOperator |-> api.DeviceGetStreamOperator,
             UpdateSettings |-> api.DeviceUpdateSettings,
             SetResultMode |-> api.DeviceSetResultMode,
             GetEnabledResults |-> api.DeviceGetEnabledResults,
             EnableResult |-> api.DeviceEnableResult,
             DisableResult |-> api.DeviceDisableResult,
             Close |-> api.DeviceClose]
    IN  Of(DeviceProxies(MetadataUtils @@ DeviceCloseProxies))

-----------------------------------------------------------------------------
Streams(api) == Checked(<<"no count">>) \cup (Checked(<<"count">>) & api.EncodeStreamInfo)

StreamProxies(api) ==
    api @@
    [OperatorIsStreamsSupported |->
         Proxy("CMD_STREAM_OPERATOR_IS_STREAMS_SUPPORTED",
             Sending(Checked(<<"mode">>)
                     & (Checked(<<"no modeSetting">>)
                        \cup (Checked(<<"modeSetting">>) & api.EncodeCameraMetadata))
                     & Streams(api)),
             Status & Unchecked(<<"streamSupportType">>)),
     OperatorCreateStreams |-> Proxy("CMD_STREAM_OPERATOR_CREATE_STREAMS", Sending(Streams(api)),
                                     Status),
     OperatorReleaseStreams |->
         Proxy("CMD_STREAM_OPERATOR_RELEASE_STREAMS", Sending(Checked(<<"Int32Vector streamIds">>)),
             Status)]

CommitProxies(api) ==
    api @@
    [OperatorCommitStreams |->
         Proxy("CMD_STREAM_OPERATOR_COMMIT_STREAMS",
               Sending(Checked(<<"mode">>) & api.EncodeCameraMetadata),
             Status),
     \* The attributes are looked for in the message that was sent.
     OperatorGetStreamAttributes |->
         Proxy("CMD_STREAM_OPERATOR_GET_STREAM_ATTRIBUTES", Sending(Nothing),
             Status & (Unchecked(<<"no count">>) \cup Unchecked(<<"count", "attribute in data">>))),
     OperatorAttachBufferQueue |->
         Proxy("CMD_STREAM_OPERATOR_ATTACH_BUFFER_QUEUE",
             Sending(Checked(<<"streamId", "RemoteObject producer">>)), Status),
     OperatorDetachBufferQueue |->
         Proxy("CMD_STREAM_OPERATOR_DETACH_BUFFER_QUEUE", Sending(Checked(<<"streamId">>)), Status)]

CaptureProxies(api) ==
    api @@
    [OperatorCapture |->
         Proxy("CMD_STREAM_OPERATOR_CAPTURE",
             Sending(Checked(<<"captureId", "Int32Vector streamIds">>)
                     & api.EncodeCameraMetadata
                     & Checked(<<"enableShutterCallback", "isStreaming">>)), Status),
     OperatorCancelCapture |->
         Proxy("CMD_STREAM_OPERATOR_CANCEL_CAPTURE", Sending(Checked(<<"captureId">>)), Status),
     OperatorChangeToOfflineStream |->
         Proxy("CMD_STREAM_OPERATOR_CHANGE_TO_OFFLINE_STREAM",
             Sending(Checked(<<"Int32Vector streamIds", "RemoteObject callback">>)),
             Status & Unchecked(<<"RemoteObject offlineOperator">>))]

StreamOperatorProxy ==
    LET Of(api) ==
            [IsStreamsSupported |-> api.OperatorIsStreamsSupported,
             CreateStreams |-> api.OperatorCreateStreams,
             ReleaseStreams |-> api.OperatorReleaseStreams,
             CommitStreams |-> api.OperatorCommitStreams,
             GetStreamAttributes |-> api.OperatorGetStreamAttributes,
             AttachBufferQueue |-> api.OperatorAttachBufferQueue,
             DetachBufferQueue |-> api.OperatorDetachBufferQueue,
             Capture |-> api.OperatorCapture,
             CancelCapture |-> api.OperatorCancelCapture,
             ChangeToOfflineStream |-> api.OperatorChangeToOfflineStream]
    IN  Of(CaptureProxies(CommitProxies(StreamProxies(MetadataUtils @@ StreamInfos))))

-----------------------------------------------------------------------------
OfflineProxies ==
    [OfflineCancelCapture |->
         Proxy("CMD_OFFLINE_STREAM_OPERATOR_CANCEL_CAPTURE", Sending(Checked(<<"captureId">>)), Status),
     OfflineReleaseStreams |->
         Proxy("CMD_OFFLINE_STREAM_OPERATOR_RELEASE_STREAMS",
             Sending(Checked(<<"Int32Vector streamIds">>)), Status),
     OfflineRelease |-> Proxy("CMD_OFFLINE_STREAM_OPERATOR_RELEASE", Sending(Nothing), Status)]

OfflineStreamOperatorProxy ==
    LET Of(api) ==
            [CancelCapture |-> api.OfflineCancelCapture,
             ReleaseStreams |-> api.OfflineReleaseStreams,
             Release |-> api.OfflineRelease]
    IN  Of(OfflineProxies)

-----------------------------------------------------------------------------
(* The callbacks return nothing. *)
Callback(cmd, sends) == Lapsing(Proxy(cmd, Sending(sends), Nothing), {"void"})

DeviceCallbackProxies(api) ==
    api @@
    [OnError |-> Callback("CMD_CAMERA_DEVICE_CALLBACK_ON_ERROR", Checked(<<"type", "errorMsg">>)),
     OnResult |->
         Callback("CMD_CAMERA_DEVICE_CALLBACK_ON_RESULT",
             Checked(<<"64-bit timestamp">>) & api.EncodeCameraMetadata)]

HostCallbackProxies ==
    [OnCameraStatus |->
         Callback("CMD_CAMERA_HOST_CALLBACK_ON_STATUS", Checked(<<"String cameraId", "status">>)),
     OnFlashlightStatus |->
         Callback("CMD_CAMERA_HOST_CALLBACK_ON_FLASHLIGHT_STATUS",
             Checked(<<"String cameraId", "status">>)),
     OnCameraEvent |->
         Callback("CMD_CAMERA_HOST_CALLBACK_ON_CAMERA_EVENT", Checked(<<"String cameraId", "event">>))]

OperatorCallbackProxies ==
    [OnCaptureStarted |->
         Callback("CMD_STREAM_OPERATOR_CALLBACK_ON_CAPTURE_STARTED",
             Checked(<<"captureId", "Int32Vector streamIds">>)),
     OnCaptureEnded |->
         Callback("CMD_STREAM_OPERATOR_CALLBACK_ON_CAPTURE_ENDED",
             Checked(<<"captureId">>)
             & (Checked(<<"no size">>) \cup Checked(<<"size", "Buffer captureEndedInfo">>))),
     OnCaptureError |->
         Callback("CMD_STREAM_OPERATOR_CALLBACK_ON_CAPTURE_ERROR",
             Checked(<<"captureId">>)
             & (Checked(<<"no size">>) \cup Checked(<<"size", "Buffer captureErrorInfo">>))),
     OnFrameShutter |->
         Callback("CMD_STREAM_OPERATOR_CALLBACK_ON_FRAME_SHUTTER",
             Checked(<<"captureId", "Int32Vector streamIds", "64-bit timestamp">>))]

Callbacks ==
    LET Of(api) ==
            [OnError |-> api.OnError, OnResult |-> api.OnResult,
             OnCameraStatus |-> api.OnCameraStatus,
             OnFlashlightStatus |-> api.OnFlashlightStatus,
             OnCameraEvent |-> api.OnCameraEvent,
             OnCaptureStarted |-> api.OnCaptureStarted,
             OnCaptureEnded |-> api.OnCaptureEnded,
             OnCaptureError |-> api.OnCaptureError,
             OnFrameShutter |-> api.OnFrameShutter]
    IN  Of(DeviceCallbackProxies(MetadataUtils @@ HostCallbackProxies @@
           OperatorCallbackProxies))

------------------------------------------------------------------------------
(***************************************************************************)
(* The service side of the camera services and the client side of their    *)
(* callbacks (camera/interfaces/hdi_ipc: server/src and                    *)
(* callback/<part>/src/<part>_stub.cpp).  Apart from the interface token   *)
(* most reads are not checked, and the result of the service goes into the *)
(* reply.                                                                  *)
(***************************************************************************)
\* What the client needs to know follows the result of the service.
Serving(takes, op, puts) ==
    Stub(Checked(<<"token">>) & takes, op, FALSE, Checked(<<"Status">>) & puts)

HostStubs(api) ==
    api @@
    [CameraHostStubSetCallback |->
         Serving(Unchecked(<<"no callback">>) \cup Unchecked(<<"callback", "RemoteObject callback">>),
             "SetCallback", Nothing),
     CameraHostStubGetCameraIds |->
         Serving(Nothing, "GetCameraIds", Checked(<<"StringVector cameraIds">>)),
     \* An empty identifier, which is also what a failed read gives, is refused. There is no ability
     \* to encode when the service fails.
     CameraHostStubGetCameraAbility |->
         Stub(Checked(<<"token", "String cameraId">>), "GetCameraAbility", TRUE,
              Checked(<<"Status">>) & api.EncodeCameraMetadata),
     CameraHostStubOpenCamera |->
         Serving(Checked(<<"String cameraId">>)
                 & (Unchecked(<<"no callback">>)
                    \cup Unchecked(<<"callback", "RemoteObject callback">>)),
             "OpenCamera", Checked(<<"no device">>) \cup Checked(<<"device", "RemoteObject device">>)),
     CameraHostStubSetFlashlight |->
         Serving(Unchecked(<<"String cameraId", "isEnable">>), "SetFlashlight", Nothing)]

CameraHostServiceStubOnRemoteRequest ==
    LET Of(api) ==
            [CMD_CAMERA_HOST_SET_CALLBACK |-> api.CameraHostStubSetCallback,
             CMD_CAMERA_HOST_GET_CAMERAID |-> api.CameraHostStubGetCameraIds,
             CMD_CAMERA_HOST_GET_CAMERA_ABILITY |-> api.CameraHostStubGetCameraAbility,
             CMD_CAMERA_HOST_OPEN_CAMERA |-> api.CameraHostStubOpenCamera,
             CMD_CAMERA_HOST_SET_FLASH_LIGHT |-> api.CameraHostStubSetFlashlight]
    IN  Of(HostStubs(MetadataUtils))

-----------------------------------------------------------------------------
DeviceStubs(api) ==
    api @@
    [CameraDeviceStubGetStreamOperator |->
         Serving(Unchecked(<<"no callback">>)
                 \cup (Unchecked(<<"callback">>) & Checked(<<"RemoteObject callback">>)),
             "GetStreamOperator",
             Checked(<<"no operator">>) \cup Checked(<<"operator", "RemoteObject operator">>)),
     CameraDeviceStubUpdateSettings |-> Serving(api.DecodeCameraMetadata,
                                                "UpdateSettings", Nothing),
     CameraDeviceStubSetResultMode |-> Serving(Unchecked(<<"mode">>), "SetResultMode", Nothing),
     CameraDeviceStubGetEnabledReuslts |->
         Serving(Nothing, "GetEnabledResults", Checked(<<"Int32Vector results">>)),
     CameraDeviceStubEnableResult |->
         Serving(Checked(<<"Int32Vector results">>), "EnableResult",
                 Checked(<<"Int32Vector results">>))]

DeviceCloseStubs ==
    [CameraDeviceStubDisableResult |->
         Serving(Checked(<<"Int32Vector results">>), "DisableResult",
                 Checked(<<"Int32Vector results">>)),
     CameraDeviceStubClose |-> Stub(Checked(<<"token">>), "Close", TRUE, Nothing)]

CameraDeviceStubOnRemoteRequest ==
    LET Of(api) ==
            [CMD_CAMERA_DEVICE_GET_STREAM_OPERATOR |-> api.CameraDeviceStubGetStreamOperator,
             CMD_CAMERA_DEVICE_UPDATE_SETTINGS |-> api.CameraDeviceStubUpdateSettings,
             CMD_CAMERA_DEVICE_SET_RESULT_MODE |-> api.CameraDeviceStubSetResultMode,
             CMD_CAMERA_DEVICE_GET_ENABLED_RESULTS |-> api.CameraDeviceStubGetEnabledReuslts,
             CMD_CAMERA_DEVICE_ENABLE_RESULT |-> api.CameraDeviceStubEnableResult,
             CMD_CAMERA_DEVICE_DISABLE_RESULT |-> api.CameraDeviceStubDisableResult,
             CMD_CAMERA_DEVICE_CLOSE |-> api.CameraDeviceStubClose]
    IN  Of(DeviceStubs(MetadataUtils @@ DeviceCloseStubs))

-----------------------------------------------------------------------------
StreamsStub(api) == Unchecked(<<"no count">>) \cup (Unchecked(<<"count">>) & api.DecodeStreamInfo)

StreamStubs(api) ==
    api @@
    [StreamOperatorStubIsStreamsSupported |->
         Serving(Unchecked(<<"mode">>)
                 & (Unchecked(<<"no modeSetting">>)
                    \cup (Unchecked(<<"modeSetting">>) & api.DecodeCameraMetadata))
                 & StreamsStub(api),
             "IsStreamsSupported", Checked(<<"streamSupportType">>)),
     StreamOperatorStubCreateStreams |-> Serving(StreamsStub(api), "CreateStreams", Nothing),
     StreamOperatorStubReleaseStreams |->
         Serving(Checked(<<"Int32Vector streamIds">>), "ReleaseStreams", Nothing),
     StreamOperatorStubCommitStreams |->
         Serving(Unchecked(<<"mode">>) & api.DecodeCameraMetadata, "CommitStreams", Nothing),
     StreamOperatorStubGetStreamAttributes |->
         Serving(Nothing, "GetStreamAttributes",
             Checked(<<"no count">>) \cup Checked(<<"count", "Buffer attribute">>))]

CaptureStubs(api) ==
    api @@
    [StreamOperatorStubAttachBufferQueue |->
         Serving(Unchecked(<<"streamId", "RemoteObject producer">>), "AttachBufferQueue", Nothing),
     StreamOperatorStubDetachBufferQueue |->
         Serving(Unchecked(<<"streamId">>), "DetachBufferQueue", Nothing),
     StreamOperatorStubCapture |->
         Serving(Unchecked(<<"captureId">>) & Checked(<<"Int32Vector streamIds">>)
                 & api.DecodeCameraMetadata
                 & Unchecked(<<"enableShutterCallback", "isStreaming">>),
             "Capture", Nothing),
     StreamOperatorStubCancelCapture |-> Serving(Unchecked(<<"captureId">>), "CancelCapture", Nothing),
     \* Without an offline operator, as when the service fails, the call is an error.
     StreamOperatorStubChangeToOfflineStream |->
         Stub(Checked(<<"token", "Int32Vector streamIds", "RemoteObject callback">>),
              "ChangeToOfflineStream", TRUE, Checked(<<"Status", "RemoteObject offlineOperator">>))]

StreamOperatorStubOnRemoteRequest ==
    LET Of(api) ==
            [CMD_STREAM_OPERATOR_IS_STREAMS_SUPPORTED |-> api.StreamOperatorStubIsStreamsSupported,
             CMD_STREAM_OPERATOR_CREATE_STREAMS |-> api.StreamOperatorStubCreateStreams,
             CMD_STREAM_OPERATOR_RELEASE_STREAMS |-> api.StreamOperatorStubReleaseStreams,
             CMD_STREAM_OPERATOR_COMMIT_STREAMS |-> api.StreamOperatorStubCommitStreams,
             CMD_STREAM_OPERATOR_GET_STREAM_ATTRIBUTES |-> api.StreamOperatorStubGetStreamAttributes,
             CMD_STREAM_OPERATOR_ATTACH_BUFFER_QUEUE |-> api.StreamOperatorStubAttachBufferQueue,
             CMD_STREAM_OPERATOR_DETACH_BUFFER_QUEUE |-> api.StreamOperatorStubDetachBufferQueue,
             CMD_STREAM_OPERATOR_CAPTURE |-> api.StreamOperatorStubCapture,
             CMD_STREAM_OPERATOR_CANCEL_CAPTURE |-> api.StreamOperatorStubCancelCapture,
             CMD_STREAM_OPERATOR_CHANGE_TO_OFFLINE_STREAM |-> api.StreamOperatorStubChangeToOfflineStream]
    IN  Of(CaptureStubs(StreamStubs(MetadataUtils @@ StreamInfos)))

-----------------------------------------------------------------------------
OfflineStubs ==
    \* A result that could be written is taken for one that could not.
    [OfflineStreamOperatorStubCancelCapture |->
         Stub(Checked(<<"token">>) & Unchecked(<<"captureId">>), "CancelCapture", FALSE,
              Inverted(<<"Status">>)),
     OfflineStreamOperatorStubReleaseStreams |->
         Serving(Checked(<<"Int32Vector streamIds">>), "ReleaseStreams", Nothing),
     OfflineStreamOperatorStubRelease |-> Serving(Nothing, "Release", Nothing)]

OfflineStreamOperatorStubOnRemoteRequest ==
    LET Of(api) ==
            [CMD_OFFLINE_STREAM_OPERATOR_CANCEL_CAPTURE |-> api.OfflineStreamOperatorStubCancelCapture,
             CMD_OFFLINE_STREAM_OPERATOR_RELEASE_STREAMS |-> api.OfflineStreamOperatorStubReleaseStreams,
             CMD_OFFLINE_STREAM_OPERATOR_RELEASE |-> api.OfflineStreamOperatorStubRelease]
    IN  Of(OfflineStubs)

-----------------------------------------------------------------------------
(* The callbacks. *)
Receiving(takes, op) == Stub(Checked(<<"token">>) & takes, op, TRUE, Nothing)

CameraDeviceCallbackStubOnRemoteRequest(api) ==
    [CMD_CAMERA_DEVICE_CALLBACK_ON_ERROR |->
        Receiving(Unchecked(<<"type", "errorMsg">>), "OnError"),
     CMD_CAMERA_DEVICE_CALLBACK_ON_RESULT |->
        Receiving(Unchecked(<<"64-bit timestamp">>) & api.DecodeCameraMetadata, "OnResult")]

CameraHostCallbackStubOnRemoteRequest ==
    [CMD_CAMERA_HOST_CALLBACK_ON_STATUS |->
        Receiving(Unchecked(<<"String cameraId", "status">>), "OnCameraStatus"),
     CMD_CAMERA_HOST_CALLBACK_ON_FLASHLIGHT_STATUS |->
        Receiving(Unchecked(<<"String cameraId", "status">>), "OnFlashlightStatus"),
     CMD_CAMERA_HOST_CALLBACK_ON_CAMERA_EVENT |->
        Receiving(Unchecked(<<"String cameraId", "event">>), "OnCameraEvent")]

OperatorCallbackStubs ==
    LET OnCaptureStartedStub ==
            Receiving(Unchecked(<<"captureId">>) & Checked(<<"Int32Vector streamIds">>),
                "OnCaptureStarted")
        OnCaptureEndedStub ==
            Receiving(Unchecked(<<"captureId">>)
                      & (Unchecked(<<"no size">>)
                         \cup (Unchecked(<<"size">>) & Checked(<<"Buffer captureEndedInfo">>))),
                "OnCaptureEnded")
        OnCaptureErrorStub ==
            Receiving(Unchecked(<<"captureId">>)
                      & (Unchecked(<<"no size">>)
                         \cup (Unchecked(<<"size">>) & Checked(<<"Buffer captureErrorInfo">>))),
                "OnCaptureError")
        OnFrameShutterStub ==
            Receiving(Unchecked(<<"captureId">>) & Checked(<<"Int32Vector streamIds">>)
                      & Unchecked(<<"64-bit timestamp">>), "OnFrameShutter")
    IN  [StreamOperatorCallbackStubOnRemoteRequest |->
             [CMD_STREAM_OPERATOR_CALLBACK_ON_CAPTURE_STARTED |-> OnCaptureStartedStub,
              CMD_STREAM_OPERATOR_CALLBACK_ON_CAPTURE_ENDED |-> OnCaptureEndedStub,
              CMD_STREAM_OPERATOR_CALLBACK_ON_CAPTURE_ERROR |-> OnCaptureErrorStub,
              CMD_STREAM_OPERATOR_CALLBACK_ON_FRAME_SHUTTER |-> OnFrameShutterStub]]

CallbacksStub ==
    LET Of(api) ==
            CameraDeviceCallbackStubOnRemoteRequest(api) @@ CameraHostCallbackStubOnRemoteRequest
            @@ api.StreamOperatorCallbackStubOnRemoteRequest
    IN  Of(MetadataUtils @@ OperatorCallbackStubs)
==============================================================================
