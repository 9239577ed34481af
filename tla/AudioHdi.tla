------------------------------ MODULE AudioHdi -------------------------------
(***************************************************************************)
(* The audio service (audio/hal/hdi_binder), its proxy and its server.     *)
(***************************************************************************)
EXTENDS HdiFields, TLC

------------------------------------------------------------------------------
(***************************************************************************)
(* The client side of the audio service (hdi_binder/proxy): managers,      *)
(* adapters, renders and captures.  Every function also refuses null       *)
(* pointers and handles it does not know before it makes the call.  Gains  *)
(* travel as whole numbers and volumes as whole percents.                  *)
(***************************************************************************)
\* Mutant: the name of the adapter is written without a look at the result.
PreprocessUnchecked ==
    Checked(<<"token">>) & Unchecked(<<"String adapterName">>) & Checked(<<"pid">>)

AudioProxyPreprocessRender ==
    Checked(<<"token", "String adapterName", "pid">>)

ProxyAttributes ==
    [AudioProxyPreprocessCapture |->
         Checked(<<"token", "String adapterName", "pid">>),
     AudioProxyWriteSampleAttributes |->
         Checked(<<"type", "interleaved", "format", "sampleRate", "channelCount", "period",
             "frameSize", "isBigEndian", "isSignedData", "startThreshold", "stopThreshold",
             "silenceThreshold">>),
     AudioProxyReadSapmleAttrbutes |->
         Checked(<<"type", "interleaved", "format", "sampleRate", "channelCount", "period",
             "frameSize", "isBigEndian", "isSignedData", "startThreshold", "stopThreshold",
             "silenceThreshold">>)]

AudioProxyCommonSetRenderCtrlParam(cmId, param) ==
    Proxy(cmId, AudioProxyPreprocessRender & Checked(<<param>>), Nothing)

AudioProxyCommonGetRenderCtrlParam(cmId, param) ==
    Proxy(cmId, AudioProxyPreprocessRender, Checked(<<param>>))

AudioProxyCommonSetCaptureCtrlParam(api, cmId, param) ==
    Proxy(cmId, api.AudioProxyPreprocessCapture & Checked(<<param>>), Nothing)

\* Mutant: the return after a failed dispatch does not recycle.
GetParamKeeping(api, cmId, param) ==
    Keeping(Proxy(cmId, api.AudioProxyPreprocessCapture, Checked(<<param>>)), {"dispatch"})

AudioProxyCommonGetCaptureCtrlParam(api, cmId, param) ==
    Proxy(cmId, api.AudioProxyPreprocessCapture, Checked(<<param>>))

ProxyMmap ==
    [AudioProxyGetMmapPositionRead |->
         Checked(<<"64-bit frames", "64-bit tvSec", "64-bit tvNSec">>),
     AudioProxyReqMmapBufferWrite |->
         Checked(<<"reqSize", "64-bit memoryAddress", "FileDescriptor fd", "totalBufferFrames",
             "transferFrameSize", "isShareable", "offset">>)]

ProxyInit ==
    LET AudioProxyCommonInitAttrs ==
            Checked(<<"interleaved", "type", "period", "frameSize", "startThreshold", "stopThreshold",
                "silenceThreshold", "isBigEndian", "isSignedData">>)
    IN  [AudioProxyCommonInitCreateData |->
             Checked(<<"String adapterName", "pid", "format", "channelCount", "sampleRate">>)
               & AudioProxyCommonInitAttrs & Checked(<<"portId", "pins">>)]

ProxyPorts ==
    LET InitAllPortsDispatchSplit ==
            Proxy("AUDIO_HDI_ADT_INIT_PORTS", Checked(<<"token", "String adapterName">>), Nothing)
    IN  [AudioProxyAdapterInitAllPorts |->
             InitAllPortsDispatchSplit]

ProxyCreateRender(api) ==
    LET AudioProxyRenderDispatchSplit(writes) ==
            Proxy("AUDIO_HDI_RENDER_CREATE_RENDER", writes, Nothing)
        AudioProxyWriteTokenAndInitDataForRender ==
            Checked(<<"token">>) & api.AudioProxyCommonInitCreateData
    IN  api @@
        [AudioProxyAdapterCreateRender |->
             AudioProxyRenderDispatchSplit(AudioProxyWriteTokenAndInitDataForRender)]

\* Mutant: the result of the dispatch is not looked at.
DestroyRenderHeedless ==
    Lapsing(Proxy("AUDIO_HDI_RENDER_DESTROY", AudioProxyPreprocessRender, Nothing), {"heedless"})

AudioProxyAdapterDestroyRender ==
    Proxy("AUDIO_HDI_RENDER_DESTROY", AudioProxyPreprocessRender, Nothing)

ProxyCreateCapture(api) ==
    LET AudioProxyCaptureDispatchSplit(writes) ==
            Proxy("AUDIO_HDI_CAPTURE_CREATE_CAPTURE", writes, Nothing)
        AudioProxyWriteTokenAndInitDataForCapture ==
            Checked(<<"token">>) & api.AudioProxyCommonInitCreateData
    IN  api @@
        [AudioProxyAdapterCreateCapture |->
             AudioProxyCaptureDispatchSplit(AudioProxyWriteTokenAndInitDataForCapture),
         AudioProxyAdapterDestroyCapture |->
             Proxy("AUDIO_HDI_CAPTURE_DESTROY", api.AudioProxyPreprocessCapture, Nothing)]

ProxyCapability ==
    LET AudioProxyAdapterWritePortCapability ==
            Checked(<<"String adapterName", "dir", "portId", "String portName">>)
    IN  [AudioProxyAdapterGetPortCapability |->
             Proxy("AUDIO_HDI_ADT_GET_PORT_CAPABILITY",
                 Checked(<<"token">>) & AudioProxyAdapterWritePortCapability,
                 Nothing),
         AudioProxyAdapterSetAndGetPassthroughModeSBuf |->
             Checked(<<"dir", "portId", "String portName">>),
         AudioProxyWriteTokenAndNameForSetPassThrough |->
             Checked(<<"token", "String adapterName">>)]

ProxyPassthrough(api) ==
    LET AudioProxyWriteTokenAndNameForGetPassThrough ==
            Checked(<<"token", "String adapterName">>)
    IN  api @@
        [AudioProxyAdapterSetPassthroughMode |->
             Proxy("AUDIO_HDI_ADT_SET_PASS_MODE",
                 api.AudioProxyWriteTokenAndNameForSetPassThrough
                   & api.AudioProxyAdapterSetAndGetPassthroughModeSBuf
                   & Checked(<<"mode">>),
                 Nothing),
         AudioProxyAdapterGetPassthroughMode |->
             Proxy("AUDIO_HDI_ADT_GET_PASS_MODE",
                 AudioProxyWriteTokenAndNameForGetPassThrough
                   & api.AudioProxyAdapterSetAndGetPassthroughModeSBuf,
                 Checked(<<"mode">>))]

ProxyAdapters ==
    LET AudioProxySendGetAllAdapter ==
            Proxy("AUDIO_HDI_MGR_GET_ALL_ADAPTER", Checked(<<"token">>), Nothing)
    IN  [AudioProxyManagerGetAllAdapters |->
             AudioProxySendGetAllAdapter,
         LoadAdapterPrepareParameters |->
             Checked(<<"token", "String adapterName", "dir">>)]

ProxyLoad(api) ==
    LET AudioProxyManagerLoadAdapterDispatch(writes) ==
            Proxy("AUDIO_HDI_MGR_LOAD_ADAPTER", writes, Nothing)
    IN  api @@
        [AudioProxyManagerLoadAdapter |->
             RecyclingTwice(AudioProxyManagerLoadAdapterDispatch(api.LoadAdapterPrepareParameters),
                            {"obtain"}),
         AudioProxyManagerUnloadAdapter |->
             Lapsing(
                 Proxy("AUDIO_HDI_MGR_UNLOAD_ADAPTER", Checked(<<"token", "String adapterName">>),
                       Nothing),
                 {"void"})]

RenderControl ==
    LET AudioProxyRenderCtrl(cmId) == Proxy(cmId, AudioProxyPreprocessRender, Nothing)
    IN  [AudioProxyRenderStart |->
             AudioProxyRenderCtrl("AUDIO_HDI_RENDER_START"),
         AudioProxyRenderStop |->
             AudioProxyRenderCtrl("AUDIO_HDI_RENDER_STOP"),
         AudioProxyRenderPause |->
             AudioProxyRenderCtrl("AUDIO_HDI_RENDER_PAUSE"),
         AudioProxyRenderResume |->
             AudioProxyRenderCtrl("AUDIO_HDI_RENDER_RESUME")]

RenderFrames(api) ==
    LET AudioProxyRenderGetFrameParameter(cmId, param) ==
            Proxy(cmId, AudioProxyPreprocessRender, Checked(<<param>>))
    IN  api @@
        [AudioProxyRenderGetFrameSize |->
             AudioProxyRenderGetFrameParameter("AUDIO_HDI_RENDER_GET_FRAME_SIZE", "64-bit size"),
         AudioProxyRenderGetFrameCount |->
             AudioProxyRenderGetFrameParameter("AUDIO_HDI_RENDER_GET_FRAME_COUNT", "64-bit count"),
         AudioProxyRenderSetSampleAttributes |->
             Proxy("AUDIO_HDI_RENDER_SET_SAMPLE_ATTR",
                 AudioProxyPreprocessRender & api.AudioProxyWriteSampleAttributes,
                 Nothing),
         AudioProxyRenderGetSampleAttributes |->
             Proxy("AUDIO_HDI_RENDER_GET_SAMPLE_ATTR",
                 AudioProxyPreprocessRender,
                 api.AudioProxyReadSapmleAttrbutes),
         AudioProxyRenderGetCurrentChannelId |->
             Proxy("AUDIO_HDI_RENDER_GET_CUR_CHANNEL_ID",
                 AudioProxyPreprocessRender,
                 Checked(<<"channelId">>))]

RenderScene ==
    [AudioProxyRenderCheckSceneCapability |->
         Proxy("AUDIO_HDI_RENDER_CHECK_SCENE_CAPABILITY",
             AudioProxyPreprocessRender & Checked(<<"id", "pins">>),
             Checked(<<"supported">>)),
     AudioProxyRenderSelectScene |->
         Proxy("AUDIO_HDI_RENDER_SELECT_SCENE",
             AudioProxyPreprocessRender & Checked(<<"id", "pins">>),
             Nothing),
     AudioProxyRenderSetMute |->
         Proxy("AUDIO_HDI_RENDER_SET_MUTE", AudioProxyPreprocessRender & Checked(<<"mute">>), Nothing),
     AudioProxyRenderGetMute |->
         Proxy("AUDIO_HDI_RENDER_GET_MUTE", AudioProxyPreprocessRender, Checked(<<"mute">>))]

RenderVolume ==
    [AudioProxyRenderSetVolume |->
         AudioProxyCommonSetRenderCtrlParam("AUDIO_HDI_RENDER_SET_VOLUME", "percent"),
     AudioProxyRenderGetVolume |->
         AudioProxyCommonGetRenderCtrlParam("AUDIO_HDI_RENDER_GET_VOLUME", "percent"),
     AudioProxyRenderGetGainThreshold |->
         Proxy("AUDIO_HDI_RENDER_GET_GAIN_THRESHOLD",
             AudioProxyPreprocessRender,
             Checked(<<"min", "max">>)),
     AudioProxyRenderGetGain |->
         AudioProxyCommonGetRenderCtrlParam("AUDIO_HDI_RENDER_GET_GAIN", "gain"),
     AudioProxyRenderSetGain |->
         AudioProxyCommonSetRenderCtrlParam("AUDIO_HDI_RENDER_SET_GAIN", "gain"),
     AudioProxyRenderGetLatency |->
         Proxy("AUDIO_HDI_RENDER_GET_LATENCY", AudioProxyPreprocessRender, Checked(<<"ms">>))]

RenderWrite(api) ==
    api @@
    [AudioProxyRenderRenderFrame |->
         Proxy("AUDIO_HDI_RENDER_RENDER_FRAME",
             AudioProxyPreprocessRender & Checked(<<"Buffer frame">>),
             Nothing),
     AudioProxyRenderGetRenderPosition |->
         Proxy("AUDIO_HDI_RENDER_GET_RENDER_POSITION",
             AudioProxyPreprocessRender,
             api.AudioProxyGetMmapPositionRead)]

RenderChannels ==
    [AudioProxyRenderSetChannelMode |->
         Proxy("AUDIO_HDI_RENDER_SET_CHANNEL_MODE",
             AudioProxyPreprocessRender & Checked(<<"mode">>),
             Nothing),
     AudioProxyRenderGetChannelMode |->
         Proxy("AUDIO_HDI_RENDER_GET_CHANNEL_MODE", AudioProxyPreprocessRender, Checked(<<"mode">>)),
     AudioProxyRenderSetExtraParams |->
         Proxy("AUDIO_HDI_RENDER_SET_EXTRA_PARAMS",
             AudioProxyPreprocessRender & Checked(<<"String keyValueList">>),
             Nothing),
     AudioProxyRenderGetExtraParams |->
         Proxy("AUDIO_HDI_RENDER_GET_EXTRA_PARAMS",
             AudioProxyPreprocessRender & Checked(<<"listLenth">>),
             Checked(<<"String keyValueList">>))]

RenderMmap(api) ==
    api @@
    [AudioProxyRenderReqMmapBuffer |->
         Proxy("AUDIO_HDI_RENDER_REQ_MMAP_BUFFER",
             AudioProxyPreprocessRender & api.AudioProxyReqMmapBufferWrite,
             Nothing),
     AudioProxyRenderGetMmapPosition |->
         Proxy("AUDIO_HDI_RENDER_GET_MMAP_POSITION",
             AudioProxyPreprocessRender,
             api.AudioProxyGetMmapPositionRead),
     AudioProxyRenderTurnStandbyMode |->
         Proxy("AUDIO_HDI_RENDER_TURN_STAND_BY_MODE", AudioProxyPreprocessRender, Nothing),
     AudioProxyRenderAudioDevDump |->
         Proxy("AUDIO_HDI_RENDER_DEV_DUMP",
             AudioProxyPreprocessRender & Checked(<<"range", "FileDescriptor fd">>),
             Nothing)]

RenderCallback ==
    [AudioProxyRenderRegCallback |->
         Proxy("AUDIO_HDI_RENDER_REG_CALLBACK",
             AudioProxyPreprocessRender & Checked(<<"64-bit cookie", "64-bit callback">>),
             Nothing),
     AudioProxyRenderDrainBuffer |->
         Proxy("AUDIO_HDI_RENDER_DRAIN_BUFFER",
             AudioProxyPreprocessRender & Checked(<<"type">>),
             Nothing)]

CaptureControl(api) ==
    LET AudioProxyCaptureCtrl(cmId) == Proxy(cmId, api.AudioProxyPreprocessCapture, Nothing)
    IN  api @@
        [AudioProxyCaptureStart |->
             AudioProxyCaptureCtrl("AUDIO_HDI_CAPTURE_START"),
         AudioProxyCaptureStop |->
             AudioProxyCaptureCtrl("AUDIO_HDI_CAPTURE_STOP"),
         AudioProxyCapturePause |->
             AudioProxyCaptureCtrl("AUDIO_HDI_CAPTURE_PAUSE"),
         AudioProxyCaptureResume |->
             AudioProxyCaptureCtrl("AUDIO_HDI_CAPTURE_RESUME")]

CaptureFrames(api) ==
    LET AudioProxyCaptureGetFrameParameter(cmId, param) ==
            Proxy(cmId, api.AudioProxyPreprocessCapture, Checked(<<param>>))
    IN  api @@
        [AudioProxyCaptureGetFrameSize |->
             AudioProxyCaptureGetFrameParameter("AUDIO_HDI_CAPTURE_GET_FRAME_SIZE", "64-bit size"),
         AudioProxyCaptureGetFrameCount |->
             AudioProxyCaptureGetFrameParameter("AUDIO_HDI_CAPTURE_GET_FRAME_COUNT", "64-bit count"),
         AudioProxyCaptureSetSampleAttributes |->
             Proxy("AUDIO_HDI_CAPTURE_SET_SAMPLE_ATTR",
                 api.AudioProxyPreprocessCapture
                 & api.AudioProxyWriteSampleAttributes,
                 Nothing),
         AudioProxyCaptureGetSampleAttributes |->
             Proxy("AUDIO_HDI_CAPTURE_GET_SAMPLE_ATTR",
                 api.AudioProxyPreprocessCapture,
                 api.AudioProxyReadSapmleAttrbutes),
         AudioProxyCaptureGetCurrentChannelId |->
             Proxy("AUDIO_HDI_CAPTURE_GET_CUR_CHANNEL_ID",
                 api.AudioProxyPreprocessCapture,
                 Checked(<<"channelId">>))]

CaptureScene(api) ==
    api @@
    [AudioProxyCaptureCheckSceneCapability |->
         Proxy("AUDIO_HDI_CAPTURE_CHECK_SCENE_CAPABILITY",
             api.AudioProxyPreprocessCapture & Checked(<<"id", "pins">>),
             Checked(<<"supported">>)),
     AudioProxyCaptureSelectScene |->
         Proxy("AUDIO_HDI_CAPTURE_SELECT_SCENE",
             api.AudioProxyPreprocessCapture & Checked(<<"id", "pins">>),
             Nothing),
     AudioProxyCaptureSetMute |->
         Proxy("AUDIO_HDI_CAPTURE_SET_MUTE",
             api.AudioProxyPreprocessCapture & Checked(<<"mute">>),
             Nothing),
     AudioProxyCaptureGetMute |->
         Proxy("AUDIO_HDI_CAPTURE_GET_MUTE", api.AudioProxyPreprocessCapture,
               Checked(<<"mute">>))]

CaptureVolume(api) ==
    LET AudioProxyCaptureCaptureFrameSplit(gets) ==
            Proxy("AUDIO_HDI_CAPTURE_CAPTURE_FRAME",
                api.AudioProxyPreprocessCapture & Checked(<<"64-bit requestBytes">>),
                gets)
    IN  api @@
        [AudioProxyCaptureSetVolume |->
             AudioProxyCommonSetCaptureCtrlParam(api, "AUDIO_HDI_CAPTURE_SET_VOLUME", "percent"),
         AudioProxyCaptureGetVolume |->
             AudioProxyCommonGetCaptureCtrlParam(api, "AUDIO_HDI_CAPTURE_GET_VOLUME", "percent"),
         AudioProxyCaptureGetGainThreshold |->
             Proxy("AUDIO_HDI_CAPTURE_GET_GAIN_THRESHOLD",
                 api.AudioProxyPreprocessCapture,
                 Checked(<<"min", "max">>)),
         AudioProxyCaptureGetGain |->
             AudioProxyCommonGetCaptureCtrlParam(api, "AUDIO_HDI_CAPTURE_GET_GAIN", "gain"),
         AudioProxyCaptureSetGain |->
             AudioProxyCommonSetCaptureCtrlParam(api, "AUDIO_HDI_CAPTURE_SET_GAIN", "gain"),
         AudioProxyCaptureCaptureFrame |->
             RecyclingTwice(
                 AudioProxyCaptureCaptureFrameSplit(Checked(<<"Buffer frame", "64-bit replyBytes">>)),
                 {"obtain", "token", "String adapterName", "pid"})]

CapturePosition(api) ==
    api @@
    [AudioProxyCaptureGetCapturePosition |->
         Proxy("AUDIO_HDI_CAPTURE_GET_CAPTURE_POSITION",
             api.AudioProxyPreprocessCapture,
             api.AudioProxyGetMmapPositionRead),
     AudioProxyCaptureSetExtraParams |->
         Proxy("AUDIO_HDI_CAPTURE_SET_EXTRA_PARAMS",
             api.AudioProxyPreprocessCapture & Checked(<<"String keyValueList">>),
             Nothing),
     AudioProxyCaptureGetExtraParams |->
         Proxy("AUDIO_HDI_CAPTURE_GET_EXTRA_PARAMS",
             api.AudioProxyPreprocessCapture & Checked(<<"listLenth">>),
             Checked(<<"String keyValueList">>)),
     AudioProxyCaptureReqMmapBuffer |->
         Proxy("AUDIO_HDI_CAPTURE_REQ_MMAP_BUFFER",
             api.AudioProxyPreprocessCapture & api.AudioProxyReqMmapBufferWrite,
             Nothing)]

CaptureMmap(api) ==
    api @@
    [AudioProxyCaptureGetMmapPosition |->
         Proxy("AUDIO_HDI_CAPTURE_GET_MMAP_POSITION",
             api.AudioProxyPreprocessCapture,
             api.AudioProxyGetMmapPositionRead),
     AudioProxyCaptureTurnStandbyMode |->
         Proxy("AUDIO_HDI_CAPTURE_TURN_STAND_BY_MODE", api.AudioProxyPreprocessCapture,
               Nothing),
     AudioProxyCaptureAudioDevDump |->
         Proxy("AUDIO_HDI_CAPTURE_DEV_DUMP",
             api.AudioProxyPreprocessCapture & Checked(<<"range", "FileDescriptor fd">>),
             Nothing)]

\* The plug-and-play service tells the audio service of a headset. The value of
\* AUDIO_PNP_SEND_USB_CMD is the one of AUDIO_HDI_PNP_DEV_STATUS.
AudioPnpStatusSend ==
    Proxy("AUDIO_HDI_PNP_DEV_STATUS", Checked(<<"token", "String pnpInfo">>), Nothing)

\* The operations of the service and the functions that ask for them.
Calls ==
    LET Of(api) == [
            DestroyRender |-> AudioProxyAdapterDestroyRender,
            DestroyCapture |-> api.AudioProxyAdapterDestroyCapture,
            GetPortCapability |-> api.AudioProxyAdapterGetPortCapability,
            SetPassthroughMode |-> api.AudioProxyAdapterSetPassthroughMode,
            GetPassthroughMode |-> api.AudioProxyAdapterGetPassthroughMode,
            UnloadAdapter |-> api.AudioProxyManagerUnloadAdapter,
            RenderStart |-> api.AudioProxyRenderStart,
            RenderStop |-> api.AudioProxyRenderStop,
            RenderPause |-> api.AudioProxyRenderPause,
            RenderResume |-> api.AudioProxyRenderResume,
            RenderGetFrameSize |-> api.AudioProxyRenderGetFrameSize,
            RenderGetFrameCount |-> api.AudioProxyRenderGetFrameCount,
            RenderSetSampleAttributes |-> api.AudioProxyRenderSetSampleAttributes,
            RenderGetSampleAttributes |-> api.AudioProxyRenderGetSampleAttributes,
            RenderGetCurrentChannelId |-> api.AudioProxyRenderGetCurrentChannelId,
            RenderCheckSceneCapability |-> api.AudioProxyRenderCheckSceneCapability,
            RenderSelectScene |-> api.AudioProxyRenderSelectScene,
            RenderSetMute |-> api.AudioProxyRenderSetMute,
            RenderGetMute |-> api.AudioProxyRenderGetMute,
            RenderSetVolume |-> api.AudioProxyRenderSetVolume,
            RenderGetVolume |-> api.AudioProxyRenderGetVolume,
            RenderGetGainThreshold |-> api.AudioProxyRenderGetGainThreshold,
            RenderGetGain |-> api.AudioProxyRenderGetGain,
            RenderSetGain |-> api.AudioProxyRenderSetGain,
            RenderGetLatency |-> api.AudioProxyRenderGetLatency,
            RenderRenderFrame |-> api.AudioProxyRenderRenderFrame,
            RenderGetRenderPosition |-> api.AudioProxyRenderGetRenderPosition,
            RenderSetChannelMode |-> api.AudioProxyRenderSetChannelMode,
            RenderGetChannelMode |-> api.AudioProxyRenderGetChannelMode,
            RenderSetExtraParams |-> api.AudioProxyRenderSetExtraParams,
            RenderGetExtraParams |-> api.AudioProxyRenderGetExtraParams,
            RenderReqMmapBuffer |-> api.AudioProxyRenderReqMmapBuffer,
            RenderGetMmapPosition |-> api.AudioProxyRenderGetMmapPosition,
            RenderTurnStandbyMode |-> api.AudioProxyRenderTurnStandbyMode,
            RenderAudioDevDump |-> api.AudioProxyRenderAudioDevDump,
            RenderRegCallback |-> api.AudioProxyRenderRegCallback,
            RenderDrainBuffer |-> api.AudioProxyRenderDrainBuffer,
            CaptureStart |-> api.AudioProxyCaptureStart,
            CaptureStop |-> api.AudioProxyCaptureStop,
            CapturePause |-> api.AudioProxyCapturePause,
            CaptureResume |-> api.AudioProxyCaptureResume,
            CaptureGetFrameSize |-> api.AudioProxyCaptureGetFrameSize,
            CaptureGetFrameCount |-> api.AudioProxyCaptureGetFrameCount,
            CaptureSetSampleAttributes |-> api.AudioProxyCaptureSetSampleAttributes,
            CaptureGetSampleAttributes |-> api.AudioProxyCaptureGetSampleAttributes,
            CaptureGetCurrentChannelId |-> api.AudioProxyCaptureGetCurrentChannelId,
            CaptureCheckSceneCapability |-> api.AudioProxyCaptureCheckSceneCapability,
            CaptureSelectScene |-> api.AudioProxyCaptureSelectScene,
            CaptureSetMute |-> api.AudioProxyCaptureSetMute,
            CaptureGetMute |-> api.AudioProxyCaptureGetMute,
            CaptureSetVolume |-> api.AudioProxyCaptureSetVolume,
            CaptureGetVolume |-> api.AudioProxyCaptureGetVolume,
            CaptureGetGainThreshold |-> api.AudioProxyCaptureGetGainThreshold,
            CaptureGetGain |-> api.AudioProxyCaptureGetGain,
            CaptureSetGain |-> api.AudioProxyCaptureSetGain,
            CaptureGetCapturePosition |-> api.AudioProxyCaptureGetCapturePosition,
            CaptureSetExtraParams |-> api.AudioProxyCaptureSetExtraParams,
            CaptureGetExtraParams |-> api.AudioProxyCaptureGetExtraParams,
            CaptureReqMmapBuffer |-> api.AudioProxyCaptureReqMmapBuffer,
            CaptureGetMmapPosition |-> api.AudioProxyCaptureGetMmapPosition,
            CaptureTurnStandbyMode |-> api.AudioProxyCaptureTurnStandbyMode,
            CaptureAudioDevDump |-> api.AudioProxyCaptureAudioDevDump,
            GetAllAdapters |-> api.AudioProxyManagerGetAllAdapters,
            LoadAdapter |-> api.AudioProxyManagerLoadAdapter,
            InitAllPorts |-> api.AudioProxyAdapterInitAllPorts,
            CreateRender |-> api.AudioProxyAdapterCreateRender,
            CreateCapture |-> api.AudioProxyAdapterCreateCapture,
            CaptureCaptureFrame |-> api.AudioProxyCaptureCaptureFrame,
            GetDevStatusByPnp |-> AudioPnpStatusSend]
    IN  Of(CaptureMmap(CapturePosition(CaptureVolume(CaptureScene(CaptureFrames(
           CaptureControl(RenderMmap(RenderWrite(RenderFrames(ProxyLoad(ProxyPassthrough(
           ProxyCreateCapture(ProxyCreateRender(ProxyAttributes @@ ProxyMmap @@ ProxyInit @@
           ProxyPorts @@ ProxyCapability @@ ProxyAdapters @@ RenderControl @@ RenderScene @@
           RenderVolume @@ RenderChannels @@ RenderCallback))))))))))))))

------------------------------------------------------------------------------
(***************************************************************************)
(* The service side of audio (hdi_binder/server).  A function for a        *)
(* render or a capture looks it up by the adapter name and the process id  *)
(* that the message begins with.  Standby is the Stop of the render or the *)
(* capture.                                                                *)
(***************************************************************************)
HdiServiceRenderCaptureReadData ==
    Checked(<<"String adapterName", "pid">>)

StubAttributes ==
    [WriteAudioSampleAttributes |->
         Checked(<<"type", "interleaved", "format", "sampleRate", "channelCount", "period",
             "frameSize", "isBigEndian", "isSignedData", "startThreshold", "stopThreshold",
             "silenceThreshold">>),
     ReadAudioSapmleAttrbutes |->
         Checked(<<"type", "interleaved", "format", "sampleRate", "channelCount", "period",
             "frameSize", "isBigEndian", "isSignedData", "startThreshold", "stopThreshold",
             "silenceThreshold">>)]

StubLists ==
    [AudioAdapterListCheckAndGetRender |->
         HdiServiceRenderCaptureReadData,
     AudioAdapterListCheckAndGetCapture |->
         HdiServiceRenderCaptureReadData]

StubPosition ==
    [HdiServicePositionWrite |->
         Checked(<<"64-bit frames", "64-bit tvSec", "64-bit tvNSec">>),
     HdiServiceReqMmapBuffer |->
         Checked(<<"64-bit memoryAddress", "FileDescriptor fd", "totalBufferFrames",
             "transferFrameSize", "isShareable", "offset">>),
     HdiServiceGetFuncs |->
         Stub(Nothing, "GetFuncs", TRUE, Nothing),
     HdiServiceGetAllAdapter |->
         Stub(Nothing, "GetAllAdapters", TRUE, Nothing)]

StubLoad ==
    [HdiServiceLoadAdapter |->
         Stub(Checked(<<"String adapterName", "dir">>), "LoadAdapter", TRUE, Nothing),
     HdiServiceInitAllPorts |->
         Stub(Checked(<<"String adapterName">>), "InitAllPorts", TRUE, Nothing),
     HdiServiceUnloadAdapter |->
         Stub(Checked(<<"String adapterName">>), "UnloadAdapter", TRUE, Nothing),
     HdiServiceGetPortCapability |->
         Stub(Checked(<<"String adapterName", "dir", "portId", "String portName">>),
              "GetPortCapability", TRUE, Nothing)]

StubPassthrough ==
    [HdiServiceSetPassthroughMode |->
         Stub(Checked(<<"String adapterName", "dir", "portId", "String portName", "mode">>),
              "SetPassthroughMode", TRUE, Nothing),
     HdiServiceGetPassthroughMode |->
         Stub(Checked(<<"String adapterName", "dir", "portId", "String portName">>),
              "GetPassthroughMode", TRUE, Checked(<<"mode">>)),
     HdiServiceGetDevStatusByPnp |->
         Stub(Checked(<<"String pnpInfo">>), "GetDevStatusByPnp", TRUE, Nothing)]

StubCreateRender ==
    LET GetInitRenderParaAttrs ==
            Checked(<<"type", "period", "frameSize", "startThreshold", "stopThreshold",
                "silenceThreshold", "isBigEndian">>)
        GetInitRenderPara ==
            Checked(<<"format", "channelCount", "sampleRate", "interleaved">>) & GetInitRenderParaAttrs
              & Checked(<<"isSignedData", "portId", "pins">>)
    IN  [HdiServiceCreatRender |->
             Stub(Checked(<<"String adapterName", "pid">>) & GetInitRenderPara,
                  "CreateRender", TRUE, Nothing)]

StubRenderControl(api) ==
    api @@
    [HdiServiceRenderDestory |->
         Stub(HdiServiceRenderCaptureReadData, "DestroyRender", TRUE, Nothing),
     HdiServiceRenderStart |->
         Stub(api.AudioAdapterListCheckAndGetRender, "RenderStart", TRUE, Nothing),
     HdiServiceRenderStop |->
         Stub(api.AudioAdapterListCheckAndGetRender, "RenderStop", TRUE, Nothing),
     HdiServiceRenderPause |->
         Stub(api.AudioAdapterListCheckAndGetRender, "RenderPause", TRUE, Nothing),
     HdiServiceRenderResume |->
         Stub(api.AudioAdapterListCheckAndGetRender, "RenderResume", TRUE, Nothing),
     HdiServiceRenderFlush |->
         Stub(api.AudioAdapterListCheckAndGetRender, "RenderFlush", TRUE, Nothing),
     HdiServiceRenderGetFrameSize |->
         Stub(api.AudioAdapterListCheckAndGetRender,
              "RenderGetFrameSize", TRUE, Checked(<<"64-bit size">>)),
     HdiServiceRenderGetFrameCount |->
         Stub(api.AudioAdapterListCheckAndGetRender,
              "RenderGetFrameCount", TRUE, Checked(<<"64-bit count">>))]

StubRenderScene(api) ==
    api @@
    [HdiServiceRenderSetSampleAttr |->
         Stub(api.AudioAdapterListCheckAndGetRender & api.ReadAudioSapmleAttrbutes,
              "RenderSetSampleAttributes", TRUE, Nothing),
     HdiServiceRenderGetSampleAttr |->
         Stub(api.AudioAdapterListCheckAndGetRender,
              "RenderGetSampleAttributes", TRUE, api.WriteAudioSampleAttributes),
     HdiServiceRenderGetCurChannelId |->
         Stub(api.AudioAdapterListCheckAndGetRender,
              "RenderGetCurrentChannelId", TRUE, Checked(<<"channelId">>)),
     HdiServiceRenderCheckSceneCapability |->
         Stub(api.AudioAdapterListCheckAndGetRender & Checked(<<"id", "pins">>),
              "RenderCheckSceneCapability", TRUE, Checked(<<"supported">>)),
     HdiServiceRenderSelectScene |->
         Stub(api.AudioAdapterListCheckAndGetRender & Checked(<<"id", "pins">>),
              "RenderSelectScene", TRUE, Nothing),
     HdiServiceRenderGetMute |->
         Stub(api.AudioAdapterListCheckAndGetRender, "RenderGetMute", TRUE, Checked(<<"mute">>))]

StubRenderVolume(api) ==
    api @@
    [HdiServiceRenderSetMute |->
         Stub(api.AudioAdapterListCheckAndGetRender & Checked(<<"mute">>), "RenderSetMute",
              TRUE, Nothing),
     HdiServiceRenderSetVolume |->
         Stub(api.AudioAdapterListCheckAndGetRender & Checked(<<"percent">>),
              "RenderSetVolume", TRUE, Nothing),
     HdiServiceRenderGetVolume |->
         Stub(api.AudioAdapterListCheckAndGetRender, "RenderGetVolume", TRUE,
              Checked(<<"percent">>)),
     HdiServiceRenderGetGainThreshold |->
         Stub(api.AudioAdapterListCheckAndGetRender,
              "RenderGetGainThreshold", TRUE, Checked(<<"min", "max">>)),
     HdiServiceRenderGetGain |->
         Stub(api.AudioAdapterListCheckAndGetRender, "RenderGetGain", TRUE, Checked(<<"gain">>)),
     HdiServiceRenderSetGain |->
         Stub(api.AudioAdapterListCheckAndGetRender & Checked(<<"gain">>), "RenderSetGain",
              TRUE, Nothing)]

StubRenderWrite(api) ==
    api @@
    [HdiServiceRenderGetLatency |->
         Stub(api.AudioAdapterListCheckAndGetRender, "RenderGetLatency", TRUE, Checked(<<"ms">>)),
     HdiServiceRenderRenderFrame |->
         Stub(HdiServiceRenderCaptureReadData & Checked(<<"Buffer frame">>),
              "RenderRenderFrame", TRUE, Nothing),
     HdiServiceRenderGetRenderPosition |->
         Stub(api.AudioAdapterListCheckAndGetRender,
              "RenderGetRenderPosition", TRUE, api.HdiServicePositionWrite),
     HdiServiceRenderGetSpeed |->
         Stub(api.AudioAdapterListCheckAndGetRender,
              "RenderGetRenderSpeed", TRUE, Checked(<<"64-bit speed">>)),
     HdiServiceRenderSetSpeed |->
         Stub(api.AudioAdapterListCheckAndGetRender & Checked(<<"64-bit speed">>),
              "RenderSetRenderSpeed", TRUE, Nothing),
     HdiServiceRenderSetChannelMode |->
         Stub(api.AudioAdapterListCheckAndGetRender & Checked(<<"mode">>),
              "RenderSetChannelMode", TRUE, Nothing)]

StubRenderChannels(api) ==
    api @@
    [HdiServiceRenderGetChannelMode |->
         Stub(api.AudioAdapterListCheckAndGetRender, "RenderGetChannelMode", TRUE,
              Checked(<<"mode">>)),
     HdiServiceRenderSetExtraParams |->
         Stub(api.AudioAdapterListCheckAndGetRender & Checked(<<"String keyValueList">>),
              "RenderSetExtraParams", TRUE, Nothing),
     HdiServiceRenderGetExtraParams |->
         Stub(api.AudioAdapterListCheckAndGetRender & Checked(<<"listLenth">>),
              "RenderGetExtraParams", TRUE, Checked(<<"String keyValueList">>)),
     HdiServiceRenderReqMmapBuffer |->
         Stub(api.AudioAdapterListCheckAndGetRender & Checked(<<"reqSize">>)
              & api.HdiServiceReqMmapBuffer,
              "RenderReqMmapBuffer", TRUE, Nothing),
     HdiServiceRenderGetMmapPosition |->
         Stub(api.AudioAdapterListCheckAndGetRender,
              "RenderGetMmapPosition", TRUE, api.HdiServicePositionWrite),
     HdiServiceRenderTurnStandbyMode |->
         Stub(api.AudioAdapterListCheckAndGetRender, "RenderTurnStandbyMode", TRUE, Nothing)]

StubRenderCallback(api) ==
    api @@
    [HdiServiceRenderDevDump |->
         Stub(api.AudioAdapterListCheckAndGetRender & Checked(<<"range", "FileDescriptor fd">>),
              "RenderAudioDevDump", TRUE, Nothing),
     HdiServiceRenderRegCallback |->
         Stub(api.AudioAdapterListCheckAndGetRender
              & Checked(<<"64-bit cookie", "64-bit callback">>),
              "RenderRegCallback", TRUE, Nothing),
     HdiServiceRenderDrainBuffer |->
         Stub(api.AudioAdapterListCheckAndGetRender & Checked(<<"type">>),
              "RenderDrainBuffer", TRUE, Nothing)]

StubCreateCapture ==
    LET GetInitCaptureParaAttrs ==
            Checked(<<"type", "period", "frameSize", "startThreshold", "stopThreshold",
                "silenceThreshold", "isBigEndian", "isSignedData">>)
        GetInitCapturePara ==
            Checked(<<"format", "channelCount", "sampleRate", "interleaved">>) & GetInitCaptureParaAttrs
              & Checked(<<"portId", "pins">>)
    IN  [HdiServiceCreatCapture |->
             Stub(Checked(<<"String adapterName", "pid">>) & GetInitCapturePara,
                  "CreateCapture", TRUE, Nothing)]

StubCaptureControl(api) ==
    api @@
    [HdiServiceCaptureDestory |->
         Stub(HdiServiceRenderCaptureReadData, "DestroyCapture", TRUE, Nothing),
     HdiServiceCaptureStart |->
         Stub(api.AudioAdapterListCheckAndGetCapture, "CaptureStart", TRUE, Nothing),
     HdiServiceCaptureStop |->
         Stub(api.AudioAdapterListCheckAndGetCapture, "CaptureStop", TRUE, Nothing),
     HdiServiceCapturePause |->
         Stub(api.AudioAdapterListCheckAndGetCapture, "CapturePause", TRUE, Nothing),
     HdiServiceCaptureResume |->
         Stub(api.AudioAdapterListCheckAndGetCapture, "CaptureResume", TRUE, Nothing),
     HdiServiceCaptureFlush |->
         Stub(api.AudioAdapterListCheckAndGetCapture, "CaptureFlush", TRUE, Nothing),
     HdiServiceCaptureGetFrameSize |->
         Stub(api.AudioAdapterListCheckAndGetCapture,
              "CaptureGetFrameSize", TRUE, Checked(<<"64-bit size">>)),
     HdiServiceCaptureGetFrameCount |->
         Stub(api.AudioAdapterListCheckAndGetCapture,
              "CaptureGetFrameCount", TRUE, Checked(<<"64-bit count">>))]

StubCaptureScene(api) ==
    api @@
    [HdiServiceCaptureSetSampleAttr |->
         Stub(api.AudioAdapterListCheckAndGetCapture & api.ReadAudioSapmleAttrbutes,
              "CaptureSetSampleAttributes", TRUE, Nothing),
     HdiServiceCaptureGetSampleAttr |->
         Stub(api.AudioAdapterListCheckAndGetCapture,
              "CaptureGetSampleAttributes", TRUE, api.WriteAudioSampleAttributes),
     HdiServiceCaptureGetCurChannelId |->
         Stub(api.AudioAdapterListCheckAndGetCapture,
              "CaptureGetCurrentChannelId", TRUE, Checked(<<"channelId">>)),
     HdiServiceCaptureCheckSceneCapability |->
         Stub(api.AudioAdapterListCheckAndGetCapture & Checked(<<"id", "pins">>),
              "CaptureCheckSceneCapability", TRUE, Checked(<<"supported">>)),
     HdiServiceCaptureSelectScene |->
         Stub(api.AudioAdapterListCheckAndGetCapture & Checked(<<"id", "pins">>),
              "CaptureSelectScene", TRUE, Nothing),
     HdiServiceCaptureGetMute |->
         Stub(api.AudioAdapterListCheckAndGetCapture, "CaptureGetMute", TRUE,
              Checked(<<"mute">>))]

StubCaptureVolume(api) ==
    api @@
    [HdiServiceCaptureSetMute |->
         Stub(api.AudioAdapterListCheckAndGetCapture & Checked(<<"mute">>),
              "CaptureSetMute", TRUE, Nothing),
     HdiServiceCaptureSetVolume |->
         Stub(api.AudioAdapterListCheckAndGetCapture & Checked(<<"percent">>),
              "CaptureSetVolume", TRUE, Nothing),
     HdiServiceCaptureGetVolume |->
         Stub(api.AudioAdapterListCheckAndGetCapture, "CaptureGetVolume", TRUE,
              Checked(<<"percent">>)),
     HdiServiceCaptureGetGainThreshold |->
         Stub(api.AudioAdapterListCheckAndGetCapture,
              "CaptureGetGainThreshold", TRUE, Checked(<<"min", "max">>)),
     HdiServiceCaptureGetGain |->
         Stub(api.AudioAdapterListCheckAndGetCapture, "CaptureGetGain", TRUE,
              Checked(<<"gain">>)),
     HdiServiceCaptureSetGain |->
         Stub(api.AudioAdapterListCheckAndGetCapture & Checked(<<"gain">>),
              "CaptureSetGain", TRUE, Nothing)]

StubCaptureRead(api) ==
    api @@
    [HdiServiceCaptureCaptureFrame |->
         Stub(HdiServiceRenderCaptureReadData & Checked(<<"64-bit requestBytes">>),
              "CaptureCaptureFrame", TRUE, Checked(<<"Buffer frame", "64-bit replyBytes">>)),
     HdiServiceCaptureGetCapturePosition |->
         Stub(api.AudioAdapterListCheckAndGetCapture,
              "CaptureGetCapturePosition", TRUE, api.HdiServicePositionWrite),
     HdiServiceCaptureSetExtraParams |->
         Stub(api.AudioAdapterListCheckAndGetCapture & Checked(<<"String keyValueList">>),
              "CaptureSetExtraParams", TRUE, Nothing),
     HdiServiceCaptureGetExtraParams |->
         Stub(api.AudioAdapterListCheckAndGetCapture & Checked(<<"listLenth">>),
              "CaptureGetExtraParams", TRUE, Checked(<<"String keyValueList">>)),
     HdiServiceCaptureReqMmapBuffer |->
         Stub(api.AudioAdapterListCheckAndGetCapture & Checked(<<"reqSize">>)
              & api.HdiServiceReqMmapBuffer,
              "CaptureReqMmapBuffer", TRUE, Nothing)]

StubCaptureMmap(api) ==
    api @@
    [HdiServiceCaptureGetMmapPosition |->
         Stub(api.AudioAdapterListCheckAndGetCapture,
              "CaptureGetMmapPosition", TRUE, api.HdiServicePositionWrite),
     HdiServiceCaptureTurnStandbyMode |->
         Stub(api.AudioAdapterListCheckAndGetCapture, "CaptureTurnStandbyMode", TRUE, Nothing),
     HdiServiceCaptureDevDump |->
         Stub(api.AudioAdapterListCheckAndGetCapture & Checked(<<"range", "FileDescriptor fd">>),
              "CaptureAudioDevDump", TRUE, Nothing)]

HandleLists(api) ==
    \* The commands of the manager, the adapters and the renders.
    api @@
    [g_hdiServiceDispatchCmdHandleList |-> [
          AUDIO_HDI_MGR_GET_FUNCS |-> api.HdiServiceGetFuncs,
          AUDIO_HDI_MGR_GET_ALL_ADAPTER |-> api.HdiServiceGetAllAdapter,
          AUDIO_HDI_MGR_LOAD_ADAPTER |-> api.HdiServiceLoadAdapter,
          AUDIO_HDI_MGR_UNLOAD_ADAPTER |-> api.HdiServiceUnloadAdapter,
          AUDIO_HDI_ADT_INIT_PORTS |-> api.HdiServiceInitAllPorts,
          AUDIO_HDI_ADT_GET_PORT_CAPABILITY |-> api.HdiServiceGetPortCapability,
          AUDIO_HDI_ADT_SET_PASS_MODE |-> api.HdiServiceSetPassthroughMode,
          AUDIO_HDI_ADT_GET_PASS_MODE |-> api.HdiServiceGetPassthroughMode,
          AUDIO_HDI_PNP_DEV_STATUS |-> api.HdiServiceGetDevStatusByPnp,
          AUDIO_HDI_RENDER_CREATE_RENDER |-> api.HdiServiceCreatRender,
          AUDIO_HDI_RENDER_DESTROY |-> api.HdiServiceRenderDestory,
          AUDIO_HDI_RENDER_START |-> api.HdiServiceRenderStart,
          AUDIO_HDI_RENDER_STOP |-> api.HdiServiceRenderStop,
          AUDIO_HDI_RENDER_PAUSE |-> api.HdiServiceRenderPause,
          AUDIO_HDI_RENDER_RESUME |-> api.HdiServiceRenderResume,
          AUDIO_HDI_RENDER_FLUSH |-> api.HdiServiceRenderFlush,
          AUDIO_HDI_RENDER_GET_FRAME_SIZE |-> api.HdiServiceRenderGetFrameSize,
          AUDIO_HDI_RENDER_GET_FRAME_COUNT |-> api.HdiServiceRenderGetFrameCount,
          AUDIO_HDI_RENDER_SET_SAMPLE_ATTR |-> api.HdiServiceRenderSetSampleAttr,
          AUDIO_HDI_RENDER_GET_SAMPLE_ATTR |-> api.HdiServiceRenderGetSampleAttr,
          AUDIO_HDI_RENDER_GET_CUR_CHANNEL_ID |-> api.HdiServiceRenderGetCurChannelId,
          AUDIO_HDI_RENDER_CHECK_SCENE_CAPABILITY |-> api.HdiServiceRenderCheckSceneCapability,
          AUDIO_HDI_RENDER_SELECT_SCENE |-> api.HdiServiceRenderSelectScene,
          AUDIO_HDI_RENDER_GET_MUTE |-> api.HdiServiceRenderGetMute,
          AUDIO_HDI_RENDER_SET_MUTE |-> api.HdiServiceRenderSetMute,
          AUDIO_HDI_RENDER_SET_VOLUME |-> api.HdiServiceRenderSetVolume,
          AUDIO_HDI_RENDER_GET_VOLUME |-> api.HdiServiceRenderGetVolume,
          AUDIO_HDI_RENDER_GET_GAIN_THRESHOLD |-> api.HdiServiceRenderGetGainThreshold,
          AUDIO_HDI_RENDER_GET_GAIN |-> api.HdiServiceRenderGetGain,
          AUDIO_HDI_RENDER_SET_GAIN |-> api.HdiServiceRenderSetGain,
          AUDIO_HDI_RENDER_GET_LATENCY |-> api.HdiServiceRenderGetLatency,
          AUDIO_HDI_RENDER_RENDER_FRAME |-> api.HdiServiceRenderRenderFrame,
          AUDIO_HDI_RENDER_GET_RENDER_POSITION |-> api.HdiServiceRenderGetRenderPosition,
          AUDIO_HDI_RENDER_GET_SPEED |-> api.HdiServiceRenderGetSpeed,
          AUDIO_HDI_RENDER_SET_SPEED |-> api.HdiServiceRenderSetSpeed,
          AUDIO_HDI_RENDER_SET_CHANNEL_MODE |-> api.HdiServiceRenderSetChannelMode,
          AUDIO_HDI_RENDER_GET_CHANNEL_MODE |-> api.HdiServiceRenderGetChannelMode,
          AUDIO_HDI_RENDER_SET_EXTRA_PARAMS |-> api.HdiServiceRenderSetExtraParams,
          AUDIO_HDI_RENDER_GET_EXTRA_PARAMS |-> api.HdiServiceRenderGetExtraParams,
          AUDIO_HDI_RENDER_REQ_MMAP_BUFFER |-> api.HdiServiceRenderReqMmapBuffer,
          AUDIO_HDI_RENDER_GET_MMAP_POSITION |-> api.HdiServiceRenderGetMmapPosition,
          AUDIO_HDI_RENDER_TURN_STAND_BY_MODE |-> api.HdiServiceRenderTurnStandbyMode,
          AUDIO_HDI_RENDER_DEV_DUMP |-> api.HdiServiceRenderDevDump,
          AUDIO_HDI_RENDER_REG_CALLBACK |-> api.HdiServiceRenderRegCallback,
          AUDIO_HDI_RENDER_DRAIN_BUFFER |-> api.HdiServiceRenderDrainBuffer],
     \* The commands of the captures.
     g_hdiServiceDispatchCmdHandleCapList |-> [
          AUDIO_HDI_CAPTURE_CREATE_CAPTURE |-> api.HdiServiceCreatCapture,
          AUDIO_HDI_CAPTURE_DESTROY |-> api.HdiServiceCaptureDestory,
          AUDIO_HDI_CAPTURE_START |-> api.HdiServiceCaptureStart,
          AUDIO_HDI_CAPTURE_STOP |-> api.HdiServiceCaptureStop,
          AUDIO_HDI_CAPTURE_PAUSE |-> api.HdiServiceCapturePause,
          AUDIO_HDI_CAPTURE_RESUME |-> api.HdiServiceCaptureResume,
          AUDIO_HDI_CAPTURE_FLUSH |-> api.HdiServiceCaptureFlush,
          AUDIO_HDI_CAPTURE_GET_FRAME_SIZE |-> api.HdiServiceCaptureGetFrameSize,
          AUDIO_HDI_CAPTURE_GET_FRAME_COUNT |-> api.HdiServiceCaptureGetFrameCount,
          AUDIO_HDI_CAPTURE_SET_SAMPLE_ATTR |-> api.HdiServiceCaptureSetSampleAttr,
          AUDIO_HDI_CAPTURE_GET_SAMPLE_ATTR |-> api.HdiServiceCaptureGetSampleAttr,
          AUDIO_HDI_CAPTURE_GET_CUR_CHANNEL_ID |-> api.HdiServiceCaptureGetCurChannelId,
          AUDIO_HDI_CAPTURE_CHECK_SCENE_CAPABILITY |-> api.HdiServiceCaptureCheckSceneCapability,
          AUDIO_HDI_CAPTURE_SELECT_SCENE |-> api.HdiServiceCaptureSelectScene,
          AUDIO_HDI_CAPTURE_GET_MUTE |-> api.HdiServiceCaptureGetMute,
          AUDIO_HDI_CAPTURE_SET_MUTE |-> api.HdiServiceCaptureSetMute,
          AUDIO_HDI_CAPTURE_SET_VOLUME |-> api.HdiServiceCaptureSetVolume,
          AUDIO_HDI_CAPTURE_GET_VOLUME |-> api.HdiServiceCaptureGetVolume,
          AUDIO_HDI_CAPTURE_GET_GAIN_THRESHOLD |-> api.HdiServiceCaptureGetGainThreshold,
          AUDIO_HDI_CAPTURE_GET_GAIN |-> api.HdiServiceCaptureGetGain,
          AUDIO_HDI_CAPTURE_SET_GAIN |-> api.HdiServiceCaptureSetGain,
          AUDIO_HDI_CAPTURE_CAPTURE_FRAME |-> api.HdiServiceCaptureCaptureFrame,
          AUDIO_HDI_CAPTURE_GET_CAPTURE_POSITION |-> api.HdiServiceCaptureGetCapturePosition,
          AUDIO_HDI_CAPTURE_SET_EXTRA_PARAMS |-> api.HdiServiceCaptureSetExtraParams,
          AUDIO_HDI_CAPTURE_GET_EXTRA_PARAMS |-> api.HdiServiceCaptureGetExtraParams,
          AUDIO_HDI_CAPTURE_REQ_MMAP_BUFFER |-> api.HdiServiceCaptureReqMmapBuffer,
          AUDIO_HDI_CAPTURE_GET_MMAP_POSITION |-> api.HdiServiceCaptureGetMmapPosition,
          AUDIO_HDI_CAPTURE_TURN_STAND_BY_MODE |-> api.HdiServiceCaptureTurnStandbyMode,
          AUDIO_HDI_CAPTURE_DEV_DUMP |-> api.HdiServiceCaptureDevDump]]

\* The functions of the stub, each with the ones it calls.
StubFunctions ==
    HandleLists(StubCaptureMmap(StubCaptureRead(StubCaptureVolume(StubCaptureScene(
        StubCaptureControl(StubRenderCallback(StubRenderChannels(StubRenderWrite(
        StubRenderVolume(StubRenderScene(StubRenderControl(StubAttributes @@ StubLists @@
        StubPosition @@ StubLoad @@ StubPassthrough @@ StubCreateRender @@
        StubCreateCapture))))))))))))

\* Mutant: the second list of commands is not searched.
DispatchFirstList ==
    LET Of(list) == [cmd \in DOMAIN list |-> Behind(Checked(<<"token">>), list[cmd])]
    IN  Of(StubFunctions.g_hdiServiceDispatchCmdHandleList)

\* The dispatcher checks the interface token before it calls the function of the command.
HdiServiceDispatch ==
    LET Of(list) == [cmd \in DOMAIN list |-> Behind(Checked(<<"token">>), list[cmd])]
        Lists(api) == api.g_hdiServiceDispatchCmdHandleList @@ api.g_hdiServiceDispatchCmdHandleCapList
    IN  Of(Lists(StubFunctions))
==============================================================================
