----------------------------- MODULE BtAudioHdi ------------------------------
(***************************************************************************)
(* The Bluetooth audio service (bluetooth/audio/hal/hdi_binder), its proxy *)
(* and its server.                                                         *)
(***************************************************************************)
EXTENDS HdiFields, TLC

------------------------------------------------------------------------------
(***************************************************************************)
(* The client side of the Bluetooth audio service (bluetooth/audio/hal/    *)
(* hdi_binder/proxy).  Every function also refuses null pointers before it *)
(* makes the call.  Gains travel as whole numbers and volumes as whole     *)
(* percents.                                                               *)
(***************************************************************************)
ProxyAttributes ==
    [AudioProxyPreprocessRender |->
         Checked(<<"token", "String adapterName", "pid">>),
     AudioProxyWriteSampleAttributes |->
         Checked(<<"type", "interleaved", "format", "sampleRate", "channelCount", "period",
             "frameSize", "isBigEndian", "isSignedData", "startThreshold", "stopThreshold",
             "silenceThreshold">>),
     AudioProxyReadSapmleAttrbutes |->
         Checked(<<"type", "interleaved", "format", "sampleRate", "channelCount", "period",
             "frameSize", "isBigEndian", "isSignedData", "startThreshold", "stopThreshold",
             "silenceThreshold">>)]

AudioProxyCommonSetRenderCtrlParam(api, cmId, param) ==
    Proxy(cmId, api.AudioProxyPreprocessRender & Checked(<<param>>), Nothing)

AudioProxyCommonGetRenderCtrlParam(api, cmId, param) ==
    Proxy(cmId, api.AudioProxyPreprocessRender, Checked(<<param>>))

ProxyMmap ==
    [AudioProxyGetMmapPositionRead |->
         Checked(<<"64-bit frames", "64-bit tvSec", "64-bit tvNSec">>),
     AudioProxyReqMmapBufferWrite |->
         Checked(<<"reqSize", "64-bit memoryAddress", "FileDescriptor fd", "totalBufferFrames",
             "transferFrameSize", "isShareable", "offset">>)]

ProxyInit ==
    LET AudioProxyCommonInitAttrs ==
            Checked(<<"interleaved", "type", "period", "frameSize", "startThreshold", "stopThreshold",
                "silenceThreshold", "isBigEndian", "isSignedData">>)
    IN  [AudioProxyCommonInitCreateData |->
             Checked(<<"String adapterName", "pid", "format", "channelCount", "sampleRate">>)
               & AudioProxyCommonInitAttrs & Checked(<<"portId", "pins">>)]

AudioProxyAdapterInitAllPorts ==
    Proxy("AUDIO_HDI_ADT_INIT_PORTS", Checked(<<"token", "String adapterName">>), Nothing)

ProxyCreateRender(api) ==
    api @@
    [AudioProxyAdapterCreateRender |->
         Proxy("AUDIO_HDI_RENDER_CREATE_RENDER",
             Checked(<<"token">>) & api.AudioProxyCommonInitCreateData,
             Nothing),
     AudioProxyAdapterDestroyRender |->
         Proxy("AUDIO_HDI_RENDER_DESTROY", api.AudioProxyPreprocessRender, Nothing),
     AudioProxyAdapterWritePortCapability |->
         Checked(<<"String adapterName", "dir", "portId", "String portName">>)]

ProxyCapability(api) ==
    LET AudioProxyAdapterSetAndGetPassthroughModeSBuf ==
            Checked(<<"dir", "portId", "String portName">>)
    IN  api @@
        [AudioProxyAdapterGetPortCapability |->
             Proxy("AUDIO_HDI_ADT_GET_PORT_CAPABILITY",
                 Checked(<<"token">>) & api.AudioProxyAdapterWritePortCapability,
                 Nothing),
         AudioProxyAdapterSetAndGetPassthroughModeSBuf |-> AudioProxyAdapterSetAndGetPassthroughModeSBuf,
         AudioProxyAdapterSetPassthroughMode |->
             Proxy("AUDIO_HDI_ADT_SET_PASS_MODE",
                 Checked(<<"token", "String adapterName">>)
                 & AudioProxyAdapterSetAndGetPassthroughModeSBuf
                   & Checked(<<"mode">>),
                 Nothing)]

AudioProxyAdapterGetPassthroughMode(api) ==
    Proxy("AUDIO_HDI_ADT_GET_PASS_MODE",
        Checked(<<"token", "String adapterName">>)
        & api.AudioProxyAdapterSetAndGetPassthroughModeSBuf,
        Checked(<<"mode">>))

ProxyLoad ==
    [AudioProxyManagerGetAllAdapters |->
         Proxy("AUDIO_HDI_MGR_GET_ALL_ADAPTER", Checked(<<"token">>), Nothing),
     AudioProxyManagerLoadAdapter |->
         Proxy("AUDIO_HDI_MGR_LOAD_ADAPTER",
             Checked(<<"token", "String adapterName", "dir">>),
             Nothing),
     AudioProxyManagerUnloadAdapter |->
         Lapsing(
             Proxy("AUDIO_HDI_MGR_UNLOAD_ADAPTER", Checked(<<"token", "String adapterName">>), Nothing),
             {"void"})]

RenderControl(api) ==
    LET AudioProxyRenderCtrl(cmId) == Proxy(cmId, api.AudioProxyPreprocessRender, Nothing)
    IN  api @@
        [AudioProxyRenderStart |->
             AudioProxyRenderCtrl("AUDIO_HDI_RENDER_START"),
         AudioProxyRenderStop |->
             AudioProxyRenderCtrl("AUDIO_HDI_RENDER_STOP"),
         AudioProxyRenderPause |->
             AudioProxyRenderCtrl("AUDIO_HDI_RENDER_PAUSE"),
         AudioProxyRenderResume |->
             AudioProxyRenderCtrl("AUDIO_HDI_RENDER_RESUME")]

RenderFrames(api) ==
    LET AudioProxyRenderGetFrameParameter(cmId, param) ==
            Proxy(cmId, api.AudioProxyPreprocessRender, Checked(<<param>>))
    IN  api @@
        [AudioProxyRenderGetFrameSize |->
             AudioProxyRenderGetFrameParameter("AUDIO_HDI_RENDER_GET_FRAME_SIZE", "64-bit size"),
         AudioProxyRenderGetFrameCount |->
             AudioProxyRenderGetFrameParameter("AUDIO_HDI_RENDER_GET_FRAME_COUNT", "64-bit count"),
         AudioProxyRenderSetSampleAttributes |->
             Proxy("AUDIO_HDI_RENDER_SET_SAMPLE_ATTR",
                 api.AudioProxyPreprocessRender
                 & api.AudioProxyWriteSampleAttributes,
                 Nothing),
         AudioProxyRenderGetSampleAttributes |->
             Proxy("AUDIO_HDI_RENDER_GET_SAMPLE_ATTR",
                 api.AudioProxyPreprocessRender,
                 api.AudioProxyReadSapmleAttrbutes),
         AudioProxyRenderGetCurrentChannelId |->
             Proxy("AUDIO_HDI_RENDER_GET_CUR_CHANNEL_ID",
                 api.AudioProxyPreprocessRender,
                 Checked(<<"channelId">>))]

RenderScene(api) ==
    api @@
    [AudioProxyRenderCheckSceneCapability |->
         Proxy("AUDIO_HDI_RENDER_CHECK_SCENE_CAPABILITY",
             api.AudioProxyPreprocessRender & Checked(<<"id", "pins">>),
             Checked(<<"supported">>)),
     AudioProxyRenderSelectScene |->
         Proxy("AUDIO_HDI_RENDER_SELECT_SCENE",
             api.AudioProxyPreprocessRender & Checked(<<"id", "pins">>),
             Nothing),
     AudioProxyRenderSetMute |->
         Proxy("AUDIO_HDI_RENDER_SET_MUTE", api.AudioProxyPreprocessRender
               & Checked(<<"mute">>), Nothing),
     AudioProxyRenderGetMute |->
         Proxy("AUDIO_HDI_RENDER_GET_MUTE", api.AudioProxyPreprocessRender,
               Checked(<<"mute">>)),
     AudioProxyRenderSetVolume |->
         AudioProxyCommonSetRenderCtrlParam(api, "AUDIO_HDI_RENDER_SET_VOLUME", "percent"),
     AudioProxyRenderGetVolume |->
         AudioProxyCommonGetRenderCtrlParam(api, "AUDIO_HDI_RENDER_GET_VOLUME", "percent")]

RenderWrite(api) ==
    api @@
    [AudioProxyRenderGetGainThreshold |->
         Proxy("AUDIO_HDI_RENDER_GET_GAIN_THRESHOLD",
             api.AudioProxyPreprocessRender,
             Checked(<<"min", "max">>)),
     AudioProxyRenderGetGain |->
         AudioProxyCommonGetRenderCtrlParam(api, "AUDIO_HDI_RENDER_GET_GAIN", "gain"),
     AudioProxyRenderSetGain |->
         AudioProxyCommonSetRenderCtrlParam(api, "AUDIO_HDI_RENDER_SET_GAIN", "gain"),
     AudioProxyRenderGetLatency |->
         Proxy("AUDIO_HDI_RENDER_GET_LATENCY", api.AudioProxyPreprocessRender,
               Checked(<<"ms">>)),
     AudioProxyRenderRenderFrame |->
         Proxy("AUDIO_HDI_RENDER_RENDER_FRAME",
             api.AudioProxyPreprocessRender & Checked(<<"Buffer frame">>),
             Nothing),
     AudioProxyRenderGetRenderPosition |->
         Proxy("AUDIO_HDI_RENDER_GET_RENDER_POSITION",
             api.AudioProxyPreprocessRender,
             api.AudioProxyGetMmapPositionRead)]

RenderChannels(api) ==
    api @@
    [AudioProxyRenderSetChannelMode |->
         Proxy("AUDIO_HDI_RENDER_SET_CHANNEL_MODE",
             api.AudioProxyPreprocessRender & Checked(<<"mode">>),
             Nothing),
     AudioProxyRenderGetChannelMode |->
         Proxy("AUDIO_HDI_RENDER_GET_CHANNEL_MODE", api.AudioProxyPreprocessRender,
               Checked(<<"mode">>)),
     AudioProxyRenderSetExtraParams |->
         Proxy("AUDIO_HDI_RENDER_SET_EXTRA_PARAMS",
             api.AudioProxyPreprocessRender & Checked(<<"String keyValueList">>),
             Nothing),
     AudioProxyRenderGetExtraParams |->
         Proxy("AUDIO_HDI_RENDER_GET_EXTRA_PARAMS",
             api.AudioProxyPreprocessRender & Checked(<<"listLenth">>),
             Checked(<<"String keyValueList">>))]

RenderMmap(api) ==
    api @@
    [AudioProxyRenderReqMmapBuffer |->
         Proxy("AUDIO_HDI_RENDER_REQ_MMAP_BUFFER",
             api.AudioProxyPreprocessRender & api.AudioProxyReqMmapBufferWrite,
             Nothing),
     AudioProxyRenderGetMmapPosition |->
         Proxy("AUDIO_HDI_RENDER_GET_MMAP_POSITION",
             api.AudioProxyPreprocessRender,
             api.AudioProxyGetMmapPositionRead),
     AudioProxyRenderTurnStandbyMode |->
         Proxy("AUDIO_HDI_RENDER_TURN_STAND_BY_MODE", api.AudioProxyPreprocessRender,
               Nothing),
     AudioProxyRenderAudioDevDump |->
         Proxy("AUDIO_HDI_RENDER_DEV_DUMP",
             api.AudioProxyPreprocessRender & Checked(<<"range", "fd">>),
             Nothing)]

RenderCallback(api) ==
    api @@
    [AudioProxyRenderRegCallback |->
         Proxy("AUDIO_HDI_RENDER_REG_CALLBACK",
             api.AudioProxyPreprocessRender
             & Checked(<<"64-bit cookie", "64-bit callback">>),
             Nothing),
     AudioProxyRenderDrainBuffer |->
         Proxy("AUDIO_HDI_RENDER_DRAIN_BUFFER",
             api.AudioProxyPreprocessRender & Checked(<<"type">>),
             Nothing)]

\* The operations of the service and the functions that ask for them.
Calls ==
    LET Of(api) == [
            InitAllPorts |-> AudioProxyAdapterInitAllPorts,
            CreateRender |-> api.AudioProxyAdapterCreateRender,
            DestroyRender |-> api.AudioProxyAdapterDestroyRender,
            GetPortCapability |-> api.AudioProxyAdapterGetPortCapability,
            SetPassthroughMode |-> api.AudioProxyAdapterSetPassthroughMode,
            GetPassthroughMode |-> AudioProxyAdapterGetPassthroughMode(api),
            GetAllAdapters |-> api.AudioProxyManagerGetAllAdapters,
            LoadAdapter |-> api.AudioProxyManagerLoadAdapter,
            UnloadAdapter |-> api.AudioProxyManagerUnloadAdapter,
            RenderStart |-> api.AudioProxyRenderStart,
            RenderStop |-> api.AudioProxyRenderStop,
            RenderPause |-> api.AudioProxyRenderPause,
            RenderResume |-> api.AudioProxyRenderResume,
            RenderGetFrameSize |-> api.AudioProxyRenderGetFrameSize,
            RenderGetFrameCount |-> api.AudioProxyRenderGetFrameCount,
            RenderSetSampleAttributes |-> api.AudioProxyRenderSetSampleAttributes,
            RenderGetSampleAttributes |-> api.AudioProxyRenderGetSampleAttributes,
            RenderGetCurrentChannelId |-> api.AudioProxyRenderGetCurrentChannelId,
            RenderCheckSceneCapability |-> api.AudioProxyRenderCheckSceneCapability,
            RenderSelectScene |-> api.AudioProxyRenderSelectScene,
            RenderSetMute |-> api.AudioProxyRenderSetMute,
            RenderGetMute |-> api.AudioProxyRenderGetMute,
            RenderSetVolume |-> api.AudioProxyRenderSetVolume,
            RenderGetVolume |-> api.AudioProxyRenderGetVolume,
            RenderGetGainThreshold |-> api.AudioProxyRenderGetGainThreshold,
            RenderGetGain |-> api.AudioProxyRenderGetGain,
            RenderSetGain |-> api.AudioProxyRenderSetGain,
            RenderGetLatency |-> api.AudioProxyRenderGetLatency,
            RenderRenderFrame |-> api.AudioProxyRenderRenderFrame,
            RenderGetRenderPosition |-> api.AudioProxyRenderGetRenderPosition,
            RenderSetChannelMode |-> api.AudioProxyRenderSetChannelMode,
            RenderGetChannelMode |-> api.AudioProxyRenderGetChannelMode,
            RenderSetExtraParams |-> api.AudioProxyRenderSetExtraParams,
            RenderGetExtraParams |-> api.AudioProxyRenderGetExtraParams,
            RenderReqMmapBuffer |-> api.AudioProxyRenderReqMmapBuffer,
            RenderGetMmapPosition |-> api.AudioProxyRenderGetMmapPosition,
            RenderTurnStandbyMode |-> api.AudioProxyRenderTurnStandbyMode,
            RenderAudioDevDump |-> api.AudioProxyRenderAudioDevDump,
            RenderRegCallback |-> api.AudioProxyRenderRegCallback,
            RenderDrainBuffer |-> api.AudioProxyRenderDrainBuffer]
    IN  Of(RenderCallback(RenderMmap(RenderChannels(RenderWrite(RenderScene(RenderFrames(
           RenderControl(ProxyCapability(ProxyCreateRender(ProxyAttributes @@ ProxyMmap @@
           ProxyInit @@ ProxyLoad))))))))))

------------------------------------------------------------------------------
(***************************************************************************)
(* The service side of Bluetooth audio (bluetooth/audio/hal/hdi_binder/    *)
(* server).  A function for a render looks it up by the adapter name and   *)
(* the process id that the message begins with.  Standby is the Stop of    *)
(* the render.                                                             *)
(***************************************************************************)
StubAttributes ==
    [HdiServiceRenderCaptureReadData |->
         Checked(<<"String adapterName", "pid">>),
     WriteAudioSampleAttributes |->
         Checked(<<"type", "interleaved", "format", "sampleRate", "channelCount", "period",
             "frameSize", "isBigEndian", "isSignedData", "startThreshold", "stopThreshold",
             "silenceThreshold">>),
     ReadAudioSapmleAttrbutes |->
         Checked(<<"type", "interleaved", "format", "sampleRate", "channelCount", "period",
             "frameSize", "isBigEndian", "isSignedData", "startThreshold", "stopThreshold",
             "silenceThreshold">>)]

AudioAdapterListCheckAndGetRender(api) ==
    api.HdiServiceRenderCaptureReadData

StubPosition ==
    [HdiServicePositionWrite |->
         Checked(<<"64-bit frames", "64-bit tvSec", "64-bit tvNSec">>),
     HdiServiceReqMmapBuffer |->
         Checked(<<"64-bit memoryAddress", "FileDescriptor fd", "totalBufferFrames",
             "transferFrameSize", "isShareable", "offset">>)]

StubCreateRender ==
    LET GetInitRenderParaAttrs ==
            Checked(<<"type", "period", "frameSize", "startThreshold", "stopThreshold",
                "silenceThreshold", "isBigEndian">>)
        GetInitRenderPara ==
            Checked(<<"format", "channelCount", "sampleRate", "interleaved">>) & GetInitRenderParaAttrs
              & Checked(<<"isSignedData", "portId", "pins">>)
    IN  [HdiServiceCreatRender |->
             Stub(Checked(<<"String adapterName", "pid">>) & GetInitRenderPara,
                  "CreateRender", TRUE, Nothing)]

StubRenderControl(api) ==
    api @@
    [HdiServiceRenderDestory |->
         Stub(api.HdiServiceRenderCaptureReadData, "DestroyRender", TRUE, Nothing),
     HdiServiceRenderStart |->
         Stub(AudioAdapterListCheckAndGetRender(api), "RenderStart", TRUE, Nothing),
     HdiServiceRenderStop |->
         Stub(AudioAdapterListCheckAndGetRender(api), "RenderStop", TRUE, Nothing),
     HdiServiceRenderPause |->
         Stub(AudioAdapterListCheckAndGetRender(api), "RenderPause", TRUE, Nothing),
     HdiServiceRenderResume |->
         Stub(AudioAdapterListCheckAndGetRender(api), "RenderResume", TRUE, Nothing),
     HdiServiceRenderFlush |->
         Stub(AudioAdapterListCheckAndGetRender(api), "RenderFlush", TRUE, Nothing),
     HdiServiceRenderGetFrameSize |->
         Stub(AudioAdapterListCheckAndGetRender(api),
              "RenderGetFrameSize", TRUE, Checked(<<"64-bit size">>)),
     HdiServiceRenderGetFrameCount |->
         Stub(AudioAdapterListCheckAndGetRender(api),
              "RenderGetFrameCount", TRUE, Checked(<<"64-bit count">>))]

StubRenderScene(api) ==
    api @@
    [HdiServiceRenderSetSampleAttr |->
         Stub(AudioAdapterListCheckAndGetRender(api) & api.ReadAudioSapmleAttrbutes,
              "RenderSetSampleAttributes", TRUE, Nothing),
     HdiServiceRenderGetSampleAttr |->
         Stub(AudioAdapterListCheckAndGetRender(api),
              "RenderGetSampleAttributes", TRUE, api.WriteAudioSampleAttributes),
     HdiServiceRenderGetCurChannelId |->
         Stub(AudioAdapterListCheckAndGetRender(api),
              "RenderGetCurrentChannelId", TRUE, Checked(<<"channelId">>)),
     HdiServiceRenderCheckSceneCapability |->
         Stub(AudioAdapterListCheckAndGetRender(api) & Checked(<<"id", "pins">>),
              "RenderCheckSceneCapability", TRUE, Checked(<<"supported">>)),
     HdiServiceRenderSelectScene |->
         Stub(AudioAdapterListCheckAndGetRender(api) & Checked(<<"id", "pins">>),
              "RenderSelectScene", TRUE, Nothing),
     HdiServiceRenderGetMute |->
         Stub(AudioAdapterListCheckAndGetRender(api), "RenderGetMute", TRUE, Checked(<<"mute">>))]

StubRenderVolume(api) ==
    api @@
    [HdiServiceRenderSetMute |->
         Stub(AudioAdapterListCheckAndGetRender(api) & Checked(<<"mute">>), "RenderSetMute", TRUE,
              Nothing),
     HdiServiceRenderSetVolume |->
         Stub(AudioAdapterListCheckAndGetRender(api) & Checked(<<"percent">>),
              "RenderSetVolume", TRUE, Nothing),
     HdiServiceRenderGetVolume |->
         Stub(AudioAdapterListCheckAndGetRender(api), "RenderGetVolume", TRUE, Checked(<<"percent">>)),
     HdiServiceRenderGetGainThreshold |->
         Stub(AudioAdapterListCheckAndGetRender(api),
              "RenderGetGainThreshold", TRUE, Checked(<<"min", "max">>)),
     HdiServiceRenderGetGain |->
         Stub(AudioAdapterListCheckAndGetRender(api), "RenderGetGain", TRUE, Checked(<<"gain">>)),
     HdiServiceRenderSetGain |->
         Stub(AudioAdapterListCheckAndGetRender(api) & Checked(<<"gain">>), "RenderSetGain", TRUE,
              Nothing)]

StubRenderWrite(api) ==
    api @@
    [HdiServiceRenderGetLatency |->
         Stub(AudioAdapterListCheckAndGetRender(api), "RenderGetLatency", TRUE, Checked(<<"ms">>)),
     HdiServiceRenderRenderFrame |->
         Stub(api.HdiServiceRenderCaptureReadData & Checked(<<"Buffer frame">>),
              "RenderRenderFrame", TRUE, Nothing),
     HdiServiceRenderGetRenderPosition |->
         Stub(AudioAdapterListCheckAndGetRender(api),
              "RenderGetRenderPosition", TRUE, api.HdiServicePositionWrite),
     HdiServiceRenderGetSpeed |->
         Stub(AudioAdapterListCheckAndGetRender(api),
              "RenderGetRenderSpeed", TRUE, Checked(<<"64-bit speed">>)),
     HdiServiceRenderSetSpeed |->
         Stub(AudioAdapterListCheckAndGetRender(api) & Checked(<<"64-bit speed">>),
              "RenderSetRenderSpeed", TRUE, Nothing),
     HdiServiceRenderSetChannelMode |->
         Stub(AudioAdapterListCheckAndGetRender(api) & Checked(<<"mode">>),
              "RenderSetChannelMode", TRUE, Nothing)]

StubRenderChannels(api) ==
    api @@
    [HdiServiceRenderGetChannelMode |->
         Stub(AudioAdapterListCheckAndGetRender(api), "RenderGetChannelMode", TRUE,
              Checked(<<"mode">>)),
     HdiServiceRenderSetExtraParams |->
         Stub(AudioAdapterListCheckAndGetRender(api) & Checked(<<"String keyValueList">>),
              "RenderSetExtraParams", TRUE, Nothing),
     HdiServiceRenderGetExtraParams |->
         Stub(AudioAdapterListCheckAndGetRender(api) & Checked(<<"listLenth">>),
              "RenderGetExtraParams", TRUE, Checked(<<"String keyValueList">>)),
     HdiServiceRenderReqMmapBuffer |->
         Stub(AudioAdapterListCheckAndGetRender(api) & Checked(<<"reqSize">>)
              & api.HdiServiceReqMmapBuffer,
              "RenderReqMmapBuffer", TRUE, Nothing),
     HdiServiceRenderGetMmapPosition |->
         Stub(AudioAdapterListCheckAndGetRender(api),
              "RenderGetMmapPosition", TRUE, api.HdiServicePositionWrite),
     HdiServiceRenderTurnStandbyMode |->
         Stub(AudioAdapterListCheckAndGetRender(api), "RenderTurnStandbyMode", TRUE, Nothing)]

StubRenderCallback(api) ==
    api @@
    [HdiServiceRenderDevDump |->
         Stub(AudioAdapterListCheckAndGetRender(api) & Checked(<<"range", "fd">>),
              "RenderAudioDevDump", TRUE, Nothing),
     HdiServiceRenderRegCallback |->
         Stub(AudioAdapterListCheckAndGetRender(api) & Checked(<<"64-bit cookie", "64-bit callback">>),
              "RenderRegCallback", TRUE, Nothing),
     HdiServiceRenderDrainBuffer |->
         Stub(AudioAdapterListCheckAndGetRender(api) & Checked(<<"type">>),
              "RenderDrainBuffer", TRUE, Nothing)]

StubAdapters ==
    [HdiServiceGetFuncs |->
         Stub(Nothing, "GetFuncs", TRUE, Nothing),
     HdiServiceGetAllAdapter |->
         Stub(Nothing, "GetAllAdapters", TRUE, Nothing)]

StubLoad ==
    [HdiServiceLoadAdapter |->
         Stub(Checked(<<"String adapterName", "dir">>), "LoadAdapter", TRUE, Nothing),
     HdiServiceInitAllPorts |->
         Stub(Checked(<<"String adapterName">>), "InitAllPorts", TRUE, Nothing),
     HdiServiceUnloadAdapter |->
         Stub(Checked(<<"String adapterName">>), "UnloadAdapter", TRUE, Nothing)]

StubCapability ==
    [HdiServiceGetPortCapability |->
         Stub(Checked(<<"String adapterName", "dir", "portId", "String portName">>),
              "GetPortCapability", TRUE, Nothing),
     HdiServiceSetPassthroughMode |->
         Stub(Checked(<<"String adapterName", "dir", "portId", "String portName", "mode">>),
              "SetPassthroughMode", TRUE, Nothing),
     HdiServiceGetPassthroughMode |->
         Stub(Checked(<<"String adapterName", "dir", "portId", "String portName">>),
              "GetPassthroughMode", TRUE, Checked(<<"mode">>))]

\* The commands and their functions.
g_hdiServiceDispatchCmdHandleList(api) == [
    AUDIO_HDI_MGR_GET_FUNCS |-> api.HdiServiceGetFuncs,
    AUDIO_HDI_MGR_GET_ALL_ADAPTER |-> api.HdiServiceGetAllAdapter,
    AUDIO_HDI_MGR_LOAD_ADAPTER |-> api.HdiServiceLoadAdapter,
    AUDIO_HDI_MGR_UNLOAD_ADAPTER |-> api.HdiServiceUnloadAdapter,
    AUDIO_HDI_ADT_INIT_PORTS |-> api.HdiServiceInitAllPorts,
    AUDIO_HDI_ADT_GET_PORT_CAPABILITY |-> api.HdiServiceGetPortCapability,
    AUDIO_HDI_ADT_SET_PASS_MODE |-> api.HdiServiceSetPassthroughMode,
    AUDIO_HDI_ADT_GET_PASS_MODE |-> api.HdiServiceGetPassthroughMode,
    AUDIO_HDI_RENDER_CREATE_RENDER |-> api.HdiServiceCreatRender,
    AUDIO_HDI_RENDER_DESTROY |-> api.HdiServiceRenderDestory,
    AUDIO_HDI_RENDER_START |-> api.HdiServiceRenderStart,
    AUDIO_HDI_RENDER_STOP |-> api.HdiServiceRenderStop,
    AUDIO_HDI_RENDER_PAUSE |-> api.HdiServiceRenderPause,
    AUDIO_HDI_RENDER_RESUME |-> api.HdiServiceRenderResume,
    AUDIO_HDI_RENDER_FLUSH |-> api.HdiServiceRenderFlush,
    AUDIO_HDI_RENDER_GET_FRAME_SIZE |-> api.HdiServiceRenderGetFrameSize,
    AUDIO_HDI_RENDER_GET_FRAME_COUNT |-> api.HdiServiceRenderGetFrameCount,
    AUDIO_HDI_RENDER_SET_SAMPLE_ATTR |-> api.HdiServiceRenderSetSampleAttr,
    AUDIO_HDI_RENDER_GET_SAMPLE_ATTR |-> api.HdiServiceRenderGetSampleAttr,
    AUDIO_HDI_RENDER_GET_CUR_CHANNEL_ID |-> api.HdiServiceRenderGetCurChannelId,
    AUDIO_HDI_RENDER_CHECK_SCENE_CAPABILITY |-> api.HdiServiceRenderCheckSceneCapability,
    AUDIO_HDI_RENDER_SELECT_SCENE |-> api.HdiServiceRenderSelectScene,
    AUDIO_HDI_RENDER_GET_MUTE |-> api.HdiServiceRenderGetMute,
    AUDIO_HDI_RENDER_SET_MUTE |-> api.HdiServiceRenderSetMute,
    AUDIO_HDI_RENDER_SET_VOLUME |-> api.HdiServiceRenderSetVolume,
    AUDIO_HDI_RENDER_GET_VOLUME |-> api.HdiServiceRenderGetVolume,
    AUDIO_HDI_RENDER_GET_GAIN_THRESHOLD |-> api.HdiServiceRenderGetGainThreshold,
    AUDIO_HDI_RENDER_GET_GAIN |-> api.HdiServiceRenderGetGain,
    AUDIO_HDI_RENDER_SET_GAIN |-> api.HdiServiceRenderSetGain,
    AUDIO_HDI_RENDER_GET_LATENCY |-> api.HdiServiceRenderGetLatency,
    AUDIO_HDI_RENDER_RENDER_FRAME |-> api.HdiServiceRenderRenderFrame,
    AUDIO_HDI_RENDER_GET_RENDER_POSITION |-> api.HdiServiceRenderGetRenderPosition,
    AUDIO_HDI_RENDER_GET_SPEED |-> api.HdiServiceRenderGetSpeed,
    AUDIO_HDI_RENDER_SET_SPEED |-> api.HdiServiceRenderSetSpeed,
    AUDIO_HDI_RENDER_SET_CHANNEL_MODE |-> api.HdiServiceRenderSetChannelMode,
    AUDIO_HDI_RENDER_GET_CHANNEL_MODE |-> api.HdiServiceRenderGetChannelMode,
    AUDIO_HDI_RENDER_SET_EXTRA_PARAMS |-> api.HdiServiceRenderSetExtraParams,
    AUDIO_HDI_RENDER_GET_EXTRA_PARAMS |-> api.HdiServiceRenderGetExtraParams,
    AUDIO_HDI_RENDER_REQ_MMAP_BUFFER |-> api.HdiServiceRenderReqMmapBuffer,
    AUDIO_HDI_RENDER_GET_MMAP_POSITION |-> api.HdiServiceRenderGetMmapPosition,
    AUDIO_HDI_RENDER_TURN_STAND_BY_MODE |-> api.HdiServiceRenderTurnStandbyMode,
    AUDIO_HDI_RENDER_DEV_DUMP |-> api.HdiServiceRenderDevDump,
    AUDIO_HDI_RENDER_REG_CALLBACK |-> api.HdiServiceRenderRegCallback,
    AUDIO_HDI_RENDER_DRAIN_BUFFER |-> api.HdiServiceRenderDrainBuffer]

\* The dispatcher checks the interface token before it calls the function of the command.
HdiServiceDispatch ==
    LET Of(api) ==
            [cmd \in DOMAIN g_hdiServiceDispatchCmdHandleList(api) |->
                Behind(Checked(<<"token">>), g_hdiServiceDispatchCmdHandleList(api)[cmd])]
    IN  Of(StubRenderCallback(StubRenderChannels(StubRenderWrite(StubRenderVolume(
           StubRenderScene(StubRenderControl(StubAttributes @@ StubPosition @@
           StubCreateRender @@ StubAdapters @@ StubLoad @@ StubCapability)))))))
==============================================================================
