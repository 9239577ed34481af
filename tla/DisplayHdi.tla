----------------------------- MODULE DisplayHdi ------------------------------
(***************************************************************************)
(* The display device service (display/hdi_service/device), its proxy and  *)
(* its stub.  A function of the stub that has the name of one of the proxy *)
(* is named with Stub here.                                                *)
(***************************************************************************)
EXTENDS HdiFields, TLC

------------------------------------------------------------------------------
(***************************************************************************)
(* How proxy and stub of the display device service move structures,       *)
(* handles and descriptors through a parcel (display_device_common).       *)
(***************************************************************************)
\* A structure or an array is written as its size and its bytes. Both functions fail when there
\* is nothing to move, and the reader compares the size.
DisplayDeviceWriteData(data) == Checked(<<"size", data>>)

DisplayDeviceReadData(data) == Checked(<<"size", data>>)

\* A number is written behind its size, too.
DisplayDeviceWriteInt32(data) == Checked(<<"size", data>>)

DisplayDeviceWriteBufHdl(data) == Checked(<<data>>)
DisplayDeviceReadBufHdl(data) == Checked(<<data>>)

\* A flag tells whether there is a descriptor.
DisplayDeviceWriteFileDescriptor(fd) == Checked(<<"invalid fd">>) \cup Checked(<<"valid fd", fd>>)

DisplayDeviceReadFileDescriptor(fd) == Checked(<<"invalid fd">>) \cup Checked(<<"valid fd", fd>>)

\* One element stands for the elements of an array.
DisplayDeviceWriteFileDescriptorArray(fd) == DisplayDeviceWriteFileDescriptor(fd)

DisplayDeviceReadFileDescriptorArray(fd) == DisplayDeviceReadFileDescriptor(fd)

------------------------------------------------------------------------------
(***************************************************************************)
(* The client side of the display device service (display_device_proxy).   *)
(* Every function also refuses a devId above MAX_DEVID and null pointers   *)
(* before it makes the call.                                               *)
(***************************************************************************)
Registrations ==
    [RegHotPlugCallback |->
         Proxy("DSP_CMD_REGHOTPLUGCALLBACK", Checked(<<"token">>), Nothing),
     RegDisplayVBlankCallback |->
         Lapsing(Proxy("DSP_CMD_REGDISPLAYVBLANKCALLBACK", Checked(<<"token", "devId">>), Nothing),
                 {"silent"}),
     RegDisplayRefreshCallback |->
         Proxy("DSP_CMD_REGDISPLAYREFRESHCALLBACK", Checked(<<"token", "devId">>), Nothing),
     GetDisplayCapability |->
         Proxy("DSP_CMD_GETDISPLAYCAPABILITY",
             Checked(<<"token", "devId">>),
             DisplayDeviceReadData("info")),
     GetDisplaySupportedModes |->
         Proxy("DSP_CMD_GETDISPLAYSUPPORTEDMODES",
             Checked(<<"token", "devId", "num">>),
             Unchecked(<<"num">>) & DisplayDeviceReadData("modes"))
         \cup Proxy("DSP_CMD_GETDISPLAYSUPPORTEDMODES",
             Checked(<<"token", "devId", "num">>),
             Unchecked(<<"num">>))]

ModeAndPower ==
    [GetDisplayMode |->
         Proxy("DSP_CMD_GETDISPLAYMODE", Checked(<<"token", "devId">>), Unchecked(<<"modeId">>)),
     SetDisplayMode |->
         Proxy("DSP_CMD_SETDISPLAYMODE", Checked(<<"token", "devId", "modeId">>), Nothing),
     GetDisplayPowerStatus |->
         Proxy("DSP_CMD_GETDISPLAYPOWERSTATUS", Checked(<<"token", "devId">>), Unchecked(<<"status">>)),
     SetDisplayPowerStatus |->
         Proxy("DSP_CMD_SETDISPLAYPOWERSTATUS", Checked(<<"token", "devId", "status">>), Nothing),
     GetDisplayBacklight |->
         Proxy("DSP_CMD_GETDISPLAYBACKLIGHT", Checked(<<"token", "devId">>), Unchecked(<<"level">>))]

PropertyAndLayers ==
    [SetDisplayBacklight |->
         Proxy("DSP_CMD_SETDISPLAYBACKLIGHT", Checked(<<"token", "devId", "level">>), Nothing),
     GetDisplayProperty |->
         Proxy("DSP_CMD_GETDISPLAYPROPERTY",
             Checked(<<"token", "devId", "propertyId">>),
             Unchecked(<<"64-bit value">>)),
     SetDisplayProperty |->
         Proxy("DSP_CMD_SETDISPLAYPROPERTY",
             Checked(<<"token", "devId", "propertyId", "value">>),
             Nothing),
     PrepareDisplayLayers |->
         Proxy("DSP_CMD_PREPAREDISPLAYLAYERS",
             Checked(<<"token", "devId", "needFlushFb">>),
             Unchecked(<<"needFlushFb">>))]

ClientSurface ==
    [GetDisplayCompChange |->
         LET Reads(arrays) ==
                 Proxy("DSP_CMD_GETDISPLAYCOMPCHANGE",
                     Checked(<<"token", "devId">>),
                     Unchecked(<<"no num">>) \cup (Unchecked(<<"num">>) & arrays))
         IN  Reads(DisplayDeviceReadData("layers") & DisplayDeviceReadData("type"))
             \cup Reads(DisplayDeviceReadData("layers"))
             \cup Reads(DisplayDeviceReadData("type"))
             \cup Reads(Nothing),
     SetDisplayClientCrop |->
         Proxy("DSP_CMD_SETDISPLAYCLIENTCROP",
             Checked(<<"token", "devId">>) & DisplayDeviceWriteData("rect"),
             Nothing),
     SetDisplayClientDestRect |->
         Proxy("DSP_CMD_SETDISPLAYCLIENTDESTRECT",
             Checked(<<"token", "devId">>) & DisplayDeviceWriteData("rect"),
             Nothing),
     SetDisplayClientBuffer |->
         Proxy("DSP_CMD_SETDISPLAYCLIENTBUFFER",
             Checked(<<"token", "devId">>) & DisplayDeviceWriteBufHdl("bufhandle")
               & DisplayDeviceWriteFileDescriptor("fence"),
             Nothing)]

Composition ==
    [SetDisplayClientDamage |->
         Proxy("DSP_CMD_SETDISPLAYCLIENTDAMAGE",
             Checked(<<"token", "devId", "num">>) & DisplayDeviceWriteData("rect"),
             Nothing),
     SetDisplayVsyncEnabled |->
         Proxy("DSP_CMD_SETDISPLAYVSYNCENABLED", Checked(<<"token", "devId", "enabled">>), Nothing),
     GetDisplayReleaseFence |->
         LET Reads(arrays) ==
                 Proxy("DSP_CMD_GETDISPLAYRELEASEFENCE",
                     Checked(<<"token", "devId">>),
                     Unchecked(<<"num">>) & arrays)
         IN  Reads(DisplayDeviceReadData("layers") & DisplayDeviceReadFileDescriptorArray("fences"))
             \cup Reads(DisplayDeviceReadData("layers"))
             \cup Reads(DisplayDeviceReadFileDescriptorArray("fences"))
             \cup Reads(Nothing),
     Commit |->
         Proxy("DSP_CMD_COMMIT",
             Checked(<<"token", "devId">>),
             DisplayDeviceReadFileDescriptor("fence")),
     InvokeDisplayCmd |-> NotSupported]

VirtualDisplays ==
    [CreateVirtualDisplay |->
         Proxy("DSP_CMD_CREATEVIRTUALDISPLAY",
             Checked(<<"token", "devId", "width", "height">>),
             Unchecked(<<"format", "devId">>)),
     DestroyVirtualDisplay |->
         Proxy("DSP_CMD_DESTROYVIRTUALDISPLAY", Checked(<<"token", "devId">>), Nothing),
     SetVirtualDisplayBuffer |->
         Proxy("DSP_CMD_SETVIRTUALDISPLAYBUFFER",
             Checked(<<"token", "devId">>) & DisplayDeviceWriteBufHdl("bufhandle")
               & DisplayDeviceWriteFileDescriptor("fence"),
             Nothing),
     GetWriteBackFrame |-> NotSupported,
     CreateWriteBack |->
         Proxy("DSP_CMD_CREATEWRITEBACK",
             Checked(<<"token", "width", "height">>),
             Unchecked(<<"devId", "format">>)),
     DestroyWriteBack |->
         Proxy("DSP_CMD_DESTROYWRITEBACK", Checked(<<"token", "devId">>), Nothing)]

DisplayAndLayer ==
    [SetProxyRemoteCallback |->
         Proxy("DSP_CMD_SET_PROXY_REMOTE_CALLBACK",
             Checked(<<"token", "RemoteObject callback">>),
             Nothing),
     InitDisplay |->
         Proxy("DSP_CMD_INITDISPLAY", Checked(<<"token", "devId">>), Nothing),
     DeinitDisplay |->
         Proxy("DSP_CMD_DEINITDISPLAY", Checked(<<"token", "devId">>), Nothing),
     GetDisplayInfo |->
         Proxy("DSP_CMD_GETDISPLAYINFO",
             Checked(<<"token", "devId">>),
             DisplayDeviceReadData("dispInfo")),
     CreateLayer |->
         Proxy("DSP_CMD_CREATELAYER",
             Checked(<<"token", "devId">>) & DisplayDeviceWriteData("layerInfo"),
             Unchecked(<<"layerId">>))]

LayerVisibility ==
    [CloseLayer |->
         Proxy("DSP_CMD_CLOSELAYER", Checked(<<"token", "devId", "layerId">>), Nothing),
     SetLayerVisible |->
         Proxy("DSP_CMD_SETLAYERVISIBLE", Checked(<<"token", "devId", "layerId", "visible">>), Nothing),
     GetLayerVisibleState |->
         Proxy("DSP_CMD_GETLAYERVISIBLESTATE",
             Checked(<<"token", "devId", "layerId">>),
             Unchecked(<<"visible">>)),
     SetLayerSize |->
         Proxy("DSP_CMD_SETLAYERSIZE",
             Checked(<<"token", "devId", "layerId">>) & DisplayDeviceWriteData("rect"),
             Nothing)]

LayerPlacement ==
    [GetLayerSize |->
         Proxy("DSP_CMD_GETLAYERSIZE",
             Checked(<<"token", "devId", "layerId">>),
             Failing(<<"rect">>)),
     SetLayerCrop |->
         Proxy("DSP_CMD_SETLAYERCROP",
             Checked(<<"token", "devId", "layerId">>) & DisplayDeviceWriteData("rect"),
             Nothing),
     SetLayerZorder |->
         Proxy("DSP_CMD_SETLAYERZORDER", Checked(<<"token", "devId", "layerId", "zorder">>), Nothing),
     GetLayerZorder |->
         Proxy("DSP_CMD_GETLAYERZORDER",
             Checked(<<"token", "devId", "layerId">>),
             Unchecked(<<"zorder">>))]

LayerAlpha ==
    [SetLayerPreMulti |->
         Proxy("DSP_CMD_SETLAYERPREMULTI", Checked(<<"token", "devId", "layerId", "preMul">>), Nothing),
     GetLayerPreMulti |->
         Proxy("DSP_CMD_GETLAYERPREMULTI",
             Checked(<<"token", "devId", "layerId">>),
             Unchecked(<<"preMul">>)),
     SetLayerAlpha |->
         Proxy("DSP_CMD_SETLAYERALPHA",
             Checked(<<"token", "devId", "layerId">>) & DisplayDeviceWriteData("alpha"),
             Nothing),
     GetLayerAlpha |->
         Proxy("DSP_CMD_GETLAYERALPHA",
             Checked(<<"token", "devId", "layerId">>),
             DisplayDeviceReadData("alpha"))]

LayerColors ==
    [SetLayerColorKey |->
         Proxy("DSP_CMD_SETLAYERCOLORKEY",
             Checked(<<"token", "devId", "layerId", "enabled", "key">>),
             Nothing),
     GetLayerColorKey |->
         Proxy("DSP_CMD_GETLAYERCOLORKEY",
             Checked(<<"token", "devId", "layerId">>),
             Unchecked(<<"enabled", "key">>)),
     SetLayerPalette |->
         Proxy("DSP_CMD_SETLAYERPALETTE",
             Checked(<<"token", "devId", "layerId", "len">>) & DisplayDeviceWriteData("palette"),
             Nothing),
     GetLayerPalette |->
         Proxy("DSP_CMD_GETLAYERPALETTE",
             Checked(<<"token", "devId", "layerId">>),
             Unchecked(<<"len">>) & DisplayDeviceReadData("palette"))]

LayerTransform ==
    [SetTransformMode |->
         Proxy("DSP_CMD_SETTRANSFORMMODE", Checked(<<"token", "devId", "layerId", "type">>), Nothing),
     SetLayerCompression |->
         Proxy("DSP_CMD_SETLAYERCOMPRESSION",
             Checked(<<"token", "devId", "layerId", "compType">>),
             Nothing),
     GetLayerCompression |->
         Proxy("DSP_CMD_GETLAYERCOMPRESSION",
             Checked(<<"token", "devId", "layerId">>),
             Unchecked(<<"compType">>)),
     SetLayerDirtyRegion |->
         Proxy("DSP_CMD_SETLAYERDIRTYREGION",
             Checked(<<"token", "devId", "layerId", "num">>) & DisplayDeviceWriteData("region"),
             Nothing)]

LayerContents ==
    [GetLayerBuffer |->
         Proxy("DSP_CMD_GETLAYERBUFFER",
             Checked(<<"token", "devId", "layerId">>),
             DisplayDeviceReadData("buffer") & DisplayDeviceReadBufHdl("bufhandle")),
     Flush |->
         Proxy("DSP_CMD_FLUSH",
             Checked(<<"token", "devId", "layerId">>) & DisplayDeviceWriteData("buffer")
               & DisplayDeviceWriteBufHdl("bufhandle"),
             Nothing),
     WaitForVBlank |->
         Proxy("DSP_CMD_WAITFORVBLANK", Checked(<<"token", "devId", "layerId", "timeOut">>), Nothing),
     SnapShot |->
         Proxy("DSP_CMD_SNAPSHOT",
             Checked(<<"token", "devId">>),
             DisplayDeviceReadData("buffer") & DisplayDeviceReadBufHdl("bufhandle"))]

LayerBuffers ==
    [SetLayerVisibleRegion |->
         Proxy("DSP_CMD_SETLAYERVISIBLEREGION",
             Checked(<<"token", "devId", "layerId", "num">>) & DisplayDeviceWriteData("rect"),
             Nothing),
     SetLayerBuffer |->
         Proxy("DSP_CMD_SETLAYERBUFFER",
             Checked(<<"token", "devId", "layerId">>) & DisplayDeviceWriteBufHdl("bufhandle")
               & DisplayDeviceWriteFileDescriptor("fence"),
             Nothing),
     InvokeLayerCmd |-> NotSupported,
     SetLayerCompositionType |->
         Proxy("DSP_CMD_SETLAYERCOMPOSITIONTYPE",
             Checked(<<"token", "devId", "layerId", "type">>),
             Nothing),
     SetLayerBlendType |->
         Proxy("DSP_CMD_SETLAYERBLENDTYPE", Checked(<<"token", "devId", "layerId", "type">>), Nothing)]

\* The operations of the service and the functions of IDisplayDevice that ask for them.
Calls ==
    LET Of(api) == [
            RegHotPlugCallback |-> api.RegHotPlugCallback,
            RegDisplayVBlankCallback |-> api.RegDisplayVBlankCallback,
            RegDisplayRefreshCallback |-> api.RegDisplayRefreshCallback,
            GetDisplayCapability |-> api.GetDisplayCapability,
            GetDisplaySupportedModes |-> api.GetDisplaySupportedModes,
            GetDisplayMode |-> api.GetDisplayMode,
            SetDisplayMode |-> api.SetDisplayMode,
            GetDisplayPowerStatus |-> api.GetDisplayPowerStatus,
            SetDisplayPowerStatus |-> api.SetDisplayPowerStatus,
            GetDisplayBacklight |-> api.GetDisplayBacklight,
            SetDisplayBacklight |-> api.SetDisplayBacklight,
            GetDisplayProperty |-> api.GetDisplayProperty,
            SetDisplayProperty |-> api.SetDisplayProperty,
            PrepareDisplayLayers |-> api.PrepareDisplayLayers,
            GetDisplayCompChange |-> api.GetDisplayCompChange,
            SetDisplayClientCrop |-> api.SetDisplayClientCrop,
            SetDisplayClientDestRect |-> api.SetDisplayClientDestRect,
            SetDisplayClientBuffer |-> api.SetDisplayClientBuffer,
            SetDisplayClientDamage |-> api.SetDisplayClientDamage,
            SetDisplayVsyncEnabled |-> api.SetDisplayVsyncEnabled,
            GetDisplayReleaseFence |-> api.GetDisplayReleaseFence, Commit |-> api.Commit,
            CreateVirtualDisplay |-> api.CreateVirtualDisplay,
            DestroyVirtualDisplay |-> api.DestroyVirtualDisplay,
            SetVirtualDisplayBuffer |-> api.SetVirtualDisplayBuffer,
            CreateWriteBack |-> api.CreateWriteBack,
            DestroyWriteBack |-> api.DestroyWriteBack,
            SetProxyRemoteCallback |-> api.SetProxyRemoteCallback,
            InitDisplay |-> api.InitDisplay, DeinitDisplay |-> api.DeinitDisplay,
            GetDisplayInfo |-> api.GetDisplayInfo, CreateLayer |-> api.CreateLayer,
            CloseLayer |-> api.CloseLayer,
            SetLayerVisible |-> api.SetLayerVisible,
            GetLayerVisibleState |-> api.GetLayerVisibleState,
            SetLayerSize |-> api.SetLayerSize, GetLayerSize |-> api.GetLayerSize,
            SetLayerCrop |-> api.SetLayerCrop,
            SetLayerZorder |-> api.SetLayerZorder, GetLayerZorder |-> api.GetLayerZorder,
            SetLayerPreMulti |-> api.SetLayerPreMulti, GetLayerPreMulti |-> api.GetLayerPreMulti,
            SetLayerAlpha |-> api.SetLayerAlpha, GetLayerAlpha |-> api.GetLayerAlpha,
            SetLayerColorKey |-> api.SetLayerColorKey,
            GetLayerColorKey |-> api.GetLayerColorKey,
            SetLayerPalette |-> api.SetLayerPalette, GetLayerPalette |-> api.GetLayerPalette,
            SetTransformMode |-> api.SetTransformMode,
            SetLayerCompression |-> api.SetLayerCompression,
            GetLayerCompression |-> api.GetLayerCompression,
            SetLayerDirtyRegion |-> api.SetLayerDirtyRegion,
            GetLayerBuffer |-> api.GetLayerBuffer, Flush |-> api.Flush,
            WaitForVBlank |-> api.WaitForVBlank,
            SnapShot |-> api.SnapShot, SetLayerVisibleRegion |-> api.SetLayerVisibleRegion,
            SetLayerBuffer |-> api.SetLayerBuffer,
            SetLayerCompositionType |-> api.SetLayerCompositionType,
            SetLayerBlendType |-> api.SetLayerBlendType]
    IN  Of(Registrations @@ ModeAndPower @@ PropertyAndLayers @@ ClientSurface @@
           Composition @@ VirtualDisplays @@ DisplayAndLayer @@ LayerVisibility @@
           LayerPlacement @@ LayerAlpha @@ LayerColors @@ LayerTransform @@ LayerContents @@
           LayerBuffers)

------------------------------------------------------------------------------
(***************************************************************************)
(* The service side of the display device (display_device_host_driver).    *)
(* A function that registers a callback refuses the call as long as the    *)
(* client has not set a callback object.                                   *)
(***************************************************************************)
ModeStubs ==
    [RegHotPlugCallbackStub |->
         Stub(Checked(<<"token">>), "RegHotPlugCallback", FALSE, Nothing),
     GetDisplayCapabilityStub |->
         Stub(Checked(<<"token", "devId">>),
              "GetDisplayCapability", TRUE, DisplayDeviceWriteData("info")),
     GetDisplaySupportedModesStub |->
         Stub(Checked(<<"token", "devId", "num">>), "GetDisplaySupportedModes", TRUE,
              (Checked(<<"no num">>) & Failing(<<"modes">>))
              \cup (Checked(<<"num">>) & DisplayDeviceWriteData("modes"))),
     GetDisplayModeStub |->
         Stub(Checked(<<"token", "devId">>), "GetDisplayMode", TRUE, Checked(<<"modeId">>)),
     SetDisplayModeStub |->
         Stub(Checked(<<"token", "devId", "modeId">>), "SetDisplayMode", TRUE, Nothing)]

PowerStubs ==
    [GetDisplayPowerStatusStub |->
         Stub(Checked(<<"token", "devId">>), "GetDisplayPowerStatus", TRUE, Checked(<<"status">>)),
     SetDisplayPowerStatusStub |->
         Stub(Checked(<<"token", "devId", "status">>), "SetDisplayPowerStatus", TRUE, Nothing),
     GetDisplayBackLight |->
         Stub(Checked(<<"token", "devId">>), "GetDisplayBacklight", TRUE, Checked(<<"level">>)),
     SetDisplayBackLight |->
         Stub(Checked(<<"token", "devId", "level">>), "SetDisplayBacklight", TRUE, Nothing),
     GetDisplayPropertyStub |->
         Stub(Checked(<<"token", "devId", "propertyId">>),
              "GetDisplayProperty", TRUE, Checked(<<"64-bit value">>))]

PropertyStubs ==
    [SetDisplayPropertyStub |->
         Stub(Checked(<<"token", "devId", "propertyId", "64-bit value">>),
              "SetDisplayProperty", TRUE, Nothing),
     PrepareDisplayLayersStub |->
         Stub(Checked(<<"token", "devId">>), "PrepareDisplayLayers", TRUE, Checked(<<"needFlushFb">>)),
     GetDisplayCompChangeStub |->
         Stub(Checked(<<"token", "devId">>), "GetDisplayCompChange", TRUE,
              Checked(<<"no num">>)
              \cup (Checked(<<"num">>) & DisplayDeviceWriteData("layers")
                    & DisplayDeviceWriteData("type"))),
     SetDisplayClientCropStub |->
         Stub(Checked(<<"token", "devId">>) & DisplayDeviceReadData("rect"),
              "SetDisplayClientCrop", FALSE, Nothing),
     SetDisplayClientDestRectStub |->
         Stub(Checked(<<"token", "devId">>) & DisplayDeviceReadData("rect"),
              "SetDisplayClientDestRect", TRUE, Nothing)]

ClientSurfaceStubs ==
    [SetDisplayClientBufferStub |->
         Stub(Checked(<<"token", "devId">>) & DisplayDeviceReadBufHdl("bufhandle")
                & DisplayDeviceReadFileDescriptor("fence"),
              "SetDisplayClientBuffer", FALSE, Nothing),
     SetDisplayClientDamageStub |->
         Stub(Checked(<<"token", "devId">>) & Inverted(<<"num">>) & DisplayDeviceReadData("rect"),
              "SetDisplayClientDamage", TRUE, Nothing),
     SetDisplayVsyncEnabledStub |->
         Stub(Checked(<<"token", "devId", "enabled">>), "SetDisplayVsyncEnabled", TRUE, Nothing)]

CompositionStubs ==
    [RegDisplayVBlankCallbackStub |->
         Stub(Checked(<<"token", "devId">>), "RegDisplayVBlankCallback", TRUE, Nothing),
     GetDisplayReleaseFenceStub |->
         Stub(Checked(<<"token", "devId">>), "GetDisplayReleaseFence", TRUE,
              (Checked(<<"no num">>) & Failing(<<"layers">>))
              \cup (Checked(<<"num">>) & DisplayDeviceWriteData("layers")
                   & DisplayDeviceWriteFileDescriptorArray("fences"))),
     CommitStub |->
         Stub(Checked(<<"token", "devId">>), "Commit", TRUE, DisplayDeviceWriteFileDescriptor("fence")),
     InvokeDisplayCmdStub |->
         Refusing,
     CreateVirtualDisplayStub |->
         Stub(Checked(<<"token", "width", "height">>),
              "CreateVirtualDisplay", TRUE, Checked(<<"format", "devId">>)),
     DestroyVirtualDisplayStub |->
         Stub(Checked(<<"token", "devId">>), "DestroyVirtualDisplay", TRUE, Nothing)]

SetVirtualDisplayBufferStub ==
    Stub(Checked(<<"token", "devId">>) & DisplayDeviceReadBufHdl("bufhandle")
           & DisplayDeviceReadFileDescriptor("fence"),
         "SetVirtualDisplayBuffer", TRUE, Nothing)

WriteBackStubs ==
    [RegDisplayRefreshCallbackStub |->
         Stub(Checked(<<"token", "devId">>), "RegDisplayRefreshCallback", TRUE, Nothing),
     GetWriteBackFrameStub |->
         Refusing,
     CreateWriteBackStub |->
         Refusing,
     DestroyWriteBackStub |->
         Refusing]

LayerVisibilityStubs ==
    [SetProxyRemoteCallbackStub |->
         Stub(Checked(<<"token", "RemoteObject callback">>), "SetProxyRemoteCallback", TRUE, Nothing),
     CreateLayerStub |->
         Stub(Checked(<<"token", "devId">>) & DisplayDeviceReadData("layerInfo"),
              "CreateLayer", TRUE, Checked(<<"layerId">>)),
     SetLayerVisibleStub |->
         Stub(Checked(<<"token", "devId", "layerId", "visible">>), "SetLayerVisible", TRUE, Nothing),
     GetLayerVisibleStateStub |->
         Stub(Checked(<<"token", "devId", "layerId">>),
              "GetLayerVisibleState", TRUE, Checked(<<"visible">>)),
     SetLayerCropStub |->
         Stub(Checked(<<"token", "devId", "layerId">>) & DisplayDeviceReadData("rect"),
              "SetLayerCrop", TRUE, Nothing)]

LayerZorderStubs ==
    [SetLayerZorderStub |->
         Stub(Checked(<<"token", "devId", "layerId", "zorder">>), "SetLayerZorder", TRUE, Nothing),
     GetLayerZorderStub |->
         Stub(Checked(<<"token", "devId", "layerId">>),
              "GetLayerZorder", TRUE, DisplayDeviceWriteInt32("zorder")),
     SetLayerPreMultiStub |->
         Stub(Checked(<<"token", "devId", "layerId", "preMul">>), "SetLayerPreMulti", TRUE, Nothing),
     GetLayerPreMultiStub |->
         Stub(Checked(<<"token", "devId", "layerId">>),
              "GetLayerPreMulti", TRUE, Checked(<<"preMul">>))]

LayerAlphaStubs ==
    [SetLayerAlphaStub |->
         Stub(Checked(<<"token", "devId", "layerId">>) & DisplayDeviceReadData("alpha"),
              "SetLayerAlpha", TRUE, Nothing),
     GetLayerAlphaStub |->
         Stub(Checked(<<"token", "devId", "layerId">>),
              "GetLayerAlpha", TRUE, DisplayDeviceWriteData("alpha")),
     SetLayerColorKeyStub |->
         Stub(Checked(<<"token", "devId", "layerId", "enabled">>) & DisplayDeviceReadData("key"),
              "SetLayerColorKey", TRUE, Nothing),
     GetLayerColorKeyStub |->
         Stub(Checked(<<"token", "devId", "layerId">>),
              "GetLayerColorKey", TRUE, Checked(<<"enabled", "key">>))]

LayerPaletteStubs ==
    [SetLayerPaletteStub |->
         Stub(Checked(<<"token", "devId", "layerId", "len">>) & DisplayDeviceReadData("palette"),
              "SetLayerPalette", TRUE, Nothing),
     GetLayerPaletteStub |->
         Stub(Checked(<<"token", "devId", "layerId", "len">>),
              "GetLayerPalette", TRUE,
              DisplayDeviceWriteInt32("len") & DisplayDeviceWriteData("palette")),
     SetLayerCompressionStub |->
         Stub(Checked(<<"token", "devId", "layerId", "compType">>),
              "SetLayerCompression", TRUE, Nothing),
     GetLayerCompressionStub |->
         Stub(Checked(<<"token", "devId", "layerId">>),
              "GetLayerCompression", TRUE, Checked(<<"compType">>))]

LayerContentsStubs ==
    [FlushStub |->
         Stub(Checked(<<"token", "devId", "layerId">>) & DisplayDeviceReadData("buffer")
                & Failing(<<"bufhandle">>),
              "Flush", TRUE, Nothing),
     SetLayerVisibleRegionStub |->
         Stub(Checked(<<"token", "devId", "layerId">>) & DisplayDeviceReadData("num")
                & DisplayDeviceReadData("rect"),
              "SetLayerDirtyRegion", TRUE, Nothing),
     SetLayerDirtyRegionStub |->
         Stub(Checked(<<"token", "devId", "layerId">>) & DisplayDeviceReadData("num")
                & DisplayDeviceReadData("region"),
              "SetLayerDirtyRegion", TRUE, Nothing),
     GetLayerBufferStub |->
         Stub(Checked(<<"token", "devId", "layerId">>),
              "GetLayerBuffer", TRUE,
              DisplayDeviceWriteData("buffer") & DisplayDeviceWriteBufHdl("bufhandle"))]

LayerBufferStubs ==
    [SetLayerBufferStub |->
         Stub(Checked(<<"token", "devId", "layerId">>) & DisplayDeviceReadBufHdl("bufhandle")
                & DisplayDeviceReadFileDescriptor("fence"),
              "SetLayerBuffer", TRUE, Nothing),
     InvokeLayerCmdStub |->
         Refusing,
     SetLayerCompositionTypeStub |->
         Stub(Checked(<<"token", "devId", "layerId", "type">>),
              "SetLayerCompositionType", TRUE, Nothing),
     InitDisplayStub |->
         Stub(Checked(<<"token", "devId">>), "InitDisplay", TRUE, Nothing),
     DeinitDisplayStub |->
         Stub(Checked(<<"devId">>), "DeinitDisplay", TRUE, Nothing),
     GetDisplayInfoStub |->
         Stub(Checked(<<"token", "devId">>),
              "GetDisplayInfo", TRUE, DisplayDeviceWriteData("dispInfo"))]

LayerPlacementStubs ==
    [CloseLayerStub |->
         Stub(Checked(<<"token", "devId", "layerId">>), "CloseLayer", TRUE, Nothing),
     SetLayerSizeStub |->
         Stub(Checked(<<"token", "devId", "layerId">>) & DisplayDeviceReadData("rect"),
              "SetLayerSize", TRUE, Nothing),
     GetLayerSizeStub |->
         Stub(Checked(<<"token", "devId", "layerId">>),
              "GetLayerSize", TRUE, DisplayDeviceWriteData("rect")),
     SetTransformModeStub |->
         Stub(Checked(<<"token", "devId", "layerId", "type">>), "SetTransformMode", TRUE, Nothing)]

LayerBlendStubs ==
    [WaitForVBlankStub |->
         Stub(Checked(<<"token", "devId", "layerId", "timeOut">>), "WaitForVBlank", TRUE, Nothing),
     SnapShotStub |->
         Stub(Checked(<<"token", "devId">>) & DisplayDeviceReadData("buffer"),
              "SnapShot", TRUE,
              DisplayDeviceWriteData("buffer") & DisplayDeviceWriteBufHdl("bufhandle")),
     SetLayerBlendTypeStub |->
         Stub(Checked(<<"token", "devId", "layerId", "type">>), "SetLayerBlendType", TRUE, Nothing)]

\* The dispatcher finds the function by the type and the number in the command.
g_displayDeviceServerFuncTbl ==
    LET Of(api) == [
            DSP_CMD_REGHOTPLUGCALLBACK |-> api.RegHotPlugCallbackStub,
            DSP_CMD_GETDISPLAYCAPABILITY |-> api.GetDisplayCapabilityStub,
            DSP_CMD_GETDISPLAYSUPPORTEDMODES |-> api.GetDisplaySupportedModesStub,
            DSP_CMD_GETDISPLAYMODE |-> api.GetDisplayModeStub,
            DSP_CMD_SETDISPLAYMODE |-> api.SetDisplayModeStub,
            DSP_CMD_GETDISPLAYPOWERSTATUS |-> api.GetDisplayPowerStatusStub,
            DSP_CMD_SETDISPLAYPOWERSTATUS |-> api.SetDisplayPowerStatusStub,
            DSP_CMD_GETDISPLAYBACKLIGHT |-> api.GetDisplayBackLight,
            DSP_CMD_SETDISPLAYBACKLIGHT |-> api.SetDisplayBackLight,
            DSP_CMD_GETDISPLAYPROPERTY |-> api.GetDisplayPropertyStub,
            DSP_CMD_SETDISPLAYPROPERTY |-> api.SetDisplayPropertyStub,
            DSP_CMD_PREPAREDISPLAYLAYERS |-> api.PrepareDisplayLayersStub,
            DSP_CMD_GETDISPLAYCOMPCHANGE |-> api.GetDisplayCompChangeStub,
            DSP_CMD_SETDISPLAYCLIENTCROP |-> api.SetDisplayClientCropStub,
            DSP_CMD_SETDISPLAYCLIENTDESTRECT |-> api.SetDisplayClientDestRectStub,
            DSP_CMD_SETDISPLAYCLIENTBUFFER |-> api.SetDisplayClientBufferStub,
            DSP_CMD_SETDISPLAYCLIENTDAMAGE |-> api.SetDisplayClientDamageStub,
            DSP_CMD_SETDISPLAYVSYNCENABLED |-> api.SetDisplayVsyncEnabledStub,
            DSP_CMD_REGDISPLAYVBLANKCALLBACK |-> api.RegDisplayVBlankCallbackStub,
            DSP_CMD_GETDISPLAYRELEASEFENCE |-> api.GetDisplayReleaseFenceStub,
            DSP_CMD_COMMIT |-> api.CommitStub,
            DSP_CMD_INVOKEDISPLAYCMD |-> api.InvokeDisplayCmdStub,
            DSP_CMD_CREATEVIRTUALDISPLAY |-> api.CreateVirtualDisplayStub,
            DSP_CMD_DESTROYVIRTUALDISPLAY |-> api.DestroyVirtualDisplayStub,
            DSP_CMD_SETVIRTUALDISPLAYBUFFER |-> SetVirtualDisplayBufferStub,
            DSP_CMD_REGDISPLAYREFRESHCALLBACK |-> api.RegDisplayRefreshCallbackStub,
            DSP_CMD_GETWRITEBACKFRAME |-> api.GetWriteBackFrameStub,
            DSP_CMD_CREATEWRITEBACK |-> api.CreateWriteBackStub,
            DSP_CMD_DESTROYWRITEBACK |-> api.DestroyWriteBackStub,
            DSP_CMD_SET_PROXY_REMOTE_CALLBACK |-> api.SetProxyRemoteCallbackStub,
            DSP_CMD_CREATELAYER |-> api.CreateLayerStub,
            DSP_CMD_SETLAYERVISIBLE |-> api.SetLayerVisibleStub,
            DSP_CMD_GETLAYERVISIBLESTATE |-> api.GetLayerVisibleStateStub,
            DSP_CMD_SETLAYERCROP |-> api.SetLayerCropStub,
            DSP_CMD_SETLAYERZORDER |-> api.SetLayerZorderStub,
            DSP_CMD_GETLAYERZORDER |-> api.GetLayerZorderStub,
            DSP_CMD_SETLAYERPREMULTI |-> api.SetLayerPreMultiStub,
            DSP_CMD_GETLAYERPREMULTI |-> api.GetLayerPreMultiStub,
            DSP_CMD_SETLAYERALPHA |-> api.SetLayerAlphaStub,
            DSP_CMD_GETLAYERALPHA |-> api.GetLayerAlphaStub,
            DSP_CMD_SETLAYERCOLORKEY |-> api.SetLayerColorKeyStub,
            DSP_CMD_GETLAYERCOLORKEY |-> api.GetLayerColorKeyStub,
            DSP_CMD_SETLAYERPALETTE |-> api.SetLayerPaletteStub,
            DSP_CMD_GETLAYERPALETTE |-> api.GetLayerPaletteStub,
            DSP_CMD_SETLAYERCOMPRESSION |-> api.SetLayerCompressionStub,
            DSP_CMD_GETLAYERCOMPRESSION |-> api.GetLayerCompressionStub,
            DSP_CMD_FLUSH |-> api.FlushStub,
            DSP_CMD_SETLAYERVISIBLEREGION |-> api.SetLayerVisibleRegionStub,
            DSP_CMD_SETLAYERDIRTYREGION |-> api.SetLayerDirtyRegionStub,
            DSP_CMD_GETLAYERBUFFER |-> api.GetLayerBufferStub,
            DSP_CMD_SETLAYERBUFFER |-> api.SetLayerBufferStub,
            DSP_CMD_INVOKELAYERCMD |-> api.InvokeLayerCmdStub,
            DSP_CMD_SETLAYERCOMPOSITIONTYPE |-> api.SetLayerCompositionTypeStub,
            DSP_CMD_INITDISPLAY |-> api.InitDisplayStub,
            DSP_CMD_DEINITDISPLAY |-> api.DeinitDisplayStub,
            DSP_CMD_GETDISPLAYINFO |-> api.GetDisplayInfoStub,
            DSP_CMD_CLOSELAYER |-> api.CloseLayerStub,
            DSP_CMD_SETLAYERSIZE |-> api.SetLayerSizeStub,
            DSP_CMD_GETLAYERSIZE |-> api.GetLayerSizeStub,
            DSP_CMD_SETTRANSFORMMODE |-> api.SetTransformModeStub,
            DSP_CMD_WAITFORVBLANK |-> api.WaitForVBlankStub,
            DSP_CMD_SNAPSHOT |-> api.SnapShotStub,
            DSP_CMD_SETLAYERBLENDTYPE |-> api.SetLayerBlendTypeStub]
    IN  Of(ModeStubs @@ PowerStubs @@ PropertyStubs @@ ClientSurfaceStubs @@
           CompositionStubs @@ WriteBackStubs @@ LayerVisibilityStubs @@ LayerZorderStubs @@
           LayerAlphaStubs @@ LayerPaletteStubs @@ LayerContentsStubs @@ LayerBufferStubs @@
           LayerPlacementStubs @@ LayerBlendStubs)
==============================================================================
