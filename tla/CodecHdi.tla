------------------------------ MODULE CodecHdi -------------------------------
(***************************************************************************)
(* The codec service (codec/hdi_service) and the codec component service   *)
(* (codec/hal/src), with their callbacks.                                  *)
(***************************************************************************)
EXTENDS HdiFields, TLC

------------------------------------------------------------------------------
(***************************************************************************)
(* The client side of the codec service and the service side of its        *)
(* callback (codec/hdi_service/codec_proxy: codec_proxy.c, proxy_msgproc.c *)
(* and codec_callback_proxy.c).  Every function recycles its buffers on    *)
(* every way out.                                                          *)
(***************************************************************************)
Sending(part) == Checked(<<"token">>) & part

ProxyCapability ==
    LET CodecProxyParseAlignment == Checked(<<"widthAlignment", "heightAlignment">>)
        CodecProxyParseRect == Checked(<<"width", "height">>)
        CodecProxyParseArray == Checked(<<"no actualLen">>) \cup Checked(<<"actualLen", "element">>)
    IN  [CodecProxyParseGottenCapbility |->
             Checked(<<"mime", "type">>) & CodecProxyParseAlignment & CodecProxyParseRect
             & CodecProxyParseRect & Checked(<<"64-bit minBitRate", "64-bit maxBitRate">>)
             & CodecProxyParseArray & CodecProxyParseArray & CodecProxyParseArray
             & Checked(<<"minInputBufferNum", "minOutputBufferNum", "allocateMask", "capsMask">>),
         CodecProxyPackParam |-> Checked(<<"key", "val", "size">>),
         \* The values are looked for in the message that was sent, in which there is enough to read.
         CodecProxyParseParam |-> Unchecked(<<"key in data", "val in data", "size in data">>)]

ProxyBuffers ==
    LET CodecProxyPackBufferHandle == Checked(<<"virAddr", "handle">>)
        \* A buffer of another type than these three is an error.
        CodecProxyPackBufferInfo ==
            (Checked(<<"BUFFER_TYPE_VIRTUAL", "addr">>)
             \cup Checked(<<"BUFFER_TYPE_FD", "FileDescriptor fd">>)
             \cup (Checked(<<"BUFFER_TYPE_HANDLE">>) & CodecProxyPackBufferHandle))
            & Checked(<<"offset", "length", "size">>)
        CodecProxyParseBufferHandle == Checked(<<"virAddr", "handle">>)
    IN  [CodecProxyPackBufferInfo |-> CodecProxyPackBufferInfo,
         CodecProxyPackInputInfo |->
             (Checked(<<"no bufferCnt">>) \cup (Checked(<<"bufferCnt">>) & CodecProxyPackBufferInfo))
             & Checked(<<"64-bit pts", "flag">>),
         CodecProxyParseBufferInfo |->
             (Checked(<<"BUFFER_TYPE_VIRTUAL", "addr">>)
              \cup Checked(<<"BUFFER_TYPE_FD", "FileDescriptor fd">>)
              \cup (Checked(<<"BUFFER_TYPE_HANDLE">>) & CodecProxyParseBufferHandle))
             & Checked(<<"offset", "length", "size">>)]

ProxyInfos(api) ==
    \* The number of buffers is the one the client has asked for.
    api @@
    [CodecProxyParseInputInfo |-> api.CodecProxyParseBufferInfo
     & Checked(<<"64-bit pts", "flag">>),
     CodecProxyParseOutputInfo |->
         api.CodecProxyParseBufferInfo
         & Checked(<<"64-bit timeStamp", "sequence", "flag", "type", "64-bit vendorPrivate">>),
     CodecProxyPackOutputInfo |->
         (Checked(<<"no bufferCnt">>)
          \cup (Checked(<<"bufferCnt">>) & api.CodecProxyPackBufferInfo))
         & Checked(<<"64-bit timeStamp", "sequence", "flag", "type", "64-bit vendorPrivate">>)]

-----------------------------------------------------------------------------
ProxySession(api) ==
    api @@
    [CodecPorxyInit |-> Proxy("CMD_CODEC_INIT", Sending(Nothing), Nothing),
     CodecProxyDeinit |-> Proxy("CMD_CODEC_DEINIT", Sending(Nothing), Nothing),
     CodecProxyEnumerateCapbility |->
         Proxy("CMD_CODEC_ENUM_CAP", Sending(Checked(<<"index">>)),
               api.CodecProxyParseGottenCapbility),
     CodecProxyGetCapbility |->
         Proxy("CMD_CODEC_GET_CAP", Sending(Checked(<<"mime", "type", "flags">>)),
             api.CodecProxyParseGottenCapbility)]

ProxyInstances ==
    [CodecProxyCreate |->
         Proxy("CMD_CODEC_CREATE",
             Sending(Checked(<<"String name", "key", "size", "Buffer val", "len", "handle">>)),
             Checked(<<"handle">>)),
     CodecProxyDestroy |-> Proxy("CMD_CODEC_DESTROY", Sending(Checked(<<"handle">>)), Nothing),
     CodecProxySetPortMode |->
         Proxy("CMD_CODEC_SET_MODE", Sending(Checked(<<"handle", "type", "mode">>)), Nothing)]

ProxyParameters(api) ==
    \* No parameters at all are allowed.
    api @@
    [CodecProxySetParameter |->
         Proxy("CMD_CODEC_SET_PARAMS",
             Sending(Checked(<<"handle">>)
                     & (Checked(<<"no paramCnt">>)
                        \cup (Checked(<<"paramCnt">>) & api.CodecProxyPackParam))),
                        Nothing),
     CodecProxyGetParameter |->
         Proxy("CMD_CODEC_GET_PARAMS",
             Sending(Checked(<<"handle", "paramCnt">>) & api.CodecProxyPackParam),
             api.CodecProxyParseParam)
         \cup Proxy("CMD_CODEC_GET_PARAMS", Sending(Checked(<<"handle", "no paramCnt">>)), Nothing),
     CodecProxyStart |-> Proxy("CMD_CODEC_START", Sending(Checked(<<"handle">>)), Nothing)]

ProxyQueueInput(api) ==
    api @@
    [CodecProxyStop |-> Proxy("CMD_CODEC_STOP", Sending(Checked(<<"handle">>)), Nothing),
     CodecProxyFlush |-> Proxy("CMD_CODEC_FLUSH", Sending(Checked(<<"handle", "directType">>)),
                               Nothing),
     CodecPorxyQueueInput |->
         Proxy("CMD_CODEC_QUEQUE_INPUT",
             Sending(Checked(<<"handle">>) & api.CodecProxyPackInputInfo
                     & Checked(<<"timeoutMs">>)),
             Nothing)]

ProxyQueueOutput(api) ==
    \* At least one buffer is asked for.
    api @@
    [CodecProxyDequeInput |->
         Proxy("CMD_CODEC_DEQUEQUE_INPUT", Sending(Checked(<<"handle", "timeoutMs", "bufferCnt">>)),
             api.CodecProxyParseInputInfo),
     CodecProxyQueueOutput |->
         Proxy("CMD_CODEC_QUEQUE_OUTPUT",
             Sending(Checked(<<"handle">>) & api.CodecProxyPackOutputInfo
                     & Checked(<<"timeoutMs", "FileDescriptor releaseFenceFd">>)), Nothing),
     CodecProxyDequeueOutput |->
         Proxy("CMD_CODEC_DEQUEQUE_OUTPUT", Sending(Checked(<<"handle", "timeoutMs", "bufferCnt">>)),
             Checked(<<"FileDescriptor acquireFd">>) & api.CodecProxyParseOutputInfo)]

CodecProxySetCallback ==
    Proxy("CMD_CODEC_SET_CBK",
        Sending(Checked(<<"handle", "RemoteService callback", "instance">>)), Nothing)

CodecIpmlConstruct ==
    LET Of(api) ==
            [CodecInit |-> api.CodecPorxyInit, CodecDeinit |-> api.CodecProxyDeinit,
             CodecEnumerateCapbility |-> api.CodecProxyEnumerateCapbility,
             CodecGetCapbility |-> api.CodecProxyGetCapbility,
             CodecCreate |-> api.CodecProxyCreate,
             CodecDestroy |-> api.CodecProxyDestroy,
             CodecSetPortMode |-> api.CodecProxySetPortMode,
             CodecSetParameter |-> api.CodecProxySetParameter,
             CodecGetParameter |-> api.CodecProxyGetParameter,
             CodecStart |-> api.CodecProxyStart, CodecStop |-> api.CodecProxyStop,
             CodecFlush |-> api.CodecProxyFlush,
             CodecQueueInput |-> api.CodecPorxyQueueInput,
             CodecDequeInput |-> api.CodecProxyDequeInput,
             CodecQueueOutput |-> api.CodecProxyQueueOutput,
             CodecDequeueOutput |-> api.CodecProxyDequeueOutput,
             CodecSetCallback |-> CodecProxySetCallback]
    IN  Of(ProxyQueueOutput(ProxyQueueInput(ProxyParameters(ProxySession(ProxyInfos(
           ProxyCapability @@ ProxyBuffers @@ ProxyInstances))))))

-----------------------------------------------------------------------------
(* The callback, without an interface token. *)
CallbackProxies(api) ==
    api @@
    [CodecCallbackProxyOnEvent |->
         Proxy("CMD_CODEC_ON_EVENT",
             Checked(<<"comp", "appData", "event", "data1", "data2", "eventData">>), Nothing),
     CodecCallbackProxyInputBufferAvailable |->
         Proxy("CMD_CODEC_INPUT_BUFFER_AVAILABLE",
             Checked(<<"comp", "appData">>) & api.CodecProxyPackInputInfo, Nothing),
     CodecCallbackProxyOutputBufferAvailable |->
         Proxy("CMD_CODEC_OUTPUT_BUFFER_AVAILABLE",
             Checked(<<"comp", "appData">>) & api.CodecProxyPackOutputInfo, Nothing)]

CodecCallbackProxyConstruct ==
    LET Of(api) ==
            [OnEvent |-> api.CodecCallbackProxyOnEvent,
             InputBufferAvailable |-> api.CodecCallbackProxyInputBufferAvailable,
             OutputBufferAvailable |-> api.CodecCallbackProxyOutputBufferAvailable]
    IN  Of(CallbackProxies(ProxyInfos(ProxyBuffers)))

------------------------------------------------------------------------------
(***************************************************************************)
(* The service side of the codec service and the client side of its        *)
(* callback (codec/hdi_service/codec_service_stub: codec_stub.c,           *)
(* stub_msgproc.c and codec_callback_stub.c).  The dispatcher checks the   *)
(* interface token.  Memory for zero elements cannot be obtained.          *)
(***************************************************************************)
StubCapability ==
    LET CodecSerPackAlignment == Checked(<<"widthAlignment", "heightAlignment">>)
        CodecSerPackRect == Checked(<<"width", "height">>)
        CodecSerPackArray == Checked(<<"no actualLen">>) \cup Checked(<<"actualLen", "element">>)
    IN  [CodecSerPackCapbility |->
             Checked(<<"mime", "type">>) & CodecSerPackAlignment & CodecSerPackRect & CodecSerPackRect
             & Checked(<<"64-bit minBitRate", "64-bit maxBitRate">>)
             & CodecSerPackArray & CodecSerPackArray & CodecSerPackArray
             & Checked(<<"minInputBufferNum", "minOutputBufferNum", "allocateMask", "capsMask">>),
         CodecSerParseParam |-> Checked(<<"key", "val", "size">>),
         CodecSerPackParam |-> Checked(<<"key", "val", "size">>)]

StubBuffers ==
    LET CodecSerPackBufferHandle == Checked(<<"virAddr", "handle">>)
        CodecSerPackBufferInfo ==
            (Checked(<<"BUFFER_TYPE_VIRTUAL", "addr">>)
             \cup Checked(<<"BUFFER_TYPE_FD", "FileDescriptor fd">>)
             \cup (Checked(<<"BUFFER_TYPE_HANDLE">>) & CodecSerPackBufferHandle))
            & Checked(<<"offset", "length", "size">>)
        CodecSerParseBufferHandle == Checked(<<"virAddr", "handle">>)
    IN  [CodecSerPackBufferInfo |-> CodecSerPackBufferInfo,
         CodecSerPackInputInfo |-> CodecSerPackBufferInfo & Checked(<<"64-bit pts", "flag">>),
         CodecSerParseBufferInfo |->
             (Checked(<<"BUFFER_TYPE_VIRTUAL", "addr">>)
              \cup Checked(<<"BUFFER_TYPE_FD", "FileDescriptor fd">>)
              \cup (Checked(<<"BUFFER_TYPE_HANDLE">>) & CodecSerParseBufferHandle))
             & Checked(<<"offset", "length", "size">>)]

StubInfos(api) ==
    api @@
    [CodecSerParseInputInfo |-> api.CodecSerParseBufferInfo & Checked(<<"64-bit pts", "flag">>),
     CodecSerParseOutputInfo |->
         api.CodecSerParseBufferInfo
         & Checked(<<"64-bit timeStamp", "sequence", "flag", "type", "64-bit vendorPrivate">>),
     CodecSerPackOutputInfo |->
         api.CodecSerPackBufferInfo
         & Checked(<<"64-bit timeStamp", "sequence", "flag", "type", "64-bit vendorPrivate">>)]

-----------------------------------------------------------------------------
StubSession(api) ==
    api @@
    [SerCodecInit |-> Stub(Nothing, "CodecInit", TRUE, Checked(<<"errNum">>)),
     SerCodecDeinit |-> Stub(Nothing, "CodecDeinit", TRUE, Checked(<<"errNum">>)),
     \* The service is not called, and the capability in the reply was never set.
     SerCodecEnumerateCapbility |-> Stub(Checked(<<"index">>), "none", TRUE,
                                         api.CodecSerPackCapbility),
     SerCodecGetCapbility |->
         Stub(Checked(<<"mime", "type", "flags">>), "CodecGetCapbility", TRUE,
              api.CodecSerPackCapbility),
     SerCodecCreate |->
         Stub(Checked(<<"String name", "key", "size", "Buffer val", "len", "handle">>), "CodecCreate",
              TRUE, Checked(<<"handle">>)),
     SerCodecDestroy |-> Stub(Checked(<<"handle">>), "CodecDestroy", TRUE, Nothing)]

StubParameters(api) ==
    api @@
    [SerCodecSetPortMode |->
         Stub(Checked(<<"handle", "type", "mode">>), "CodecSetPortMode", TRUE, Nothing),
     SerCodecSetParameter |->
         Stub((Checked(<<"handle", "no paramCnt">>) & Failing(<<"paramCnt">>))
              \cup (Checked(<<"handle", "paramCnt">>) & api.CodecSerParseParam),
              "CodecSetParameter", TRUE, Nothing),
     SerCodecGetParameter |->
         Stub((Checked(<<"handle", "no paramCnt">>) & Failing(<<"paramCnt">>))
              \cup (Checked(<<"handle", "paramCnt">>) & api.CodecSerParseParam),
              "CodecGetParameter", TRUE, api.CodecSerPackParam),
     SerCodecStart |-> Stub(Checked(<<"handle">>), "CodecStart", TRUE, Nothing),
     SerCodecStop |-> Stub(Checked(<<"handle">>), "CodecStop", TRUE, Nothing)]

StubQueueInput(api) ==
    api @@
    [SerCodecFlush |-> Stub(Checked(<<"handle", "directType">>), "CodecFlush", TRUE, Nothing),
     SerCodecQueueInput |->
         Stub((Checked(<<"handle", "no bufferCnt">>) & Failing(<<"bufferCnt">>))
              \cup (Checked(<<"handle", "bufferCnt">>) & api.CodecSerParseInputInfo
                    & Checked(<<"timeoutMs">>)),
              "CodecQueueInput", TRUE, Nothing),
     SerCodecDequeInput |->
         Stub(Checked(<<"handle", "timeoutMs", "bufferCnt">>), "CodecDequeInput", TRUE,
              api.CodecSerPackInputInfo)]

StubQueueOutput(api) ==
    api @@
    [SerCodecQueueOutput |->
         Stub((Checked(<<"handle", "no bufferCnt">>) & Failing(<<"bufferCnt">>))
              \cup (Checked(<<"handle", "bufferCnt">>) & api.CodecSerParseOutputInfo
                    & Checked(<<"timeoutMs", "FileDescriptor releaseFenceFd">>)),
              "CodecQueueOutput", TRUE, Nothing),
     SerCodecDequeueOutput |->
         Stub(Checked(<<"handle", "timeoutMs", "bufferCnt">>), "CodecDequeueOutput", TRUE,
              Checked(<<"FileDescriptor acquireFd">>) & api.CodecSerPackOutputInfo),
     SerCodecSetCallback |->
         Stub(Checked(<<"handle", "RemoteService callback", "instance">>), "CodecSetCallback", TRUE,
              Nothing)]

CodecServiceOnRemoteRequest ==
    LET Of(api) ==
            LET functions ==
                    [CMD_CODEC_INIT |-> api.SerCodecInit,
                     CMD_CODEC_DEINIT |-> api.SerCodecDeinit,
                     CMD_CODEC_ENUM_CAP |-> api.SerCodecEnumerateCapbility,
                     CMD_CODEC_GET_CAP |-> api.SerCodecGetCapbility,
                     CMD_CODEC_CREATE |-> api.SerCodecCreate,
                     CMD_CODEC_DESTROY |-> api.SerCodecDestroy,
                     CMD_CODEC_SET_MODE |-> api.SerCodecSetPortMode,
                     CMD_CODEC_SET_PARAMS |-> api.SerCodecSetParameter,
                     CMD_CODEC_GET_PARAMS |-> api.SerCodecGetParameter,
                     CMD_CODEC_START |-> api.SerCodecStart,
                     CMD_CODEC_STOP |-> api.SerCodecStop,
                     CMD_CODEC_FLUSH |-> api.SerCodecFlush,
                     CMD_CODEC_QUEQUE_INPUT |-> api.SerCodecQueueInput,
                     CMD_CODEC_DEQUEQUE_INPUT |-> api.SerCodecDequeInput,
                     CMD_CODEC_QUEQUE_OUTPUT |-> api.SerCodecQueueOutput,
                     CMD_CODEC_DEQUEQUE_OUTPUT |-> api.SerCodecDequeueOutput,
                     CMD_CODEC_SET_CBK |-> api.SerCodecSetCallback]
            IN  [cmd \in DOMAIN functions |-> Behind(Checked(<<"token">>), functions[cmd])]
    IN  Of(StubQueueOutput(StubQueueInput(StubParameters(StubSession(StubInfos(
           StubCapability @@ StubBuffers))))))

-----------------------------------------------------------------------------
(* The callback. *)
CallbackStubs(api) ==
    api @@
    [SerCodecOnEvent |->
         Stub(Checked(<<"comp", "appData", "event", "data1", "data2", "eventData">>), "OnEvent", TRUE,
              Nothing),
     SerCodecInputBufferAvailable |->
         Stub(Checked(<<"comp", "appData">>)
              & ((Checked(<<"no bufferCnt">>) & Failing(<<"memory">>))
                 \cup (Checked(<<"bufferCnt">>) & api.CodecSerParseInputInfo)),
              "InputBufferAvailable", TRUE, Nothing),
     SerCodecOutputBufferAvailable |->
         Stub(Checked(<<"comp", "appData">>)
              & ((Checked(<<"no bufferCnt">>) & Failing(<<"memory">>))
                 \cup (Checked(<<"bufferCnt">>) & api.CodecSerParseOutputInfo)),
              "OutputBufferAvailable", TRUE, Nothing)]

CodecCallbackServiceOnRemoteRequest ==
    LET Of(api) ==
            [CMD_CODEC_ON_EVENT |-> api.SerCodecOnEvent,
             CMD_CODEC_INPUT_BUFFER_AVAILABLE |-> api.SerCodecInputBufferAvailable,
             CMD_CODEC_OUTPUT_BUFFER_AVAILABLE |-> api.SerCodecOutputBufferAvailable]
    IN  Of(CallbackStubs(StubInfos(StubBuffers)))

------------------------------------------------------------------------------
(***************************************************************************)
(* The blocks both sides of the codec component service use                *)
(* (codec/hal/src/codec_types.c).  Writing a block and reading it are      *)
(* functions of their own, each of which stops at the first failure.       *)
(***************************************************************************)
\* An array is its length followed by the elements.
Array(none, len, element) == Checked(<<none>>) \cup Checked(<<len, element>>)

TunnelBlocks ==
    [OMX_TUNNELSETUPTYPEBlockMarshalling |-> Checked(<<"nTunnelFlags", "eSupplier">>),
     OMX_TUNNELSETUPTYPEBlockUnmarshalling |-> Checked(<<"nTunnelFlags", "eSupplier">>)]

BufferBlocks ==
    \* What follows the length depends on the type of the buffer.
    LET CodecBufferMarshalling ==
            Checked(<<"bufferType", "no bufferLen">>)
            \cup Checked(<<"BUFFER_TYPE_AVSHARE_MEM_FD", "bufferLen", "FileDescriptor fd">>)
            \cup Checked(<<"bufferType", "bufferLen", "buffer">>)
    IN  [OmxCodecBufferBlockMarshalling |->
             Checked(<<"bufferId", "size", "UnpadBuffer version">>)
             & CodecBufferMarshalling
             & Checked(<<"allocLen", "filledLen", "offset", "fenceFd", "type", "64-bit pts", "flag">>),
         CodecBufferUnmarshalling |->
             Checked(<<"bufferType", "no bufferLen">>)
             \cup Checked(<<"BUFFER_TYPE_AVSHARE_MEM_FD", "bufferLen", "FileDescriptor fd">>)
             \cup Checked(<<"bufferType", "bufferLen", "buffer">>)]

RangeBlocks(api) ==
    api @@
    [OmxCodecBufferBlockUnmarshalling |->
         Checked(<<"bufferId", "size", "UnpadBuffer version">>)
         & api.CodecBufferUnmarshalling
         & Checked(<<"allocLen", "filledLen", "offset", "fenceFd", "type", "64-bit pts", "flag">>),
     RangeValueBlockMarshalling |-> Checked(<<"min", "max">>),
     RangeValueBlockUnmarshalling |-> Checked(<<"min", "max">>)]

CapabilityBlocks(api) ==
    api @@
    [CodecCompCapabilityBlockMarshalling |->
         Checked(<<"role", "type", "compName", "supportProfiles", "maxInst", "isSoftwareCodec",
                   "processModeMask", "capsMask">>)
         & api.RangeValueBlockMarshalling
         & Checked(<<"UnpadBuffer port">>),
     CodecCompCapabilityBlockUnmarshalling |->
         Checked(<<"role", "type", "compName", "supportProfiles", "maxInst", "isSoftwareCodec",
                   "processModeMask", "capsMask">>)
         & api.RangeValueBlockUnmarshalling
         & Checked(<<"UnpadBuffer port">>)]

------------------------------------------------------------------------------
(***************************************************************************)
(* The client side of the codec component service and the service side of  *)
(* its callback (codec/hal/src/codec_component_type_proxy.c,               *)
(* codec_component_manager_proxy.c and codec_callback_type_proxy.c).       *)
(***************************************************************************)
\* The interface token comes first.
SendingTo(part) == Checked(<<"token">>) & part

\* Variants of a function that reads back the bytes of the structure it has sent.
Struct(cmd, index) ==
    Proxy(cmd, SendingTo(Checked(<<index, "structLen", "struct">>)), Checked(<<"struct">>))
    \cup Proxy(cmd, SendingTo(Checked(<<index, "no structLen">>)), Nothing)

ComponentCommands ==
    [CodecComponentTypeProxyGetComponentVersion |->
         Proxy("CMD_GET_COMPONENT_VERSION", SendingTo(Nothing), Checked(<<"UnpadBuffer verInfo">>)),
     CodecComponentTypeProxySendCommand |->
         Proxy("CMD_SEND_COMMAND",
             SendingTo(Checked(<<"cmd", "param">>) & Array("no cmdDataLen", "cmdDataLen", "cmdData")),
             Nothing),
     CodecComponentTypeProxyGetParameter |-> Struct("CMD_GET_PARAMETER", "paramIndex")]

ComponentParameters ==
    [CodecComponentTypeProxySetParameter |->
         Proxy("CMD_SET_PARAMETER",
             SendingTo(Checked(<<"index">>) & Array("no structLen", "structLen", "struct")), Nothing),
     CodecComponentTypeProxyGetConfig |-> Struct("CMD_GET_CONFIG", "index")]

ComponentConfig ==
    [CodecComponentTypeProxySetConfig |->
         Proxy("CMD_SET_CONFIG",
             SendingTo(Checked(<<"index">>) & Array("no structLen", "structLen", "struct")), Nothing),
     CodecComponentTypeProxyGetExtensionIndex |->
         Proxy("CMD_GET_EXTENSION_INDEX", SendingTo(Checked(<<"String paramName">>)),
             Checked(<<"indexType">>)),
     CodecComponentTypeProxyGetState |->
         Proxy("CMD_GET_STATE", SendingTo(Nothing), Checked(<<"state">>))]

ComponentTunnel(api) ==
    api @@
    [CodecComponentTypeProxyComponentTunnelRequest |->
         Proxy("CMD_COMPONENT_TUNNEL_REQUEST",
             SendingTo(Checked(<<"port", "tunneledComp", "tunneledPort">>)
                     & api.OMX_TUNNELSETUPTYPEBlockMarshalling),
             api.OMX_TUNNELSETUPTYPEBlockUnmarshalling),
     CodecComponentTypeProxyUseBuffer |->
         Proxy("CMD_USE_BUFFER",
               SendingTo(Checked(<<"portIndex">>) & api.OmxCodecBufferBlockMarshalling),
             api.OmxCodecBufferBlockUnmarshalling)]

ComponentBuffers(api) ==
    api @@
    [CodecComponentTypeProxyAllocateBuffer |->
         Proxy("CMD_ALLOCATE_BUFFER",
             SendingTo(Checked(<<"portIndex">>) & api.OmxCodecBufferBlockMarshalling),
             api.OmxCodecBufferBlockUnmarshalling),
     CodecComponentTypeProxyFreeBuffer |->
         Proxy("CMD_FREE_BUFFER",
               SendingTo(Checked(<<"portIndex">>) & api.OmxCodecBufferBlockMarshalling),
             Nothing),
     CodecComponentTypeProxyEmptyThisBuffer |->
         Proxy("CMD_EMPTY_THIS_BUFFER", SendingTo(api.OmxCodecBufferBlockMarshalling),
               Nothing)]

ComponentCallbacks(api) ==
    api @@
    [CodecComponentTypeProxyFillThisBuffer |->
         Proxy("CMD_FILL_THIS_BUFFER", SendingTo(api.OmxCodecBufferBlockMarshalling), Nothing),
     CodecComponentTypeProxySetCallbacks |->
         Proxy("CMD_SET_CALLBACKS",
             SendingTo(Checked(<<"RemoteService callback">>)
                     & Array("no appDataLen", "appDataLen", "appData")), Nothing),
     CodecComponentTypeProxyComponentDeInit |-> Proxy("CMD_COMPONENT_DE_INIT", SendingTo(Nothing),
                                                      Nothing)]

ComponentRoles(api) ==
    api @@
    [CodecComponentTypeProxyUseEglImage |->
         Proxy("CMD_USE_EGL_IMAGE",
             SendingTo(api.OmxCodecBufferBlockMarshalling & Checked(<<"portIndex">>)
                     & Array("no eglImageLen", "eglImageLen", "eglImage")),
             api.OmxCodecBufferBlockUnmarshalling),
     CodecComponentTypeProxyComponentRoleEnum |->
         Proxy("CMD_COMPONENT_ROLE_ENUM", SendingTo(Checked(<<"roleLen", "index">>)),
               Checked(<<"role">>))
         \cup Proxy("CMD_COMPONENT_ROLE_ENUM", SendingTo(Checked(<<"no roleLen", "index">>)), Nothing)]

-----------------------------------------------------------------------------
(* The manager. Its functions keep their buffers when the token cannot be written. *)
ManagerProxy(api) ==
    api @@
    [GetComponentNum |->
         Keeping(Proxy("CMD_CODEC_GET_COMPONENT_NUM", SendingTo(Nothing), Checked(<<"total">>)),
                 {"token"}),
     GetComponentCapabilityList |->
         Keeping(Proxy("CMD_CODEC_GET_COMPONENT_CAPABILITY_LIST", SendingTo(Nothing),
                     api.CodecCompCapabilityBlockUnmarshalling),
                 {"token"}),
     CreateComponent |->
         Keeping(Proxy("CMD_CREATE_COMPONENT",
                     SendingTo(Checked(<<"String compName">>)
                             & Array("no appDataSize", "appDataSize", "appData")
                             & Checked(<<"RemoteService callback">>)), Nothing),
                 {"token"})]

DestoryComponent ==
    Keeping(Proxy("CMD_DESTROY_COMPONENT", SendingTo(Nothing), Nothing), {"token"})

Calls ==
    LET Of(api) ==
            [GetComponentVersion |-> api.CodecComponentTypeProxyGetComponentVersion,
             SendCommand |-> api.CodecComponentTypeProxySendCommand,
             GetParameter |-> api.CodecComponentTypeProxyGetParameter,
             SetParameter |-> api.CodecComponentTypeProxySetParameter,
             GetConfig |-> api.CodecComponentTypeProxyGetConfig,
             SetConfig |-> api.CodecComponentTypeProxySetConfig,
             GetExtensionIndex |-> api.CodecComponentTypeProxyGetExtensionIndex,
             GetState |-> api.CodecComponentTypeProxyGetState,
             ComponentTunnelRequest |-> api.CodecComponentTypeProxyComponentTunnelRequest,
             UseBuffer |-> api.CodecComponentTypeProxyUseBuffer,
             AllocateBuffer |-> api.CodecComponentTypeProxyAllocateBuffer,
             FreeBuffer |-> api.CodecComponentTypeProxyFreeBuffer,
             EmptyThisBuffer |-> api.CodecComponentTypeProxyEmptyThisBuffer,
             FillThisBuffer |-> api.CodecComponentTypeProxyFillThisBuffer,
             SetCallbacks |-> api.CodecComponentTypeProxySetCallbacks,
             ComponentDeInit |-> api.CodecComponentTypeProxyComponentDeInit,
             UseEglImage |-> api.CodecComponentTypeProxyUseEglImage,
             ComponentRoleEnum |-> api.CodecComponentTypeProxyComponentRoleEnum,
             GetComponentNum |-> api.GetComponentNum,
             GetComponentCapabilityList |-> api.GetComponentCapabilityList,
             CreateComponent |-> api.CreateComponent, DestoryComponent |-> DestoryComponent]
    IN  Of(ManagerProxy(ComponentRoles(ComponentCallbacks(ComponentBuffers(ComponentTunnel(
           CapabilityBlocks(RangeBlocks(TunnelBlocks @@ BufferBlocks @@ ComponentCommands @@
           ComponentParameters @@ ComponentConfig))))))))

-----------------------------------------------------------------------------
(* The callback. *)
EventProxies(api) ==
    LET WriteEventInfo ==
            Array("no appDataLen", "appDataLen", "appData") & Checked(<<"data1", "data2">>)
            & Array("no eventDataLen", "eventDataLen", "eventData")
    IN  api @@
        [CodecCallbackTypeProxyEventHandler |->
             Proxy("CMD_EVENT_HANDLER", SendingTo(Checked(<<"event">>) & WriteEventInfo), Nothing),
         CodecCallbackTypeProxyEmptyBufferDone |->
             Proxy("CMD_EMPTY_BUFFER_DONE",
                 SendingTo(Array("no appDataLen", "appDataLen", "appData")
                           & api.OmxCodecBufferBlockMarshalling),
                 Nothing)]

CodecCallbackTypeProxyFillBufferDone(api) ==
    Proxy("CMD_FILL_BUFFER_DONE",
        SendingTo(Array("no appDataLen", "appDataLen", "appData")
                  & api.OmxCodecBufferBlockMarshalling),
        Nothing)

CodecCallbackTypeProxyConstruct ==
    LET Of(api) ==
            [EventHandler |-> api.CodecCallbackTypeProxyEventHandler,
             EmptyBufferDone |-> api.CodecCallbackTypeProxyEmptyBufferDone,
             FillBufferDone |-> CodecCallbackTypeProxyFillBufferDone(api)]
    IN  Of(EventProxies(BufferBlocks))

AllCapabilityMarshalling(api) == api.CodecCompCapabilityBlockMarshalling

------------------------------------------------------------------------------
(***************************************************************************)
(* The service side of the codec component service and the client side of  *)
(* its callback (codec/hal/src/codec_component_type_stub.c,                *)
(* codec_component_capability_config.c and codec_callback_type_stub.c).    *)
(* The dispatchers check the interface token before they call a function.  *)
(* Memory for zero bytes cannot be obtained.                               *)
(***************************************************************************)
CapabilityStubs(api) ==
    api @@
    [HandleGetNumCmd |-> Stub(Nothing, "GetComponentNum", TRUE, Checked(<<"total">>)),
     HandleGetAllCapablityListCmd |->
         Stub(Nothing, "GetComponentCapabilityList", TRUE, AllCapabilityMarshalling(api))]

ComponentCreateStubs ==
    LET ReadParamsForCreateComponent ==
            Checked(<<"String compName">>) & Array("no appDataSize", "appDataSize", "appData")
            & Checked(<<"RemoteService callback">>)
    IN  [SerStubCreateComponent |-> Stub(ReadParamsForCreateComponent, "CreateComponent", TRUE,
                                         Nothing),
         SerStubDestroyComponent |-> Stub(Nothing, "DestoryComponent", TRUE, Nothing),
         SerStubGetComponentVersion |->
             Stub(Nothing, "GetComponentVersion", TRUE, Checked(<<"UnpadBuffer verInfo">>))]

ComponentParameterStubs ==
    [SerStubSendCommand |->
         Stub(Checked(<<"cmd", "param">>) & Array("no cmdDataLen", "cmdDataLen", "cmdData"),
              "SendCommand", TRUE, Nothing),
     SerStubGetParameter |->
         Stub(Checked(<<"paramIndex", "structLen", "struct">>)
              \cup (Checked(<<"paramIndex", "no structLen">>) & Failing(<<"memory">>)),
              "GetParameter", TRUE, Checked(<<"struct">>)),
     SerStubSetParameter |->
         Stub(Checked(<<"index">>) & Array("no structLen", "structLen", "struct"), "SetParameter",
              TRUE, Nothing)]

ComponentConfigStubs ==
    [SerStubGetConfig |->
         Stub(Checked(<<"index", "structLen", "struct">>)
              \cup (Checked(<<"index", "no structLen">>) & Failing(<<"memory">>)),
              "GetConfig", TRUE, Checked(<<"struct">>)),
     SerStubSetConfig |->
         Stub(Checked(<<"index">>) & Array("no structLen", "structLen", "struct"), "SetConfig", TRUE,
              Nothing),
     SerStubGetExtensionIndex |->
         Stub(Checked(<<"String paramName">>), "GetExtensionIndex", TRUE, Checked(<<"indexType">>)),
     SerStubGetState |-> Stub(Nothing, "GetState", TRUE, Checked(<<"state">>))]

ComponentBufferStubs(api) ==
    api @@
    [SerStubComponentTunnelRequest |->
         Stub(Checked(<<"port", "tunneledComp", "tunneledPort">>)
              & api.OMX_TUNNELSETUPTYPEBlockUnmarshalling,
              "ComponentTunnelRequest", TRUE, api.OMX_TUNNELSETUPTYPEBlockMarshalling),
     SerStubUseBuffer |->
         Stub(Checked(<<"portIndex">>) & api.OmxCodecBufferBlockUnmarshalling, "UseBuffer",
              TRUE,
              api.OmxCodecBufferBlockMarshalling),
     SerStubAllocateBuffer |->
         Stub(Checked(<<"portIndex">>) & api.OmxCodecBufferBlockUnmarshalling,
              "AllocateBuffer", TRUE,
              api.OmxCodecBufferBlockMarshalling),
     SerStubFreeBuffer |->
         Stub(Checked(<<"portIndex">>) & api.OmxCodecBufferBlockUnmarshalling, "FreeBuffer",
              TRUE, Nothing),
     SerStubEmptyThisBuffer |->
         Stub(api.OmxCodecBufferBlockUnmarshalling, "EmptyThisBuffer", TRUE, Nothing)]

ComponentCallbackStubs(api) ==
    api @@
    [SerStubFillThisBuffer |-> Stub(api.OmxCodecBufferBlockUnmarshalling, "FillThisBuffer",
                                    TRUE, Nothing),
     SerStubSetCallbacks |->
         Stub(Checked(<<"RemoteService callback">>) & Array("no appDataLen", "appDataLen", "appData"),
              "SetCallbacks", TRUE, Nothing),
     SerStubComponentDeInit |-> Stub(Nothing, "ComponentDeInit", TRUE, Nothing),
     SerStubUseEglImage |->
         Stub(api.OmxCodecBufferBlockUnmarshalling & Checked(<<"portIndex">>)
              & Array("no eglImageLen", "eglImageLen", "eglImage"),
              "UseEglImage", TRUE, api.OmxCodecBufferBlockMarshalling)]

ComponentHandlers(api) ==
    LET SerStubComponentRoleEnum ==
            Stub(Checked(<<"roleLen", "index">>)
                 \cup (Checked(<<"no roleLen">>) & Failing(<<"memory">>)),
                 "ComponentRoleEnum", TRUE, Checked(<<"role">>))
    IN  api @@
        [HandleComponentManagerCmd |->
             [CMD_CODEC_GET_COMPONENT_NUM |-> api.HandleGetNumCmd,
              CMD_CODEC_GET_COMPONENT_CAPABILITY_LIST |-> api.HandleGetAllCapablityListCmd,
              CMD_CREATE_COMPONENT |-> api.SerStubCreateComponent,
              CMD_DESTROY_COMPONENT |-> api.SerStubDestroyComponent],
         HandleComponentCmd |->
             [CMD_GET_COMPONENT_VERSION |-> api.SerStubGetComponentVersion,
              CMD_SEND_COMMAND |-> api.SerStubSendCommand,
              CMD_GET_PARAMETER |-> api.SerStubGetParameter,
              CMD_SET_PARAMETER |-> api.SerStubSetParameter,
              CMD_GET_CONFIG |-> api.SerStubGetConfig,
              CMD_SET_CONFIG |-> api.SerStubSetConfig,
              CMD_GET_EXTENSION_INDEX |-> api.SerStubGetExtensionIndex,
              CMD_GET_STATE |-> api.SerStubGetState,
              CMD_COMPONENT_TUNNEL_REQUEST |-> api.SerStubComponentTunnelRequest,
              CMD_USE_BUFFER |-> api.SerStubUseBuffer,
              CMD_ALLOCATE_BUFFER |-> api.SerStubAllocateBuffer,
              CMD_FREE_BUFFER |-> api.SerStubFreeBuffer,
              CMD_EMPTY_THIS_BUFFER |-> api.SerStubEmptyThisBuffer,
              CMD_FILL_THIS_BUFFER |-> api.SerStubFillThisBuffer,
              CMD_SET_CALLBACKS |-> api.SerStubSetCallbacks,
              CMD_COMPONENT_DE_INIT |-> api.SerStubComponentDeInit,
              CMD_USE_EGL_IMAGE |-> api.SerStubUseEglImage,
              CMD_COMPONENT_ROLE_ENUM |-> SerStubComponentRoleEnum]]

CodecComponentTypeServiceOnRemoteRequest ==
    LET Of(api) ==
            LET cmds == DOMAIN api.HandleComponentManagerCmd
                    \cup DOMAIN api.HandleComponentCmd
            IN  [cmd \in cmds |->
                    Behind(Checked(<<"token">>),
                        IF cmd \in DOMAIN api.HandleComponentManagerCmd THEN api.HandleComponentManagerCmd[cmd]
                        ELSE api.HandleComponentCmd[cmd])]
    IN  Of(ComponentHandlers(ComponentCallbackStubs(ComponentBufferStubs(CapabilityStubs(
           CapabilityBlocks(RangeBlocks(TunnelBlocks @@ BufferBlocks @@
           ComponentCreateStubs @@ ComponentParameterStubs @@ ComponentConfigStubs)))))))

-----------------------------------------------------------------------------
(* The callback. *)
ReadEventInfo ==
    Array("no appDataLen", "appDataLen", "appData") & Checked(<<"data1", "data2">>)
    & Array("no eventDataLen", "eventDataLen", "eventData")

EventStubs(api) ==
    api @@
    [SerStubEventHandler |-> Stub(Checked(<<"event">>) & ReadEventInfo, "EventHandler", TRUE, Nothing),
     SerStubEmptyBufferDone |->
         Stub(Array("no appDataLen", "appDataLen", "appData")
              & api.OmxCodecBufferBlockUnmarshalling,
              "EmptyBufferDone", TRUE, Nothing),
     SerStubFillBufferDone |->
         Stub(Array("no appDataLen", "appDataLen", "appData")
              & api.OmxCodecBufferBlockUnmarshalling,
              "FillBufferDone", TRUE, Nothing)]

CodecCallbackTypeServiceOnRemoteRequest ==
    LET Of(api) ==
            [CMD_EVENT_HANDLER |-> Behind(Checked(<<"token">>), api.SerStubEventHandler),
             CMD_EMPTY_BUFFER_DONE |-> Behind(Checked(<<"token">>), api.SerStubEmptyBufferDone),
             CMD_FILL_BUFFER_DONE |-> Behind(Checked(<<"token">>), api.SerStubFillBufferDone)]
    IN  Of(EventStubs(RangeBlocks(BufferBlocks)))
==============================================================================
