---------------------------- MODULE UsbFnAdapter ----------------------------
(***************************************************************************)
(* The gadget adapter over configfs, usb/ddk/device/src/adapter_if.c, for  *)
(* a device with one generic function and one of the kernel's own.  What   *)
(* the UDC file says is written by others as well, so what is read from it *)
(* is a free choice.                                                       *)
(***************************************************************************)
EXTENDS Paths, TLC

UsbFnReadFile == Get("fp") & Clear("fp") & MayFail
IsDirExist(path) == Needs(path)

GadgetFiles ==
    LET UsbFnWriteFile == Ok | Get("fp") & Clear("fp") & MayFail
    \* The directory is closed inside the loop that still reads it, and not at all
    \* when it has no entries.
    IN  [DeleteFile |->
             Heedless(Local(<<"dir">>, MayFail & Get("dir") & (Ok | Free("dir") & Use("dir")))),
         IsDeviceDirExist |-> MayFail & IsDirExist("deviceDir"),
         UsbFnWriteFile |-> UsbFnWriteFile,
         UsbFnWriteProp |-> MayFail & UsbFnWriteFile,
         UsbFnWriteConfString |-> MayFail & UsbFnWriteFile,
         UsbFnWriteDesString |-> MayFail & UsbFnWriteFile]

UsbFnAdapterWriteUDC(api, enable) ==
    api.IsDeviceDirExist & MayFail
    & IF enable THEN Heedless(api.UsbFnWriteFile) & Heedless(UsbFnReadFile)
    & MayFail ELSE MayFail

------------------------------------------------------------------------------
FnEndpoints ==
    LET UsbFnAdapterOpenFn == Get("fd")
        UsbFnAdapterClosefn == Needs("fd") & Clear("fd") & MayFail
    IN  [UsbFnAdapterCreatInterface |->
             Local(<<"fd">>, UsbFnAdapterOpenFn & MayFail & If("interface", Fail, Get("interface"))
                   & UsbFnAdapterClosefn),
         UsbFnAdapterDelInterface |->
             Local(<<"fd">>, UsbFnAdapterOpenFn & MayFail & Needs("interface") & MayFail
                   & Clear("interface")
                             & UsbFnAdapterClosefn)]

UsbFnAdapterCreateFunc(func) == If(func, Fail, Get(func)) & MayFail
CreatKernelFunc(func) == MayFail & UsbFnAdapterCreateFunc(func)
CleanConfigFs(func) == Heedless(MayFail & Clear(func))

------------------------------------------------------------------------------
\* Pipes; the file descriptor names the endpoint.
UsbFnAdapterOpenPipe(ep) == MayFail & Get(ep)

UsbFnAdapterClosePipe(ep) == Needs(ep) & Free(ep) & MayFail
UsbFnAdapterGetPipeInfo(ep) == Needs(ep) & Try(ep)
UsbFnAdapterQueueInit(ep) == Needs(ep) & Try(ep)
UsbFnAdapterQueueDel(ep) == Needs(ep) & Try(ep)
UsbFnAdapterReleaseBuf(ep) == Needs(ep) & Try(ep)
UsbFnAdapterPipeIo(ep) == Needs(ep) & Try(ep)
UsbFnAdapterCancelIo(ep) == Needs(ep) & Try(ep)
UsbFnAdapterRequestGetStatus(ep) == Needs(ep) & Try(ep)

\* mmap fails with MAP_FAILED, which is not the NULL that callers test for.
UsbFnAdapterMapAddr(ep, map) == Needs(ep) & Use(ep) & Heedless(Get(map))

UsbFnAdapterUnmapAddr(map) == If(map, Free(map) & MayFail, Fail)
Ep0Event(ep0) == Use(ep0)
EpEvent(ep, event) == Use(ep) & Use(event)

\* events reads what the polled endpoints report.
UsbFnAdapterPollEvent(events) ==
    Get("pfds") & OnError(MayFail, Clear("pfds")) & events & Clear("pfds")

------------------------------------------------------------------------------
FnDescriptors ==
    LET GetHeaderStr == Ok
    IN  [GetHeaderStr |-> GetHeaderStr,
         UsbFnWriteStrings |-> GetHeaderStr & Get("str") & OnError(MayFail, Clear("str"))
             & Clear("str"),
         CopyCount |-> MayFail,
         WriteFuncDescriptors |-> MayFail]

DeviceDirectory(api) ==
    LET WriteDeviceId == Each(LAMBDA p : api.UsbFnWriteProp, <<"vendor", "product", "class">>)
    IN  api @@
        [UsbFnAdapterCreatPipes |->
             Local(<<"dec">>, Get("dec") & api.CopyCount
                   & api.WriteFuncDescriptors & OnError(MayFail, Clear("dec")) & Clear("dec"))
             & api.UsbFnWriteStrings,
         WriteDeviceDescriptor |-> WriteDeviceId & api.UsbFnWriteDesString,
         CreatDeviceDir |-> MayFail & If("deviceDir", Ok, MayFail & Set("deviceDir"))]

WriteConfPowerAttributes(api) == MayFail & api.UsbFnWriteFile & api.UsbFnWriteFile

ConfigDevice(api) ==
    api @@
    [CreatFunc |->
         Local(<<"ep">>,
               CreatKernelFunc("function") & MayFail
               & OnError(api.UsbFnAdapterCreatInterface & UsbFnAdapterOpenPipe("ep"),
                         CleanConfigFs("function"))
               & api.UsbFnAdapterCreatPipes & UsbFnAdapterClosePipe("ep")),
     DelConfigDevice |->
         Heedless(MayFail & api.DeleteFile & MayFail & api.DeleteFile & MayFail
                  & api.DeleteFile & MayFail
                  & Unset("deviceDir"))]

DeviceCreation(api) ==
    LET UsbFnAdapterWaitUDC == api.IsDeviceDirExist & MayFail & Heedless(UsbFnReadFile)
            & MayFail
        CleanFunction == Heedless(api.UsbFnAdapterDelInterface & CleanConfigFs("function"))
        \* The device g1 belongs to the system and is left in place.
        UsbFnAdapterDelDevice ==
            UsbFnAdapterWriteUDC(api, FALSE) & CleanConfigFs("kernelFunction") & (CleanFunction | Ok)
            & (api.DelConfigDevice | Ok)
    IN  api @@
        [UsbFnAdapterCleanDevice |->
             Heedless(MayFail & Get("dir") & When("function", CleanFunction) & Clear("dir")),
         UsbFnAdapterDelDevice |-> UsbFnAdapterDelDevice,
         EnableDevice |->
             Heedless(UsbFnAdapterWriteUDC(api, FALSE))
             & Otherwise(UsbFnAdapterWaitUDC,
                         OnError(UsbFnAdapterWriteUDC(api, TRUE), Heedless(UsbFnAdapterDelDevice))),
         \* A generic function that is not enabled is passed over.
         CreateFun |-> CreatKernelFunc("kernelFunction") & (api.CreatFunc | Ok)]

UsbFnAdapterCreateDevice(api) ==
    api.UsbFnAdapterCleanDevice & api.CreatDeviceDir
    & api.WriteDeviceDescriptor & WriteConfPowerAttributes(api)
    & api.UsbFnWriteConfString
    & OnError(api.CreateFun, Heedless(UsbFnAdapterWriteUDC(api, FALSE))
              & Heedless(UsbFnAdapterWriteUDC(api, TRUE)))
    & api.EnableDevice

\* The functions, each with the ones it calls.
Functions ==
    DeviceCreation(ConfigDevice(DeviceDirectory(GadgetFiles @@ FnEndpoints @@ FnDescriptors)))

Entries ==
    LET Of(api) ==
            [createDevice |-> UsbFnAdapterCreateDevice(api), delDevice |-> api.UsbFnAdapterDelDevice,
             write |-> AnyOf(<<UsbFnAdapterWriteUDC(api, TRUE), UsbFnAdapterWriteUDC(api, FALSE),
                               api.UsbFnWriteProp,
                               api.UsbFnWriteDesString>>)]
    IN  Of(Functions)

Lives ==
    {<<"new", "createDevice", "made", "new">>,
     <<"made", "write", "made", "made">>,
     <<"made", "delDevice", "gone", "made">>}
==============================================================================
