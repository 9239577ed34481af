------------------------------- MODULE WlanHdi -------------------------------
(***************************************************************************)
(* The WLAN service (wlan/hdi_service), its proxy and its stub, and the    *)
(* commands of the WLAN client to the driver.                              *)
(***************************************************************************)
EXTENDS HdiFields, TLC

------------------------------------------------------------------------------
(***************************************************************************)
(* The client side of the WLAN service (wlan/hdi_service/client) and the   *)
(* callback it registers.  Every function recycles both buffers before it  *)
(* returns.  A MAC address is six words.                                   *)
(***************************************************************************)
ProxySession ==
    [WlanConstruct |-> Proxy("WLAN_SERVICE_CONSTRUCT", Checked(<<"token">>), Nothing),
     WlanDestruct |-> Proxy("WLAN_SERVICE_DECONSTRUCT", Checked(<<"token">>), Nothing),
     WlanStart |-> Proxy("WLAN_SERVICE_START", Checked(<<"token">>), Nothing),
     WlanStop |-> Proxy("WLAN_SERVICE_STOP", Checked(<<"token">>), Nothing)]

ProxyFeature ==
    \* A name that is missing ends the function, but not with an error.
    [WlanCreateFeature |->
         Proxy("WLAN_SERVICE_CREATE_FEATURE", Checked(<<"token", "wlanType">>),
             Unchecked(<<"String ifName", "wlanType">>)),
     WlanDestroyFeature |->
         Proxy("WLAN_SERVICE_DESTROY_FEATURE", Checked(<<"token", "String ifName", "wlanType">>),
             Nothing),
     WlanGetAsscociatedStas |->
         Proxy("WLAN_SERVICE_GET_ASSCOCIATE_STA", Checked(<<"token", "String ifName">>),
             Checked(<<"num", "Buffer staInfo">>))]

ProxyChip ==
    [WlanGetChipId |->
         Proxy("WLAN_SERVICE_GET_CHIPID", Checked(<<"token", "String ifName", "wlanType">>),
             Checked(<<"chipId">>)),
     WlanGetDeviceMacAddress |->
         Proxy("WLAN_SERVICE_GET_MAC_ADDR", Checked(<<"token", "String ifName", "wlanType">>),
             Unchecked(<<"UnpadBuffer mac">>)),
     WlanGetFeatureByIfName |->
         Proxy("WLAN_SERVICE_GET_FEATURE_NAME", Checked(<<"token", "String ifName">>),
             Checked(<<"wlanType">>))]

ProxyFrequencies ==
    [WlanGetFeatureType |->
         Proxy("WLAN_SERVICE_GET_FEATURE_TYPE", Checked(<<"token", "wlanType">>),
             Checked(<<"wlanType">>)),
     WlanGetFreqsWithBand |->
         Proxy("WLAN_SERVICE_GET_FREQ_WITHBAND",
             Checked(<<"token", "String ifName", "band", "count">>),
             Checked(<<"no num">>) \cup Checked(<<"num", "freqs">>)),
     \* A name that is missing is no error.
     WlanGetIfNamesByChipId |->
         Proxy("WLAN_SERVICE_GET_NAME_BYCHIPID", Checked(<<"token", "chipId">>),
             Checked(<<"num">>) & Unchecked(<<"String ifNames">>))]

ProxySupport ==
    [WlanGetNetworkIfaceName |->
         Proxy("WLAN_SERVICE_GET_NETWORK_NAME", Checked(<<"token", "String ifName">>),
             Unchecked(<<"String ifName">>)),
     WlanGetSupportCombo |->
         Proxy("WLAN_SERVICE_GET_SUPPORT_COMBO", Checked(<<"token">>),
             Unchecked(<<"64-bit combo">>)),
     WlanGetSupportFeature |->
         Proxy("WLAN_SERVICE_GET_SUPPORT_FEATURE", Checked(<<"token">>),
             Unchecked(<<"size", "UnpadBuffer supType">>))]

ProxyEvents ==
    [WlanRegisterEventCallback |->
         Proxy("WLAN_SERVICE_REGISTER_CALLBACK",
             Checked(<<"token">>) & Unchecked(<<"RemoteObject callback">>), Nothing),
     WlanUnregisterEventCallback |->
         Proxy("WLAN_SERVICE_UNREGISTER_CALLBACK", Checked(<<"token">>), Nothing),
     WlanResetDriver |-> Proxy("WLAN_SERVICE_RESET_DRIVER", Checked(<<"token", "chipId">>), Nothing),
     WlanSetCountryCode |->
         Proxy("WLAN_SERVICE_SET_COUNTRY_CODE",
             Checked(<<"token", "String ifName", "String code">>), Nothing)]

ProxyAddress ==
    [WlanSetMacAddress |->
         Proxy("WLAN_SERVICE_SET_MAC_ADDR", Checked(<<"token", "String ifName", "mac">>), Nothing),
     WlanSetScanningMacAddress |->
         Proxy("WLAN_SERVICE_SET_SACN_MACADDR",
             Checked(<<"token", "String ifName", "len", "scanMac">>), Nothing),
     WlanSetTxPower |->
         Proxy("WLAN_SERVICE_SET_TX_POWR", Checked(<<"token", "String ifName", "power">>), Nothing)]

ProxyScan ==
    [WlanGetNetDevInfo |->
         Proxy("WLAN_SERVICE_GET_NETDEV_INFO", Checked(<<"token">>),
             Checked(<<"Buffer netDeviceInfoResult">>)),
     WlanStartScan |->
         Proxy("WLAN_SERVICE_START_SCAN", Checked(<<"token", "String ifName", "Buffer scan">>),
             Nothing)]

\* The operations of the service and the functions that ask for them.
IwifiConstruct ==
    LET Of(api) ==
            [Construct |-> api.WlanConstruct, Destruct |-> api.WlanDestruct,
             start |-> api.WlanStart,
             stop |-> api.WlanStop, createFeature |-> api.WlanCreateFeature,
             destroyFeature |-> api.WlanDestroyFeature,
             getAsscociatedStas |-> api.WlanGetAsscociatedStas,
             getChipId |-> api.WlanGetChipId, getDeviceMacAddress |-> api.WlanGetDeviceMacAddress,
             getFeatureByIfName |-> api.WlanGetFeatureByIfName,
             getFeatureType |-> api.WlanGetFeatureType,
             getValidFreqsWithBand |-> api.WlanGetFreqsWithBand,
             getIfNamesByChipId |-> api.WlanGetIfNamesByChipId,
             getNetworkIfaceName |-> api.WlanGetNetworkIfaceName,
             getSupportCombo |-> api.WlanGetSupportCombo,
             getSupportFeature |-> api.WlanGetSupportFeature,
             registerEventCallback |-> api.WlanRegisterEventCallback,
             unregisterEventCallback |-> api.WlanUnregisterEventCallback,
             resetDriver |-> api.WlanResetDriver,
             setCountryCode |-> api.WlanSetCountryCode,
             setMacAddress |-> api.WlanSetMacAddress,
             setScanningMacAddress |-> api.WlanSetScanningMacAddress,
             setTxPower |-> api.WlanSetTxPower,
             getNetDevInfo |-> api.WlanGetNetDevInfo, startScan |-> api.WlanStartScan]
    IN  Of(ProxySession @@ ProxyFeature @@ ProxyChip @@ ProxyFrequencies @@ ProxySupport @@
           ProxyEvents @@ ProxyAddress @@ ProxyScan)

-----------------------------------------------------------------------------
(* The dispatcher of the callback hands the rest of the message to the function of the client, *)
(* which knows the event. *)
ServiceManagerTestCallbackDispatch ==
    [WIFI_EVENT_RESET_DRIVER |->
        Stub(Checked(<<"String ifName">>) & Unchecked(<<"code">>), "ResetDriverEvent", TRUE,
             Nothing),
     WIFI_EVENT_SCAN_RESULT |->
        Stub(Checked(<<"String ifName">>) & Unchecked(<<"Buffer scanResult">>),
             "ScanResultEvent", TRUE, Nothing)]

------------------------------------------------------------------------------
(***************************************************************************)
(* The service side of WLAN (wlan/hdi_service/services) and the events it  *)
(* reports.  Except for UnRegCallback every function checks the interface  *)
(* token.  The functions of a feature first copy the interface name into   *)
(* it.                                                                     *)
(***************************************************************************)
StubSession ==
    [HdiWifiConstruct |-> Stub(Checked(<<"token">>), "Construct", TRUE, Nothing),
     HdiWifiDeConstruct |-> Stub(Checked(<<"token">>), "Destruct", TRUE, Nothing),
     WlanServiceStubStart |-> Stub(Checked(<<"token">>), "start", TRUE, Nothing),
     WlanServiceStubStop |-> Stub(Checked(<<"token">>), "stop", TRUE, Nothing),
     WlanServiceStubGetSupportFeature |->
         Stub(Checked(<<"token">>), "getSupportFeature", TRUE,
              Unchecked(<<"size", "UnpadBuffer supType">>)),
     \* The truth value of the last write is returned as the error code, in which success is zero.
     WlanServiceStubGetSupportCombo |->
         Stub(Checked(<<"token">>), "getSupportCombo", TRUE, Inverted(<<"64-bit combo">>))]

StubFeature ==
    \* The types other than access point and station are an error.
    [WlanServiceStudCreateFeature |->
         Stub(Checked(<<"token", "wlanType">>), "createFeature", TRUE,
              Checked(<<"String ifName", "wlanType">>)),
     WlanServiceStudGetFeatureByIfName |->
         Stub(Checked(<<"token", "String ifName">>), "getFeatureByIfName", TRUE,
              Checked(<<"wlanType">>))]

WlanServiceStudRegCallback ==
    Stub(Checked(<<"token", "RemoteObject callback">>), "registerEventCallback", TRUE, Nothing)

StubReset ==
    [WlanServiceStubUnRegCallback |-> Stub(Nothing, "unregisterEventCallback", TRUE, Nothing),
     WlanServiceStubDestoryFeature |->
         Stub(Checked(<<"token", "String ifName", "wlanType">>), "destroyFeature", TRUE, Nothing),
     WlanServiceStubResetDriver |-> Stub(Checked(<<"token", "chipId">>), "resetDriver", TRUE, Nothing),
     \* The buffer is written to the message and not to the reply.
     WlanServiceStubGetAsscociateSta |->
         Stub(Checked(<<"token", "String ifName">>), "getAsscociatedStas", TRUE,
              Unchecked(<<"num">>))]

StubNames ==
    [WlanServiceStubSetCountryCode |->
         Stub(Checked(<<"token", "String ifName", "String code">>), "setCountryCode", TRUE, Nothing),
     WlanServiceStubGetNetworkName |->
         Stub(Checked(<<"token", "String ifName">>), "getNetworkIfaceName", TRUE,
              Unchecked(<<"String ifName">>)),
     WlanServiceStubGetFeatureType |->
         Stub(Checked(<<"token">>) & Unchecked(<<"wlanType">>), "getFeatureType", TRUE,
              Unchecked(<<"wlanType">>)),
     WlanServcieStubSetMacAddr |->
         Stub(Checked(<<"token", "String ifName", "mac">>), "setMacAddress", TRUE, Nothing)]

StubAddress ==
    [WlanServiceGetMacAddr |->
         Stub(Checked(<<"token", "String ifName", "wlanType">>), "getDeviceMacAddress", TRUE,
              Unchecked(<<"UnpadBuffer mac">>)),
     WlanServiceStubGetFreqWithband |->
         Stub(Checked(<<"token", "String ifName", "band", "count">>), "getValidFreqsWithBand", TRUE,
              Unchecked(<<"no num">>) \cup (Unchecked(<<"num">>) & Checked(<<"freqs">>))),
     WlanServiceStubSetTxPowr |->
         Stub(Checked(<<"token", "String ifName", "power">>), "setTxPower", TRUE, Nothing)]

StubChip ==
    [WlanServiceStubGetChipId |->
         Stub(Checked(<<"token", "String ifName", "wlanType">>), "getChipId", TRUE,
              Checked(<<"chipId">>)),
     WlanServiceStubGetNameByChipId |->
         Stub(Checked(<<"token", "chipId">>), "getIfNamesByChipId", TRUE,
              Checked(<<"num", "String ifNames">>)),
     WlanServiceStubSetScanMacAddr |->
         Stub(Checked(<<"token", "String ifName", "len", "scanMac">>), "setScanningMacAddress",
              TRUE, Nothing)]

StubScan ==
    [WlanServiceStubGetNetdevInfo |->
         Stub(Checked(<<"token">>), "getNetDevInfo", TRUE, Checked(<<"Buffer netDeviceInfoResult">>)),
     WlanServiceStubStartScan |->
         Stub(Checked(<<"token", "String ifName", "Buffer scan">>), "startScan", TRUE, Nothing)]

WlanHdiServiceOnRemoteRequest ==
    LET Of(api) ==
            [WLAN_SERVICE_CONSTRUCT |-> api.HdiWifiConstruct,
             WLAN_SERVICE_DECONSTRUCT |-> api.HdiWifiDeConstruct,
             WLAN_SERVICE_START |-> api.WlanServiceStubStart,
             WLAN_SERVICE_STOP |-> api.WlanServiceStubStop,
             WLAN_SERVICE_GET_SUPPORT_FEATURE |-> api.WlanServiceStubGetSupportFeature,
             WLAN_SERVICE_GET_SUPPORT_COMBO |-> api.WlanServiceStubGetSupportCombo,
             WLAN_SERVICE_CREATE_FEATURE |-> api.WlanServiceStudCreateFeature,
             WLAN_SERVICE_GET_FEATURE_NAME |-> api.WlanServiceStudGetFeatureByIfName,
             WLAN_SERVICE_REGISTER_CALLBACK |-> WlanServiceStudRegCallback,
             WLAN_SERVICE_UNREGISTER_CALLBACK |-> api.WlanServiceStubUnRegCallback,
             WLAN_SERVICE_DESTROY_FEATURE |-> api.WlanServiceStubDestoryFeature,
             WLAN_SERVICE_RESET_DRIVER |-> api.WlanServiceStubResetDriver,
             WLAN_SERVICE_GET_ASSCOCIATE_STA |-> api.WlanServiceStubGetAsscociateSta,
             WLAN_SERVICE_SET_COUNTRY_CODE |-> api.WlanServiceStubSetCountryCode,
             WLAN_SERVICE_GET_NETWORK_NAME |-> api.WlanServiceStubGetNetworkName,
             WLAN_SERVICE_GET_FEATURE_TYPE |-> api.WlanServiceStubGetFeatureType,
             WLAN_SERVICE_SET_MAC_ADDR |-> api.WlanServcieStubSetMacAddr,
             WLAN_SERVICE_GET_MAC_ADDR |-> api.WlanServiceGetMacAddr,
             WLAN_SERVICE_GET_FREQ_WITHBAND |-> api.WlanServiceStubGetFreqWithband,
             WLAN_SERVICE_SET_TX_POWR |-> api.WlanServiceStubSetTxPowr,
             WLAN_SERVICE_GET_CHIPID |-> api.WlanServiceStubGetChipId,
             WLAN_SERVICE_GET_NAME_BYCHIPID |-> api.WlanServiceStubGetNameByChipId,
             WLAN_SERVICE_SET_SACN_MACADDR |-> api.WlanServiceStubSetScanMacAddr,
             WLAN_SERVICE_GET_NETDEV_INFO |-> api.WlanServiceStubGetNetdevInfo,
             WLAN_SERVICE_START_SCAN |-> api.WlanServiceStubStartScan]
    IN  Of(StubSession @@ StubFeature @@ StubReset @@ StubNames @@ StubAddress @@ StubChip @@
           StubScan)

-----------------------------------------------------------------------------
(* The events. A write that fails is not an error. *)
WifiServiceCallback ==
    [ResetDriverEvent |->
        Lapsing(Proxy("WIFI_EVENT_RESET_DRIVER", Checked(<<"String ifName", "code">>), Nothing),
                {"silent"}),
     ScanResultEvent |->
        Lapsing(Proxy("WIFI_EVENT_SCAN_RESULT",
                    Checked(<<"String ifName", "Buffer scanResult">>), Nothing),
                {"silent"})]

------------------------------------------------------------------------------
(***************************************************************************)
(* The commands of the WLAN client to the driver in the kernel             *)
(* (wlan/client/src/sbuf).  Every function obtains its buffers, writes the *)
(* arguments, sends the command with SendCmdSync and recycles the buffers  *)
(* at its single end.  Most of them gather the failures of the writes in   *)
(* isSerializeFailed and send nothing when there is one.                   *)
(***************************************************************************)
\* A command without a reply.
SendCmdSync(cmd, names) == Proxy(cmd, Checked(names), Nothing)

DriverParsers ==
    \* At most MAX_IFACE_NUM interfaces are read.
    [ParserNetworkInfo |->
         Checked(<<"no nums">>) \cup Checked(<<"nums", "String ifName", "Buffer mode">>),
     \* A device without a saved address is an error.
     ParserDeviceMacAddr |-> Checked(<<"isEfuseSavedMac", "Buffer mac">>),
     ParserFreqInfo |-> Checked(<<"nums", "Buffer freqs">>),
     ParserAssociatedStas |-> Checked(<<"no num">>) \cup Checked(<<"num", "Buffer infos">>)]

DriverNetworks(api) ==
    api @@
    [GetUsableNetworkInfo |-> Proxy("WIFI_HAL_CMD_GET_NETWORK_INFO", Nothing,
                                    api.ParserNetworkInfo),
     IsSupportCombo |-> Proxy("WIFI_HAL_CMD_IS_SUPPORT_COMBO", Nothing, Checked(<<"isSupportCombo">>)),
     GetComboInfo |->
         Proxy("WIFI_HAL_CMD_GET_SUPPORT_COMBO", Nothing,
               Checked(<<"isComboValid", "Buffer comboInfo">>)),
     SetMacAddr |-> SendCmdSync("WIFI_HAL_CMD_SET_MAC_ADDR", <<"String ifName", "Buffer mac">>)]

DriverAddress(api) ==
    api @@
    [GetDevMacAddr |->
         Proxy("WIFI_HAL_CMD_GET_DEV_MAC_ADDR", Checked(<<"String ifName", "type">>),
             api.ParserDeviceMacAddr),
     GetValidFreqByBand |->
         Proxy("WIFI_HAL_CMD_GET_VALID_FREQ", Checked(<<"String ifName", "band">>),
               api.ParserFreqInfo),
     SetTxPower |-> SendCmdSync("WIFI_HAL_CMD_SET_TX_POWER", <<"String ifName", "power">>),
     GetAssociatedStas |->
         Proxy("WIFI_HAL_CMD_GET_ASSOC_STA", Checked(<<"String ifName">>),
               api.ParserAssociatedStas)]

DriverCountry ==
    [WifiSetCountryCode |->
         SendCmdSync("WIFI_HAL_CMD_SET_COUNTRY_CODE", <<"String ifName", "Buffer code">>),
     SetScanMacAddr |->
         Proxy("WIFI_HAL_CMD_SET_SCAN_MAC_ADDR", Checked(<<"String ifName", "Buffer scanMac">>),
             Checked(<<"isFuncValid">>)),
     AcquireChipId |->
         Proxy("WIFI_HAL_CMD_GET_CHIPID", Checked(<<"String ifName">>), Checked(<<"chipId">>)),
     \* The copy of each name is given the size of all of them, which is too much for more than one.
     GetIfNames |->
         Checked(<<"one num", "Buffer ifName">>)
         \cup (Checked(<<"num", "Buffer ifNames">>) & Failing(<<"copy">>))]

DriverReset(api) ==
    api @@
    [GetIfNamesByChipId |-> Proxy("WIFI_HAL_CMD_GET_IFNAMES", Checked(<<"chipId">>),
                                  api.GetIfNames),
     SetResetDriver |-> SendCmdSync("WIFI_HAL_CMD_RESET_DRIVER", <<"chipId", "String ifName">>),
     GetNetDeviceInfo |->
         Proxy("WIFI_HAL_CMD_GET_NETDEV_INFO", Nothing,
             Checked(<<"no num">>)
             \cup Checked(<<"netdevNum", "index", "Buffer ifName", "iftype", "Buffer mac">>)),
     WifiEapolPacketSend |-> SendCmdSync("WIFI_WPA_CMD_SEND_EAPOL", <<"String ifName", "Buffer buf">>)]

DriverEapol ==
    [WifiEapolPacketReceive |->
         Proxy("WIFI_WPA_CMD_RECEIVE_EAPOL", Checked(<<"String ifName">>), Checked(<<"Buffer buf">>)),
     WifiEapolEnable |-> SendCmdSync("WIFI_WPA_CMD_ENALBE_EAPOL", <<"String ifName">>),
     WifiEapolDisable |-> SendCmdSync("WIFI_WPA_CMD_DISABLE_EAPOL", <<"String ifName">>),
     WifiCmdSetAp |->
         SendCmdSync("WIFI_WPA_CMD_SET_AP",
             <<"String ifName", "mode", "freq", "channel", "htEnabled", "secChannelOffset",
               "vhtEnabled", "centerFreq1", "centerFreq2", "bandwidth", "band", "beaconInterval",
               "dtimPeriod", "hiddenSsid", "authType", "Buffer head", "Buffer tail", "Buffer ssid",
               "Buffer meshSsid">>)]

DriverKeys ==
    LET WifiCmdOperKey(cmd) ==
            SendCmdSync(cmd,
                <<"String ifName", "type", "keyIdx", "cipher", "def", "defMgmt", "defaultTypes", "resv",
                  "Buffer addr", "Buffer key", "Buffer seq">>)
    IN  [WifiCmdChangeBeacon |->
             SendCmdSync("WIFI_WPA_CMD_CHANGE_BEACON",
                 <<"String ifName", "Buffer head", "Buffer tail", "Buffer ssid", "Buffer meshSsid">>),
         WifiCmdSendMlme |->
             SendCmdSync("WIFI_WPA_CMD_SEND_MLME",
                 <<"String ifName", "Buffer mlme", "Buffer data", "Buffer cookie">>),
         WifiCmdDelKey |-> WifiCmdOperKey("WIFI_WPA_CMD_DEL_KEY"),
         WifiCmdNewKey |-> WifiCmdOperKey("WIFI_WPA_CMD_NEW_KEY"),
         WifiCmdSetKey |-> WifiCmdOperKey("WIFI_WPA_CMD_SET_KEY"),
         WifiCmdSetMode |-> SendCmdSync("WIFI_WPA_CMD_SET_MODE", <<"String ifName", "Buffer setMode">>)]

DriverScan ==
    [WifiCmdGetOwnMac |->
         Proxy("WIFI_WPA_CMD_GET_ADDR", Checked(<<"String ifName">>), Checked(<<"Buffer mac">>)),
     WifiCmdGetHwFeature |->
         Proxy("WIFI_WPA_CMD_GET_HW_FEATURE", Checked(<<"String ifName">>),
             Checked(<<"Buffer hwFeatureData">>)),
     WifiCmdScan |->
         SendCmdSync("WIFI_WPA_CMD_SCAN",
             <<"String ifName", "Buffer bssid", "Buffer ssids", "Buffer extraIes", "Buffer freqs",
               "prefixSsidScanFlag", "fastConnectFlag">>),
     WifiCmdDisconnet |-> SendCmdSync("WIFI_WPA_CMD_DISCONNECT", <<"String ifName", "reasonCode">>)]

DriverStation ==
    [WifiCmdAssoc |->
         SendCmdSync("WIFI_WPA_CMD_ASSOC",
             <<"String ifName", "Buffer bssid", "Buffer ssid", "Buffer ie", "Buffer key", "authType",
               "privacy", "keyIdx", "mfp", "freq", "Buffer crypto">>),
     WifiCmdSetNetdev |-> SendCmdSync("WIFI_WPA_CMD_SET_NETDEV", <<"String ifName", "Buffer info">>),
     WifiCmdStaRemove |-> SendCmdSync("WIFI_WPA_CMD_STA_REMOVE", <<"String ifName", "Buffer addr">>),
     WifiCmdSendAction |->
         SendCmdSync("WIFI_WPA_CMD_SEND_ACTION",
             <<"String ifName", "Buffer bssid", "Buffer dst", "Buffer src", "Buffer data">>),
     WifiCmdSetClient |-> SendCmdSync("WIFI_CLIENT_CMD_SET_CLIENT", <<"clientNum">>)]

DriverP2p ==
    [WifiCmdProbeReqReport |->
         SendCmdSync("WIFI_WPA_CMD_PROBE_REQ_REPORT", <<"String ifName", "report">>),
     WifiCmdRemainOnChannel |->
         SendCmdSync("WIFI_WPA_CMD_REMAIN_ON_CHANNEL", <<"String ifName", "freq", "duration">>),
     WifiCmdCancelRemainOnChannel |->
         SendCmdSync("WIFI_WPA_CMD_CANCEL_REMAIN_ON_CHANNEL", <<"String ifName">>),
     WifiCmdAddIf |-> SendCmdSync("WIFI_WPA_CMD_ADD_IF", <<"String ifName", "type">>),
     WifiCmdRemoveIf |-> SendCmdSync("WIFI_WPA_CMD_REMOVE_IF", <<"String ifName", "Buffer ifRemove">>),
     WifiCmdSetApWpsP2pIe |->
         SendCmdSync("WIFI_WPA_CMD_SET_AP_WPS_P2P_IE",
             <<"String ifName", "ieLen", "appIeType", "Buffer ie">>)]

WifiCmdGetDrvFlags ==
    Proxy("WIFI_WPA_CMD_GET_DRIVER_FLAGS", Checked(<<"String ifName">>),
        Checked(<<"64-bit drvFlags">>))

\* The functions that send a command.
DriverCalls ==
    LET Of(api) ==
            [GetUsableNetworkInfo |-> api.GetUsableNetworkInfo,
             IsSupportCombo |-> api.IsSupportCombo,
             GetComboInfo |-> api.GetComboInfo, SetMacAddr |-> api.SetMacAddr,
             GetDevMacAddr |-> api.GetDevMacAddr,
             GetValidFreqByBand |-> api.GetValidFreqByBand, SetTxPower |-> api.SetTxPower,
             GetAssociatedStas |-> api.GetAssociatedStas,
             WifiSetCountryCode |-> api.WifiSetCountryCode,
             SetScanMacAddr |-> api.SetScanMacAddr, AcquireChipId |-> api.AcquireChipId,
             GetIfNamesByChipId |-> api.GetIfNamesByChipId,
             SetResetDriver |-> api.SetResetDriver,
             GetNetDeviceInfo |-> api.GetNetDeviceInfo,
             WifiEapolPacketSend |-> api.WifiEapolPacketSend,
             WifiEapolPacketReceive |-> api.WifiEapolPacketReceive,
             WifiEapolEnable |-> api.WifiEapolEnable,
             WifiEapolDisable |-> api.WifiEapolDisable, WifiCmdSetAp |-> api.WifiCmdSetAp,
             WifiCmdChangeBeacon |-> api.WifiCmdChangeBeacon,
             WifiCmdSendMlme |-> api.WifiCmdSendMlme,
             WifiCmdDelKey |-> api.WifiCmdDelKey, WifiCmdNewKey |-> api.WifiCmdNewKey,
             WifiCmdSetKey |-> api.WifiCmdSetKey, WifiCmdSetMode |-> api.WifiCmdSetMode,
             WifiCmdGetOwnMac |-> api.WifiCmdGetOwnMac,
             WifiCmdGetHwFeature |-> api.WifiCmdGetHwFeature,
             WifiCmdScan |-> api.WifiCmdScan, WifiCmdDisconnet |-> api.WifiCmdDisconnet,
             WifiCmdAssoc |-> api.WifiCmdAssoc, WifiCmdSetNetdev |-> api.WifiCmdSetNetdev,
             WifiCmdStaRemove |-> api.WifiCmdStaRemove,
             WifiCmdSendAction |-> api.WifiCmdSendAction,
             WifiCmdSetClient |-> api.WifiCmdSetClient,
             WifiCmdProbeReqReport |-> api.WifiCmdProbeReqReport,
             WifiCmdRemainOnChannel |-> api.WifiCmdRemainOnChannel,
             WifiCmdCancelRemainOnChannel |-> api.WifiCmdCancelRemainOnChannel,
             WifiCmdAddIf |-> api.WifiCmdAddIf, WifiCmdRemoveIf |-> api.WifiCmdRemoveIf,
             WifiCmdSetApWpsP2pIe |-> api.WifiCmdSetApWpsP2pIe,
             WifiCmdGetDrvFlags |-> WifiCmdGetDrvFlags]
    IN  Of(DriverReset(DriverAddress(DriverNetworks(DriverParsers @@ DriverCountry @@
           DriverEapol @@ DriverKeys @@ DriverScan @@ DriverStation @@ DriverP2p))))
==============================================================================
