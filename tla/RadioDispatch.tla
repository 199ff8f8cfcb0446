---------------------------- MODULE RadioDispatch ----------------------------
(***************************************************************************)
(* The tables of libril: what every IRadio method asks of the vendor RIL   *)
(* and which of its arguments it can refuse (ril_service.cpp), which       *)
(* response function answers a request (ril_commands.h), and which payload *)
(* a response function takes for a good one (ril_service.cpp).  The vendor *)
(* RIL is reference-ril at RIL_VERSION 12, so that a branch on             *)
(* s_vendorFunctions->version has one side.  The OEM hook methods go to a  *)
(* service and callbacks of their own and are left out.                    *)
(***************************************************************************)

(* The errors with which a method answers a call itself, before the vendor *)
(* RIL sees it, by the helper that copies its arguments.                   *)
plainStruct == {}
dispatchVoid == {}
dispatchRaw == {}
copyHidlStringToRil == {"NO_MEMORY", "INTERNAL_ERR"}
dispatchString == copyHidlStringToRil
dispatchStrings == {"NO_MEMORY"} \cup copyHidlStringToRil
dispatchInts == {"NO_MEMORY"}
dispatchCallForwardStatus == copyHidlStringToRil
dispatchIccApdu == copyHidlStringToRil
checkedArguments == {"INVALID_ARGUMENTS"}
imsSms == {"INVALID_ARGUMENTS", "NO_MEMORY"} \cup copyHidlStringToRil
notSupported == {"REQUEST_NOT_SUPPORTED"}

(* What a vendor RIL of this version is never asked: the method refuses it *)
(* without having looked at the RequestInfo it was given.                  *)
RefusedOutright == {"SEND_DEVICE_STATE", "SET_UNSOLICITED_RESPONSE_FILTER"}

(* <<method, request, errors it may answer itself>>                        *)
SimPinAndDialMethods == {
  <<"getIccCardStatus", "GET_SIM_STATUS", dispatchVoid>>,
  <<"supplyIccPinForApp", "ENTER_SIM_PIN", dispatchStrings>>,
  <<"supplyIccPukForApp", "ENTER_SIM_PUK", dispatchStrings>>,
  <<"supplyIccPin2ForApp", "ENTER_SIM_PIN2", dispatchStrings>>,
  <<"supplyIccPuk2ForApp", "ENTER_SIM_PUK2", dispatchStrings>>,
  <<"changeIccPinForApp", "CHANGE_SIM_PIN", dispatchStrings>>,
  <<"changeIccPin2ForApp", "CHANGE_SIM_PIN2", dispatchStrings>>,
  <<"supplyNetworkDepersonalization", "ENTER_NETWORK_DEPERSONALIZATION", dispatchStrings>>,
  <<"getCurrentCalls", "GET_CURRENT_CALLS", dispatchVoid>>,
  <<"dial", "DIAL", copyHidlStringToRil>>,
  <<"getImsiForApp", "GET_IMSI", dispatchStrings>>,
  <<"hangup", "HANGUP", dispatchInts>>}

CallsAndRegistrationMethods == {
  <<"hangupWaitingOrBackground", "HANGUP_WAITING_OR_BACKGROUND", dispatchVoid>>,
  <<"hangupForegroundResumeBackground", "HANGUP_FOREGROUND_RESUME_BACKGROUND", dispatchVoid>>,
  <<"switchWaitingOrHoldingAndActive", "SWITCH_WAITING_OR_HOLDING_AND_ACTIVE", dispatchVoid>>,
  <<"conference", "CONFERENCE", dispatchVoid>>,
  <<"rejectCall", "UDUB", dispatchVoid>>,
  <<"getLastCallFailCause", "LAST_CALL_FAIL_CAUSE", dispatchVoid>>,
  <<"getSignalStrength", "SIGNAL_STRENGTH", dispatchVoid>>,
  <<"getVoiceRegistrationState", "VOICE_REGISTRATION_STATE", dispatchVoid>>,
  <<"getDataRegistrationState", "DATA_REGISTRATION_STATE", dispatchVoid>>,
  <<"getOperator", "OPERATOR", dispatchVoid>>,
  <<"setRadioPower", "RADIO_POWER", dispatchInts>>,
  <<"sendDtmf", "DTMF", dispatchString>>,
  <<"sendSms", "SEND_SMS", dispatchStrings>>,
  <<"sendSMSExpectMore", "SEND_SMS_EXPECT_MORE", dispatchStrings>>}

DataCallAndUssdMethods == {
  <<"setupDataCall", "SETUP_DATA_CALL", dispatchStrings>>,
  <<"iccIOForApp", "SIM_IO", copyHidlStringToRil>>,
  <<"sendUssd", "SEND_USSD", dispatchString>>,
  <<"cancelPendingUssd", "CANCEL_USSD", dispatchVoid>>,
  <<"getClir", "GET_CLIR", dispatchVoid>>,
  <<"setClir", "SET_CLIR", dispatchInts>>}

SupplementaryServicesMethods == {
  <<"getCallForwardStatus", "QUERY_CALL_FORWARD_STATUS", dispatchCallForwardStatus>>,
  <<"setCallForward", "SET_CALL_FORWARD", dispatchCallForwardStatus>>,
  <<"getCallWaiting", "QUERY_CALL_WAITING", dispatchInts>>,
  <<"setCallWaiting", "SET_CALL_WAITING", dispatchInts>>,
  <<"acknowledgeLastIncomingGsmSms", "SMS_ACKNOWLEDGE", dispatchInts>>,
  <<"acceptCall", "ANSWER", dispatchVoid>>,
  <<"deactivateDataCall", "DEACTIVATE_DATA_CALL", dispatchStrings>>,
  <<"getFacilityLockForApp", "QUERY_FACILITY_LOCK", dispatchStrings>>,
  <<"setFacilityLockForApp", "SET_FACILITY_LOCK", dispatchStrings>>,
  <<"setBarringPassword", "CHANGE_BARRING_PASSWORD", dispatchStrings>>,
  <<"getNetworkSelectionMode", "QUERY_NETWORK_SELECTION_MODE", dispatchVoid>>,
  <<"setNetworkSelectionModeAutomatic", "SET_NETWORK_SELECTION_AUTOMATIC", dispatchVoid>>,
  <<"setNetworkSelectionModeManual", "SET_NETWORK_SELECTION_MANUAL", dispatchString>>,
  <<"getAvailableNetworks", "QUERY_AVAILABLE_NETWORKS", dispatchVoid>>}

ScanAndDtmfMethods == {
  <<"startNetworkScan", "START_NETWORK_SCAN", checkedArguments>>,
  <<"stopNetworkScan", "STOP_NETWORK_SCAN", dispatchVoid>>,
  <<"startDtmf", "DTMF_START", dispatchString>>,
  <<"stopDtmf", "DTMF_STOP", dispatchVoid>>,
  <<"getBasebandVersion", "BASEBAND_VERSION", dispatchVoid>>,
  <<"separateConnection", "SEPARATE_CONNECTION", dispatchInts>>,
  <<"setMute", "SET_MUTE", dispatchInts>>,
  <<"getMute", "GET_MUTE", dispatchVoid>>,
  <<"getClip", "QUERY_CLIP", dispatchVoid>>,
  <<"getDataCallList", "DATA_CALL_LIST", dispatchVoid>>,
  <<"setSuppServiceNotifications", "SET_SUPP_SVC_NOTIFICATION", dispatchInts>>}

SmsStorageAndStkMethods == {
  <<"writeSmsToSim", "WRITE_SMS_TO_SIM", copyHidlStringToRil>>,
  <<"deleteSmsOnSim", "DELETE_SMS_ON_SIM", dispatchInts>>,
  <<"setBandMode", "SET_BAND_MODE", dispatchInts>>,
  <<"getAvailableBandModes", "QUERY_AVAILABLE_BAND_MODE", dispatchVoid>>,
  <<"sendEnvelope", "STK_SEND_ENVELOPE_COMMAND", dispatchString>>,
  <<"sendTerminalResponseToSim", "STK_SEND_TERMINAL_RESPONSE", dispatchString>>,
  <<"handleStkCallSetupRequestFromSim", "STK_HANDLE_CALL_SETUP_REQUESTED_FROM_SIM", dispatchInts>>,
  <<"explicitCallTransfer", "EXPLICIT_CALL_TRANSFER", dispatchVoid>>,
  <<"setPreferredNetworkType", "SET_PREFERRED_NETWORK_TYPE", dispatchInts>>,
  <<"getPreferredNetworkType", "GET_PREFERRED_NETWORK_TYPE", dispatchVoid>>,
  <<"getNeighboringCids", "GET_NEIGHBORING_CELL_IDS", dispatchVoid>>,
  <<"setLocationUpdates", "SET_LOCATION_UPDATES", dispatchInts>>,
  <<"setCdmaSubscriptionSource", "CDMA_SET_SUBSCRIPTION_SOURCE", dispatchInts>>,
  <<"setCdmaRoamingPreference", "CDMA_SET_ROAMING_PREFERENCE", dispatchInts>>,
  <<"getCdmaRoamingPreference", "CDMA_QUERY_ROAMING_PREFERENCE", dispatchVoid>>}

CdmaSettingsMethods == {
  <<"setTTYMode", "SET_TTY_MODE", dispatchInts>>,
  <<"getTTYMode", "QUERY_TTY_MODE", dispatchVoid>>,
  <<"setPreferredVoicePrivacy", "CDMA_SET_PREFERRED_VOICE_PRIVACY_MODE", dispatchInts>>,
  <<"getPreferredVoicePrivacy", "CDMA_QUERY_PREFERRED_VOICE_PRIVACY_MODE", dispatchVoid>>,
  <<"sendCDMAFeatureCode", "CDMA_FLASH", dispatchString>>,
  <<"sendBurstDtmf", "CDMA_BURST_DTMF", dispatchStrings>>,
  <<"sendCdmaSms", "CDMA_SEND_SMS", plainStruct>>,
  <<"acknowledgeLastIncomingCdmaSms", "CDMA_SMS_ACKNOWLEDGE", plainStruct>>}

BroadcastSmsMethods == {
  <<"getGsmBroadcastConfig", "GSM_GET_BROADCAST_SMS_CONFIG", dispatchVoid>>,
  <<"setGsmBroadcastConfig", "GSM_SET_BROADCAST_SMS_CONFIG", checkedArguments>>,
  <<"setGsmBroadcastActivation", "GSM_SMS_BROADCAST_ACTIVATION", dispatchInts>>,
  <<"getCdmaBroadcastConfig", "CDMA_GET_BROADCAST_SMS_CONFIG", dispatchVoid>>,
  <<"setCdmaBroadcastConfig", "CDMA_SET_BROADCAST_SMS_CONFIG", checkedArguments>>,
  <<"setCdmaBroadcastActivation", "CDMA_SMS_BROADCAST_ACTIVATION", dispatchInts>>,
  <<"getCDMASubscription", "CDMA_SUBSCRIPTION", dispatchVoid>>,
  <<"writeSmsToRuim", "CDMA_WRITE_SMS_TO_RUIM", plainStruct>>,
  <<"deleteSmsOnRuim", "CDMA_DELETE_SMS_ON_RUIM", dispatchInts>>}

IdentityAndStkMethods == {
  <<"getDeviceIdentity", "DEVICE_IDENTITY", dispatchVoid>>,
  <<"exitEmergencyCallbackMode", "EXIT_EMERGENCY_CALLBACK_MODE", dispatchVoid>>,
  <<"getSmscAddress", "GET_SMSC_ADDRESS", dispatchVoid>>,
  <<"setSmscAddress", "SET_SMSC_ADDRESS", dispatchString>>,
  <<"reportSmsMemoryStatus", "REPORT_SMS_MEMORY_STATUS", dispatchInts>>,
  <<"reportStkServiceIsRunning", "REPORT_STK_SERVICE_IS_RUNNING", dispatchVoid>>,
  <<"getCdmaSubscriptionSource", "CDMA_GET_SUBSCRIPTION_SOURCE", dispatchVoid>>,
  <<"requestIsimAuthentication", "ISIM_AUTHENTICATION", dispatchString>>,
  <<"acknowledgeIncomingGsmSmsWithPdu", "ACKNOWLEDGE_INCOMING_GSM_SMS_WITH_PDU", dispatchStrings>>,
  <<"sendEnvelopeWithStatus", "STK_SEND_ENVELOPE_WITH_STATUS", dispatchString>>,
  <<"getVoiceRadioTechnology", "VOICE_RADIO_TECH", dispatchVoid>>,
  <<"getCellInfoList", "GET_CELL_INFO_LIST", dispatchVoid>>,
  <<"setCellInfoListRate", "SET_UNSOL_CELL_INFO_LIST_RATE", dispatchInts>>}

AttachApnMethods == {
  <<"setInitialAttachApn", "SET_INITIAL_ATTACH_APN", copyHidlStringToRil>>,
  <<"getImsRegistrationState", "IMS_REGISTRATION_STATE", dispatchVoid>>}

ImsSmsMethods == {
  <<"sendImsSms", "IMS_SEND_SMS", imsSms>>}

SimChannelsAndNvMethods == {
  <<"iccTransmitApduBasicChannel", "SIM_TRANSMIT_APDU_BASIC", dispatchIccApdu>>,
  <<"iccOpenLogicalChannel", "SIM_OPEN_CHANNEL", dispatchString>>,
  <<"iccCloseLogicalChannel", "SIM_CLOSE_CHANNEL", dispatchInts>>,
  <<"iccTransmitApduLogicalChannel", "SIM_TRANSMIT_APDU_CHANNEL", dispatchIccApdu>>,
  <<"nvReadItem", "NV_READ_ITEM", plainStruct>>,
  <<"nvWriteItem", "NV_WRITE_ITEM", copyHidlStringToRil>>,
  <<"nvWriteCdmaPrl", "NV_WRITE_CDMA_PRL", dispatchRaw>>,
  <<"nvResetConfig", "NV_RESET_CONFIG", dispatchInts>>}

SubscriptionAndAuthMethods == {
  <<"setUiccSubscription", "SET_UICC_SUBSCRIPTION", plainStruct>>,
  <<"setDataAllowed", "ALLOW_DATA", dispatchInts>>,
  <<"getHardwareConfig", "GET_HARDWARE_CONFIG", dispatchVoid>>,
  <<"requestIccSimAuthentication", "SIM_AUTHENTICATION", copyHidlStringToRil>>}

DataProfileMethods == {
  <<"setDataProfile", "SET_DATA_PROFILE", dispatchStrings>>}

CapabilityAndCarriersMethods == {
  <<"requestShutdown", "SHUTDOWN", dispatchVoid>>,
  <<"getRadioCapability", "GET_RADIO_CAPABILITY", dispatchVoid>>,
  <<"setRadioCapability", "SET_RADIO_CAPABILITY", plainStruct>>,
  <<"startLceService", "START_LCE", dispatchInts>>,
  <<"stopLceService", "STOP_LCE", dispatchVoid>>,
  <<"pullLceData", "PULL_LCEDATA", dispatchVoid>>,
  <<"getModemActivityInfo", "GET_ACTIVITY_INFO", dispatchVoid>>,
  <<"setAllowedCarriers", "SET_CARRIER_RESTRICTIONS", dispatchInts>>}

DeviceStateAndKeepaliveMethods == {
  <<"getAllowedCarriers", "GET_CARRIER_RESTRICTIONS", dispatchVoid>>,
  <<"sendDeviceState", "SCREEN_STATE", dispatchInts>>,
  <<"sendDeviceState", "SEND_DEVICE_STATE", notSupported>>,
  <<"setIndicationFilter", "SET_UNSOLICITED_RESPONSE_FILTER", notSupported>>,
  <<"setSimCardPower", "SET_SIM_CARD_POWER", dispatchInts>>,
  <<"setSimCardPower_1_1", "SET_SIM_CARD_POWER", dispatchInts>>,
  <<"setCarrierInfoForImsiEncryption", "SET_CARRIER_INFO_IMSI_ENCRYPTION", copyHidlStringToRil>>,
  <<"startKeepalive", "START_KEEPALIVE", checkedArguments>>,
  <<"stopKeepalive", "STOP_KEEPALIVE", plainStruct>>}
RadioMethods ==
  SimPinAndDialMethods \cup CallsAndRegistrationMethods
  \cup DataCallAndUssdMethods \cup SupplementaryServicesMethods
  \cup ScanAndDtmfMethods \cup SmsStorageAndStkMethods
  \cup CdmaSettingsMethods \cup BroadcastSmsMethods
  \cup IdentityAndStkMethods \cup AttachApnMethods \cup ImsSmsMethods
  \cup SimChannelsAndNvMethods \cup SubscriptionAndAuthMethods
  \cup DataProfileMethods \cup CapabilityAndCarriersMethods
  \cup DeviceStateAndKeepaliveMethods

(* <<request, response function>>, without the requests no method makes.   *)
s_commands == {
  <<"GET_SIM_STATUS", "getIccCardStatusResponse">>,
  <<"ENTER_SIM_PIN", "supplyIccPinForAppResponse">>,
  <<"ENTER_SIM_PUK", "supplyIccPukForAppResponse">>,
  <<"ENTER_SIM_PIN2", "supplyIccPin2ForAppResponse">>,
  <<"ENTER_SIM_PUK2", "supplyIccPuk2ForAppResponse">>,
  <<"CHANGE_SIM_PIN", "changeIccPinForAppResponse">>,
  <<"CHANGE_SIM_PIN2", "changeIccPin2ForAppResponse">>,
  <<"ENTER_NETWORK_DEPERSONALIZATION", "supplyNetworkDepersonalizationResponse">>,
  <<"GET_CURRENT_CALLS", "getCurrentCallsResponse">>,
  <<"DIAL", "dialResponse">>, <<"GET_IMSI", "getIMSIForAppResponse">>,
  <<"HANGUP", "hangupConnectionResponse">>,
  <<"HANGUP_WAITING_OR_BACKGROUND", "hangupWaitingOrBackgroundResponse">>,
  <<"HANGUP_FOREGROUND_RESUME_BACKGROUND", "hangupForegroundResumeBackgroundResponse">>,
  <<"SWITCH_WAITING_OR_HOLDING_AND_ACTIVE", "switchWaitingOrHoldingAndActiveResponse">>,
  <<"CONFERENCE", "conferenceResponse">>, <<"UDUB", "rejectCallResponse">>,
  <<"LAST_CALL_FAIL_CAUSE", "getLastCallFailCauseResponse">>,
  <<"SIGNAL_STRENGTH", "getSignalStrengthResponse">>,
  <<"VOICE_REGISTRATION_STATE", "getVoiceRegistrationStateResponse">>,
  <<"DATA_REGISTRATION_STATE", "getDataRegistrationStateResponse">>,
  <<"OPERATOR", "getOperatorResponse">>,
  <<"RADIO_POWER", "setRadioPowerResponse">>, <<"DTMF", "sendDtmfResponse">>,
  <<"SEND_SMS", "sendSmsResponse">>,
  <<"SEND_SMS_EXPECT_MORE", "sendSMSExpectMoreResponse">>,
  <<"SETUP_DATA_CALL", "setupDataCallResponse">>,
  <<"SIM_IO", "iccIOForAppResponse">>, <<"SEND_USSD", "sendUssdResponse">>,
  <<"CANCEL_USSD", "cancelPendingUssdResponse">>,
  <<"GET_CLIR", "getClirResponse">>, <<"SET_CLIR", "setClirResponse">>,
  <<"QUERY_CALL_FORWARD_STATUS", "getCallForwardStatusResponse">>,
  <<"SET_CALL_FORWARD", "setCallForwardResponse">>,
  <<"QUERY_CALL_WAITING", "getCallWaitingResponse">>,
  <<"SET_CALL_WAITING", "setCallWaitingResponse">>,
  <<"SMS_ACKNOWLEDGE", "acknowledgeLastIncomingGsmSmsResponse">>,
  <<"ANSWER", "acceptCallResponse">>,
  <<"DEACTIVATE_DATA_CALL", "deactivateDataCallResponse">>,
  <<"QUERY_FACILITY_LOCK", "getFacilityLockForAppResponse">>,
  <<"SET_FACILITY_LOCK", "setFacilityLockForAppResponse">>,
  <<"CHANGE_BARRING_PASSWORD", "setBarringPasswordResponse">>,
  <<"QUERY_NETWORK_SELECTION_MODE", "getNetworkSelectionModeResponse">>,
  <<"SET_NETWORK_SELECTION_AUTOMATIC", "setNetworkSelectionModeAutomaticResponse">>,
  <<"SET_NETWORK_SELECTION_MANUAL", "setNetworkSelectionModeManualResponse">>,
  <<"QUERY_AVAILABLE_NETWORKS", "getAvailableNetworksResponse">>,
  <<"DTMF_START", "startDtmfResponse">>, <<"DTMF_STOP", "stopDtmfResponse">>,
  <<"BASEBAND_VERSION", "getBasebandVersionResponse">>,
  <<"SEPARATE_CONNECTION", "separateConnectionResponse">>,
  <<"SET_MUTE", "setMuteResponse">>, <<"GET_MUTE", "getMuteResponse">>,
  <<"QUERY_CLIP", "getClipResponse">>,
  <<"DATA_CALL_LIST", "getDataCallListResponse">>,
  <<"SCREEN_STATE", "sendDeviceStateResponse">>,
  <<"SET_SUPP_SVC_NOTIFICATION", "setSuppServiceNotificationsResponse">>,
  <<"WRITE_SMS_TO_SIM", "writeSmsToSimResponse">>,
  <<"DELETE_SMS_ON_SIM", "deleteSmsOnSimResponse">>,
  <<"SET_BAND_MODE", "setBandModeResponse">>,
  <<"QUERY_AVAILABLE_BAND_MODE", "getAvailableBandModesResponse">>,
  <<"STK_SEND_ENVELOPE_COMMAND", "sendEnvelopeResponse">>,
  <<"STK_SEND_TERMINAL_RESPONSE", "sendTerminalResponseToSimResponse">>,
  <<"STK_HANDLE_CALL_SETUP_REQUESTED_FROM_SIM", "handleStkCallSetupRequestFromSimResponse">>,
  <<"EXPLICIT_CALL_TRANSFER", "explicitCallTransferResponse">>,
  <<"SET_PREFERRED_NETWORK_TYPE", "setPreferredNetworkTypeResponse">>,
  <<"GET_PREFERRED_NETWORK_TYPE", "getPreferredNetworkTypeResponse">>,
  <<"GET_NEIGHBORING_CELL_IDS", "getNeighboringCidsResponse">>,
  <<"SET_LOCATION_UPDATES", "setLocationUpdatesResponse">>,
  <<"CDMA_SET_SUBSCRIPTION_SOURCE", "setCdmaSubscriptionSourceResponse">>,
  <<"CDMA_SET_ROAMING_PREFERENCE", "setCdmaRoamingPreferenceResponse">>,
  <<"CDMA_QUERY_ROAMING_PREFERENCE", "getCdmaRoamingPreferenceResponse">>,
  <<"SET_TTY_MODE", "setTTYModeResponse">>,
  <<"QUERY_TTY_MODE", "getTTYModeResponse">>,
  <<"CDMA_SET_PREFERRED_VOICE_PRIVACY_MODE", "setPreferredVoicePrivacyResponse">>,
  <<"CDMA_QUERY_PREFERRED_VOICE_PRIVACY_MODE", "getPreferredVoicePrivacyResponse">>,
  <<"CDMA_FLASH", "sendCDMAFeatureCodeResponse">>,
  <<"CDMA_BURST_DTMF", "sendBurstDtmfResponse">>,
  <<"CDMA_SEND_SMS", "sendCdmaSmsResponse">>,
  <<"CDMA_SMS_ACKNOWLEDGE", "acknowledgeLastIncomingCdmaSmsResponse">>,
  <<"GSM_GET_BROADCAST_SMS_CONFIG", "getGsmBroadcastConfigResponse">>,
  <<"GSM_SET_BROADCAST_SMS_CONFIG", "setGsmBroadcastConfigResponse">>,
  <<"GSM_SMS_BROADCAST_ACTIVATION", "setGsmBroadcastActivationResponse">>,
  <<"CDMA_GET_BROADCAST_SMS_CONFIG", "getCdmaBroadcastConfigResponse">>,
  <<"CDMA_SET_BROADCAST_SMS_CONFIG", "setCdmaBroadcastConfigResponse">>,
  <<"CDMA_SMS_BROADCAST_ACTIVATION", "setCdmaBroadcastActivationResponse">>,
  <<"CDMA_SUBSCRIPTION", "getCDMASubscriptionResponse">>,
  <<"CDMA_WRITE_SMS_TO_RUIM", "writeSmsToRuimResponse">>,
  <<"CDMA_DELETE_SMS_ON_RUIM", "deleteSmsOnRuimResponse">>,
  <<"DEVICE_IDENTITY", "getDeviceIdentityResponse">>,
  <<"EXIT_EMERGENCY_CALLBACK_MODE", "exitEmergencyCallbackModeResponse">>,
  <<"GET_SMSC_ADDRESS", "getSmscAddressResponse">>,
  <<"SET_SMSC_ADDRESS", "setSmscAddressResponse">>,
  <<"REPORT_SMS_MEMORY_STATUS", "reportSmsMemoryStatusResponse">>,
  <<"REPORT_STK_SERVICE_IS_RUNNING", "reportStkServiceIsRunningResponse">>,
  <<"CDMA_GET_SUBSCRIPTION_SOURCE", "getCdmaSubscriptionSourceResponse">>,
  <<"ISIM_AUTHENTICATION", "requestIsimAuthenticationResponse">>,
  <<"ACKNOWLEDGE_INCOMING_GSM_SMS_WITH_PDU", "acknowledgeIncomingGsmSmsWithPduResponse">>,
  <<"STK_SEND_ENVELOPE_WITH_STATUS", "sendEnvelopeWithStatusResponse">>,
  <<"VOICE_RADIO_TECH", "getVoiceRadioTechnologyResponse">>,
  <<"GET_CELL_INFO_LIST", "getCellInfoListResponse">>,
  <<"SET_UNSOL_CELL_INFO_LIST_RATE", "setCellInfoListRateResponse">>,
  <<"SET_INITIAL_ATTACH_APN", "setInitialAttachApnResponse">>,
  <<"IMS_REGISTRATION_STATE", "getImsRegistrationStateResponse">>,
  <<"IMS_SEND_SMS", "sendImsSmsResponse">>,
  <<"SIM_TRANSMIT_APDU_BASIC", "iccTransmitApduBasicChannelResponse">>,
  <<"SIM_OPEN_CHANNEL", "iccOpenLogicalChannelResponse">>,
  <<"SIM_CLOSE_CHANNEL", "iccCloseLogicalChannelResponse">>,
  <<"SIM_TRANSMIT_APDU_CHANNEL", "iccTransmitApduLogicalChannelResponse">>,
  <<"NV_READ_ITEM", "nvReadItemResponse">>,
  <<"NV_WRITE_ITEM", "nvWriteItemResponse">>,
  <<"NV_WRITE_CDMA_PRL", "nvWriteCdmaPrlResponse">>,
  <<"NV_RESET_CONFIG", "nvResetConfigResponse">>,
  <<"SET_UICC_SUBSCRIPTION", "setUiccSubscriptionResponse">>,
  <<"ALLOW_DATA", "setDataAllowedResponse">>,
  <<"GET_HARDWARE_CONFIG", "getHardwareConfigResponse">>,
  <<"SIM_AUTHENTICATION", "requestIccSimAuthenticationResponse">>,
  <<"SET_DATA_PROFILE", "setDataProfileResponse">>,
  <<"SHUTDOWN", "requestShutdownResponse">>,
  <<"GET_RADIO_CAPABILITY", "getRadioCapabilityResponse">>,
  <<"SET_RADIO_CAPABILITY", "setRadioCapabilityResponse">>,
  <<"START_LCE", "startLceServiceResponse">>,
  <<"STOP_LCE", "stopLceServiceResponse">>,
  <<"PULL_LCEDATA", "pullLceDataResponse">>,
  <<"GET_ACTIVITY_INFO", "getModemActivityInfoResponse">>,
  <<"SET_CARRIER_RESTRICTIONS", "setAllowedCarriersResponse">>,
  <<"GET_CARRIER_RESTRICTIONS", "getAllowedCarriersResponse">>,
  <<"SEND_DEVICE_STATE", "sendDeviceStateResponse">>,
  <<"SET_UNSOLICITED_RESPONSE_FILTER", "setIndicationFilterResponse">>,
  <<"SET_SIM_CARD_POWER", "setSimCardPowerResponse">>,
  <<"SET_CARRIER_INFO_IMSI_ENCRYPTION", "setCarrierInfoForImsiEncryptionResponse">>,
  <<"START_NETWORK_SCAN", "startNetworkScanResponse">>,
  <<"STOP_NETWORK_SCAN", "stopNetworkScanResponse">>,
  <<"START_KEEPALIVE", "startKeepaliveResponse">>,
  <<"STOP_KEEPALIVE", "stopKeepaliveResponse">>}

(* The payloads a vendor RIL completes a request with: NULL, or a block of *)
(* the size of one of these.                                               *)
Payloads == {
  "null", "int", "ints2", "ints3", "text", "strings3", "strings4", "strings5",
  "strings6", "strings15", "CardStatus_v6", "Calls", "SignalStrength_v10",
  "DataCalls_v11", "SMS_Response", "SIM_IO_Response", "CellInfos_v12",
  "HardwareConfigs", "RadioCapability", "ActivityStatsInfo"}

(* The payloads a response function reads; with any other one it reports   *)
(* a success as an INVALID_RESPONSE.                                       *)
anything == Payloads
Exactly(kind) == {kind}
ListOf(kind) == {"null", kind}
ints == {"null", "int", "ints2", "ints3"}
responseInt == {"int"}
responseIntOrEmpty == {"null", "int"}
makeSendSmsResult == {"SMS_Response"}
responseIccIo == {"SIM_IO_Response"}
responseRadioCapability == {"RadioCapability"}
responseLceStatusInfo == {"LceStatusInfo"}

(* <<response function, payloads it reads>>                                *)
CardAndPinResponses == {
  <<"getIccCardStatusResponse", Exactly("CardStatus_v6")>>,
  <<"supplyIccPinForAppResponse", responseIntOrEmpty>>,
  <<"supplyIccPukForAppResponse", responseIntOrEmpty>>,
  <<"supplyIccPin2ForAppResponse", responseIntOrEmpty>>,
  <<"supplyIccPuk2ForAppResponse", responseIntOrEmpty>>}

PinChangeAndDialResponses == {
  <<"changeIccPinForAppResponse", responseIntOrEmpty>>,
  <<"changeIccPin2ForAppResponse", responseIntOrEmpty>>,
  <<"supplyNetworkDepersonalizationResponse", responseIntOrEmpty>>,
  <<"getCurrentCallsResponse", ListOf("Calls")>>,
  <<"dialResponse", anything>>}

CallControlResponses == {
  <<"getIMSIForAppResponse", anything>>,
  <<"hangupConnectionResponse", anything>>,
  <<"hangupWaitingOrBackgroundResponse", anything>>,
  <<"hangupForegroundResumeBackgroundResponse", anything>>,
  <<"switchWaitingOrHoldingAndActiveResponse", anything>>,
  <<"conferenceResponse", anything>>, <<"rejectCallResponse", anything>>}

FailCauseAndSignalResponses == {
  <<"getLastCallFailCauseResponse", {"int", "LastCallFailCauseInfo"}>>,
  <<"getSignalStrengthResponse", Exactly("SignalStrength_v10")>>}

VoiceRegistrationResponses == {
  <<"getVoiceRegistrationStateResponse", Exactly("strings15")>>}

RegistrationAndPowerResponses == {
  <<"getDataRegistrationStateResponse", {"strings6", "strings11", "strings13"}>>,
  <<"getOperatorResponse", Exactly("strings3")>>,
  <<"setRadioPowerResponse", anything>>}

SendSmsAndDataCallResponses == {
  <<"sendDtmfResponse", anything>>, <<"sendSmsResponse", makeSendSmsResult>>,
  <<"sendSMSExpectMoreResponse", makeSendSmsResult>>,
  <<"setupDataCallResponse", ListOf("DataCalls_v11")>>}

SimIoAndUssdResponses == {
  <<"iccIOForAppResponse", responseIccIo>>, <<"sendUssdResponse", anything>>,
  <<"cancelPendingUssdResponse", anything>>,
  <<"getClirResponse", Exactly("ints2")>>, <<"setClirResponse", anything>>}

ForwardingAndWaitingResponses == {
  <<"getCallForwardStatusResponse", ListOf("CallForwardInfos")>>,
  <<"setCallForwardResponse", anything>>,
  <<"getCallWaitingResponse", Exactly("ints2")>>,
  <<"setCallWaitingResponse", anything>>,
  <<"acknowledgeLastIncomingGsmSmsResponse", anything>>}

AnswerAndLocksResponses == {
  <<"acceptCallResponse", anything>>,
  <<"deactivateDataCallResponse", anything>>,
  <<"getFacilityLockForAppResponse", responseInt>>,
  <<"setFacilityLockForAppResponse", responseIntOrEmpty>>,
  <<"setBarringPasswordResponse", anything>>,
  <<"getNetworkSelectionModeResponse", responseInt>>}

NetworkSelectionResponses == {
  <<"setNetworkSelectionModeAutomaticResponse", anything>>,
  <<"setNetworkSelectionModeManualResponse", anything>>,
  <<"getAvailableNetworksResponse", ListOf("strings4n")>>,
  <<"startDtmfResponse", anything>>, <<"stopDtmfResponse", anything>>}

MuteAndDataCallsResponses == {
  <<"getBasebandVersionResponse", anything>>,
  <<"separateConnectionResponse", anything>>,
  <<"setMuteResponse", anything>>, <<"getMuteResponse", responseInt>>,
  <<"getClipResponse", responseInt>>,
  <<"getDataCallListResponse", ListOf("DataCalls_v11")>>}

SmsStorageResponses == {
  <<"setSuppServiceNotificationsResponse", anything>>,
  <<"deleteSmsOnSimResponse", anything>>,
  <<"setBandModeResponse", anything>>,
  <<"writeSmsToSimResponse", responseInt>>,
  <<"getAvailableBandModesResponse", ints>>,
  <<"sendEnvelopeResponse", anything>>}

StkAndNetworkTypeResponses == {
  <<"sendTerminalResponseToSimResponse", anything>>,
  <<"handleStkCallSetupRequestFromSimResponse", anything>>,
  <<"explicitCallTransferResponse", anything>>,
  <<"setPreferredNetworkTypeResponse", anything>>,
  <<"getPreferredNetworkTypeResponse", responseInt>>,
  <<"getNeighboringCidsResponse", ListOf("NeighboringCells")>>}

CdmaPreferenceResponses == {
  <<"setLocationUpdatesResponse", anything>>,
  <<"setCdmaSubscriptionSourceResponse", anything>>,
  <<"setCdmaRoamingPreferenceResponse", anything>>,
  <<"getCdmaRoamingPreferenceResponse", responseInt>>,
  <<"setTTYModeResponse", anything>>, <<"getTTYModeResponse", responseInt>>,
  <<"setPreferredVoicePrivacyResponse", anything>>}

CdmaCallResponses == {
  <<"getPreferredVoicePrivacyResponse", responseInt>>,
  <<"sendCDMAFeatureCodeResponse", anything>>,
  <<"sendBurstDtmfResponse", anything>>,
  <<"sendCdmaSmsResponse", makeSendSmsResult>>,
  <<"acknowledgeLastIncomingCdmaSmsResponse", anything>>}

BroadcastConfigResponses == {
  <<"getGsmBroadcastConfigResponse", ListOf("BroadcastConfigs")>>,
  <<"setGsmBroadcastConfigResponse", anything>>,
  <<"setGsmBroadcastActivationResponse", anything>>,
  <<"getCdmaBroadcastConfigResponse", ListOf("BroadcastConfigs")>>,
  <<"setCdmaBroadcastConfigResponse", anything>>}

CdmaIdentityResponses == {
  <<"setCdmaBroadcastActivationResponse", anything>>,
  <<"getCDMASubscriptionResponse", Exactly("strings5")>>,
  <<"writeSmsToRuimResponse", responseInt>>,
  <<"deleteSmsOnRuimResponse", anything>>,
  <<"getDeviceIdentityResponse", Exactly("strings4")>>}

SmscAndIsimResponses == {
  <<"exitEmergencyCallbackModeResponse", anything>>,
  <<"getSmscAddressResponse", anything>>,
  <<"setSmscAddressResponse", anything>>,
  <<"reportSmsMemoryStatusResponse", anything>>,
  <<"reportStkServiceIsRunningResponse", anything>>,
  <<"getCdmaSubscriptionSourceResponse", responseInt>>,
  <<"requestIsimAuthenticationResponse", anything>>}

CellInfoResponses == {
  <<"acknowledgeIncomingGsmSmsWithPduResponse", anything>>,
  <<"sendEnvelopeWithStatusResponse", responseIccIo>>,
  <<"getVoiceRadioTechnologyResponse", responseInt>>,
  <<"getCellInfoListResponse", ListOf("CellInfos_v12")>>,
  <<"setCellInfoListRateResponse", anything>>,
  <<"setInitialAttachApnResponse", anything>>}

ImsAndChannelResponses == {
  <<"getImsRegistrationStateResponse", Exactly("ints2")>>,
  <<"sendImsSmsResponse", makeSendSmsResult>>,
  <<"iccTransmitApduBasicChannelResponse", responseIccIo>>,
  <<"iccOpenLogicalChannelResponse", ints>>,
  <<"iccCloseLogicalChannelResponse", anything>>}

NvAndUiccResponses == {
  <<"iccTransmitApduLogicalChannelResponse", responseIccIo>>,
  <<"nvReadItemResponse", anything>>, <<"nvWriteItemResponse", anything>>,
  <<"nvWriteCdmaPrlResponse", anything>>,
  <<"nvResetConfigResponse", anything>>,
  <<"setUiccSubscriptionResponse", anything>>,
  <<"setDataAllowedResponse", anything>>}

HardwareAndProfileResponses == {
  <<"getHardwareConfigResponse", ListOf("HardwareConfigs")>>,
  <<"requestIccSimAuthenticationResponse", responseIccIo>>,
  <<"setDataProfileResponse", anything>>,
  <<"requestShutdownResponse", anything>>,
  <<"getRadioCapabilityResponse", responseRadioCapability>>,
  <<"setRadioCapabilityResponse", responseRadioCapability>>}

LceAndCarriersResponses == {
  <<"startLceServiceResponse", responseLceStatusInfo>>,
  <<"stopLceServiceResponse", responseLceStatusInfo>>,
  <<"pullLceDataResponse", Exactly("LceDataInfo")>>,
  <<"getModemActivityInfoResponse", Exactly("ActivityStatsInfo")>>,
  <<"setAllowedCarriersResponse", responseInt>>}

CarriersAndSimPowerResponses == {
  <<"getAllowedCarriersResponse", ListOf("CarrierRestrictions")>>,
  <<"sendDeviceStateResponse", anything>>,
  <<"setCarrierInfoForImsiEncryptionResponse", anything>>,
  <<"setIndicationFilterResponse", anything>>,
  <<"setSimCardPowerResponse", anything>>}

ScanAndKeepaliveResponses == {
  <<"startNetworkScanResponse", anything>>,
  <<"stopNetworkScanResponse", anything>>,
  <<"startKeepaliveResponse", Exactly("KeepaliveStatus")>>,
  <<"stopKeepaliveResponse", anything>>}

ResponseTable ==
  CardAndPinResponses \cup PinChangeAndDialResponses
  \cup CallControlResponses \cup FailCauseAndSignalResponses
  \cup VoiceRegistrationResponses \cup RegistrationAndPowerResponses
  \cup SendSmsAndDataCallResponses \cup SimIoAndUssdResponses
  \cup ForwardingAndWaitingResponses \cup AnswerAndLocksResponses
  \cup NetworkSelectionResponses \cup MuteAndDataCallsResponses
  \cup SmsStorageResponses \cup StkAndNetworkTypeResponses
  \cup CdmaPreferenceResponses \cup CdmaCallResponses
  \cup BroadcastConfigResponses \cup CdmaIdentityResponses
  \cup SmscAndIsimResponses \cup CellInfoResponses
  \cup ImsAndChannelResponses \cup NvAndUiccResponses
  \cup HardwareAndProfileResponses \cup LceAndCarriersResponses
  \cup CarriersAndSimPowerResponses \cup ScanAndKeepaliveResponses

(* Response functions whose callback a 1.0 client does not have.           *)
OnlyV1_1 == {
  "setCarrierInfoForImsiEncryptionResponse", "startNetworkScanResponse",
  "stopNetworkScanResponse", "startKeepaliveResponse", "stopKeepaliveResponse"}

ResponseFunction ==
  [request \in {row[1] : row \in s_commands} |->
     (CHOOSE row \in s_commands : row[1] = request)[2]]

Reads ==
  [f \in {row[1] : row \in ResponseTable} |->
     (CHOOSE row \in ResponseTable : row[1] = f)[2]]

(* Every request a method makes has one response function, and that has    *)
(* one row of payloads: no lookup of s_commands meets an empty entry.      *)
ASSUME TablesComplete ==
  /\ \A row \in RadioMethods : row[2] \in DOMAIN ResponseFunction
  /\ \A row \in s_commands : row[2] \in DOMAIN Reads
  /\ \A r1, r2 \in s_commands : r1[1] = r2[1] => r1 = r2
  /\ \A r1, r2 \in ResponseTable : r1[1] = r2[1] => r1 = r2
==============================================================================
