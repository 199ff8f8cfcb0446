----------------------------- MODULE RilHandlers -----------------------------
(***************************************************************************)
(* What reference-ril.c makes of a request: the sequences of completions   *)
(* (calls of RIL_onRequestComplete, each an error and a payload) that a    *)
(* handler can make before it returns.  What the modem, the SIM and the    *)
(* kernel answer, and the arguments, are left open, so that a handler is   *)
(* the set of the sequences of its paths.                                  *)
(***************************************************************************)
EXTENDS Sequences, RadioDispatch

(* The errors of the handlers; SW2 is a status word of the card.           *)
Errors == {
  "SUCCESS", "GENERIC_FAILURE", "RADIO_NOT_AVAILABLE", "REQUEST_NOT_SUPPORTED",
  "SIM_ABSENT", "MODEM_ERR", "MODE_NOT_SUPPORTED", "SMS_SEND_FAIL_RETRY",
  "INVALID_ARGUMENTS", "PASSWORD_INCORRECT", "LCE_NOT_SUPPORTED", "SW2"}

Completion == [error : Errors, payload : Payloads]

(* The completions of a path: one without a payload, one with a payload.   *)
Done(error) == <<[error |-> error, payload |-> "null"]>>
With(error, payload) == <<[error |-> error, payload |-> payload]>>

Failure == Done("GENERIC_FAILURE")
Success == Done("SUCCESS")

requestRadioPower == {Success, Failure}
requestShutdown == {Success}
requestCallSelection == {Done("RADIO_NOT_AVAILABLE"), Success}
requestOrSendDataCallList == {Failure, With("SUCCESS", "DataCalls_v11")}
setNetworkSelectionAutomatic == {Done("RADIO_NOT_AVAILABLE"), Failure, Success}
requestQueryNetworkSelectionMode == {Failure, With("SUCCESS", "int")}
requestGetCurrentCalls == {Failure, With("SUCCESS", "Calls")}
requestDial == {Success}
requestWriteSmsToSim == {Done("SIM_ABSENT"), Success, Failure}
requestHangup == {Done("MODEM_ERR"), Success}

(* When AT+CSQ fails the request is completed, and again at the label.     *)
requestSignalStrength ==
  {Failure \o Failure, Failure, With("SUCCESS", "SignalStrength_v10")}

requestSetPreferredNetworkType == {Done("MODE_NOT_SUPPORTED"), Failure, Success}
requestGetPreferredNetworkType == {Failure, With("SUCCESS", "int")}
requestCdmaBaseBandVersion == {With("SUCCESS", "text")}
requestDeviceIdentity == {Failure, With("SUCCESS", "strings4")}
requestCdmaGetSubscriptionSource == {Failure, With("SUCCESS", "int")}
requestCdmaSetSubscriptionSource == {Failure, Success}
requestCdmaSubscription == {With("SUCCESS", "strings5")}
requestCdmaGetRoamingPreference == {Failure, With("SUCCESS", "int")}
requestCdmaSetRoamingPreference == {Failure, Success}
requestVoiceRegistrationState == {Failure, With("SUCCESS", "strings15")}
requestDataRegistrationState == {Failure, With("SUCCESS", "strings6")}
requestOperator == {Failure, With("SUCCESS", "strings3")}
requestCdmaSendSMS ==
  {Done("SIM_ABSENT"), With("SMS_SEND_FAIL_RETRY", "SMS_Response")}
requestSendSMS ==
  {Done("SIM_ABSENT"), With("SUCCESS", "SMS_Response"),
   With("GENERIC_FAILURE", "SMS_Response"),
   With("SMS_SEND_FAIL_RETRY", "SMS_Response")}
requestImsSendSMS ==
  requestSendSMS \cup requestCdmaSendSMS
    \cup {With("GENERIC_FAILURE", "SMS_Response"),
          With("SMS_SEND_FAIL_RETRY", "SMS_Response")}
requestSimOpenChannel == {Failure, With("SUCCESS", "ints3")}
requestSimCloseChannel == {Failure, Done("INVALID_ARGUMENTS"), Success}
requestSimTransmitApduChannel == {Failure, With("SUCCESS", "SIM_IO_Response")}
requestSetupDataCall == {Failure} \cup requestOrSendDataCallList
setInterfaceState == {"SUCCESS", "GENERIC_FAILURE", "RADIO_NOT_AVAILABLE"}
requestDeactivateDataCall == {Done(e) : e \in setInterfaceState}

(* A good acknowledgement falls through to the error label.                *)
requestSMSAcknowledge ==
  {Done("RADIO_NOT_AVAILABLE"), Success \o Failure, Failure}

requestSIM_IO == {Failure, With("SUCCESS", "SIM_IO_Response")}
(* Mutant: the error path returns without a completion.                    *)
requestEnterSimPinReturns == {<<>>, Success}

requestEnterSimPin == {Done("PASSWORD_INCORRECT"), Success}
requestSendUSSD == {Done("REQUEST_NOT_SUPPORTED")}
requestExitEmergencyMode == {Failure, Success}
requestGetCellInfoList == {With("SUCCESS", "CellInfos_v12")}
requestSetCellInfoListRate == {Success}
requestGetHardwareConfig == {With("SUCCESS", "HardwareConfigs")}
requestGetTtyMode == {With("SUCCESS", "int")}
requestGetRadioCapability == {With("SUCCESS", "RadioCapability")}
(* Mutant: the answer of the modem is left out.                            *)
requestGetMuteDropped == {Success}

requestGetMute == {With("SUCCESS", "int")}
(* The error is the second status word of the card, whatever that is.      *)
requestGetSimAuthentication ==
  {With("SUCCESS", "SIM_IO_Response"), Failure, With("SW2", "SIM_IO_Response")}
requestModemActivityInfo == {Failure, With("SUCCESS", "ActivityStatsInfo")}
requestSetCarrierRestrictions == {Success, Failure}

(* The switch of onRequest, <<request, completions of a path>>.            *)
CardAndCallCases ==
  ({"GET_SIM_STATUS"} \X {With("SUCCESS", "CardStatus_v6")})
    \cup ({"GET_CURRENT_CALLS"} \X requestGetCurrentCalls)
    \cup ({"DIAL"} \X requestDial)
    \cup ({"HANGUP"} \X requestHangup)
    \cup ({"HANGUP_WAITING_OR_BACKGROUND", "HANGUP_FOREGROUND_RESUME_BACKGROUND",
           "SWITCH_WAITING_OR_HOLDING_AND_ACTIVE", "CONFERENCE", "UDUB"}
            \X requestCallSelection)
    \cup ({"ANSWER"} \X {Done("MODEM_ERR"), Success})
    \cup ({"SEPARATE_CONNECTION"}
            \X {Done("RADIO_NOT_AVAILABLE"), Success, Failure})

NetworkAndSmsCases ==
  ({"SIGNAL_STRENGTH"} \X requestSignalStrength)
    \cup ({"VOICE_REGISTRATION_STATE"} \X requestVoiceRegistrationState)
    \cup ({"DATA_REGISTRATION_STATE"} \X requestDataRegistrationState)
    \cup ({"OPERATOR"} \X requestOperator)
    \cup ({"RADIO_POWER"} \X requestRadioPower)
    \cup ({"DTMF"} \X {Success})
    \cup ({"SEND_SMS", "SEND_SMS_EXPECT_MORE"} \X requestSendSMS)
    \cup ({"CDMA_SEND_SMS"} \X requestCdmaSendSMS)
    \cup ({"IMS_SEND_SMS"} \X requestImsSendSMS)

SimAndDataCases ==
  ({"SIM_OPEN_CHANNEL"} \X requestSimOpenChannel)
    \cup ({"SIM_CLOSE_CHANNEL"} \X requestSimCloseChannel)
    \cup ({"SIM_TRANSMIT_APDU_CHANNEL", "SIM_TRANSMIT_APDU_BASIC"}
            \X requestSimTransmitApduChannel)
    \cup ({"SETUP_DATA_CALL"} \X requestSetupDataCall)
    \cup ({"DEACTIVATE_DATA_CALL"} \X requestDeactivateDataCall)
    \cup ({"SMS_ACKNOWLEDGE"} \X requestSMSAcknowledge)
    \cup ({"GET_IMSI"} \X {Failure, With("SUCCESS", "text")})
    \cup ({"SIM_IO"} \X requestSIM_IO)
    \cup ({"SEND_USSD"} \X requestSendUSSD)
    \cup ({"CANCEL_USSD"} \X {Done("RADIO_NOT_AVAILABLE"), Failure,
                              With("SUCCESS", "text")})
    \cup ({"SET_NETWORK_SELECTION_AUTOMATIC"} \X setNetworkSelectionAutomatic)
    \cup ({"DATA_CALL_LIST"} \X requestOrSendDataCallList)
    \cup ({"QUERY_NETWORK_SELECTION_MODE"} \X requestQueryNetworkSelectionMode)

SmsStorageAndPinCases ==
  ({"WRITE_SMS_TO_SIM"} \X requestWriteSmsToSim)
    \cup ({"DELETE_SMS_ON_SIM"} \X {Failure, Success})
    \cup ({"ENTER_SIM_PIN", "ENTER_SIM_PUK", "ENTER_SIM_PIN2", "ENTER_SIM_PUK2",
           "CHANGE_SIM_PIN", "CHANGE_SIM_PIN2"} \X requestEnterSimPin)
    \cup ({"IMS_REGISTRATION_STATE"} \X {With("SUCCESS", "ints2"), Failure})
    \cup ({"VOICE_RADIO_TECH"} \X {Failure, With("SUCCESS", "int")})

SettingsCases ==
  ({"SET_PREFERRED_NETWORK_TYPE"} \X requestSetPreferredNetworkType)
    \cup ({"GET_PREFERRED_NETWORK_TYPE"} \X requestGetPreferredNetworkType)
    \cup ({"GET_CELL_INFO_LIST"} \X requestGetCellInfoList)
    \cup ({"SET_UNSOL_CELL_INFO_LIST_RATE"} \X requestSetCellInfoListRate)
    \cup ({"GET_HARDWARE_CONFIG"} \X requestGetHardwareConfig)
    \cup ({"SHUTDOWN"} \X requestShutdown)
    \cup ({"QUERY_TTY_MODE"} \X requestGetTtyMode)
    \cup ({"GET_RADIO_CAPABILITY"} \X requestGetRadioCapability)
    \cup ({"GET_MUTE"} \X requestGetMute)
    \cup ({"SET_INITIAL_ATTACH_APN", "ALLOW_DATA",
           "ENTER_NETWORK_DEPERSONALIZATION", "SET_CLIR",
           "SET_SUPP_SVC_NOTIFICATION", "SET_BAND_MODE",
           "QUERY_AVAILABLE_BAND_MODE", "GET_NEIGHBORING_CELL_IDS",
           "SET_LOCATION_UPDATES", "SET_TTY_MODE",
           "CDMA_SET_PREFERRED_VOICE_PRIVACY_MODE"} \X {Success})
    \cup ({"SIM_AUTHENTICATION"} \X requestGetSimAuthentication)

CdmaAndCarrierCases ==
  ({"BASEBAND_VERSION"} \X requestCdmaBaseBandVersion)
    \cup ({"DEVICE_IDENTITY"} \X requestDeviceIdentity)
    \cup ({"CDMA_SUBSCRIPTION"} \X requestCdmaSubscription)
    \cup ({"CDMA_GET_SUBSCRIPTION_SOURCE"} \X requestCdmaGetSubscriptionSource)
    \cup ({"START_LCE", "STOP_LCE", "PULL_LCEDATA"}
            \X {Done("SIM_ABSENT"), Done("LCE_NOT_SUPPORTED")})
    \cup ({"CDMA_QUERY_ROAMING_PREFERENCE"}
            \X (requestCdmaGetRoamingPreference \cup {Done("REQUEST_NOT_SUPPORTED")}))
    \cup ({"CDMA_SET_SUBSCRIPTION_SOURCE"}
            \X (requestCdmaSetSubscriptionSource \cup {Success}))
    \cup ({"CDMA_SET_ROAMING_PREFERENCE"}
            \X (requestCdmaSetRoamingPreference \cup {Success}))
    \cup ({"EXIT_EMERGENCY_CALLBACK_MODE"}
            \X (requestExitEmergencyMode \cup {Success}))
    \cup ({"GET_ACTIVITY_INFO"} \X requestModemActivityInfo)
    \cup ({"SET_CARRIER_RESTRICTIONS"}
            \X (requestSetCarrierRestrictions \cup {Done("REQUEST_NOT_SUPPORTED")}))

Cases ==
  CardAndCallCases \cup NetworkAndSmsCases \cup SimAndDataCases
    \cup SmsStorageAndPinCases \cup SettingsCases \cup CdmaAndCarrierCases

(* The requests onRequest looks at although the radio is off.              *)
ServedWhenOff == {
  "BASEBAND_VERSION", "CDMA_GET_SUBSCRIPTION_SOURCE",
  "CDMA_QUERY_PREFERRED_VOICE_PRIVACY_MODE",
  "CDMA_SET_PREFERRED_VOICE_PRIVACY_MODE", "CDMA_SET_ROAMING_PREFERENCE",
  "CDMA_SET_SUBSCRIPTION_SOURCE", "CDMA_SUBSCRIPTION", "DEVICE_IDENTITY",
  "EXIT_EMERGENCY_CALLBACK_MODE", "GET_ACTIVITY_INFO",
  "GET_CARRIER_RESTRICTIONS", "GET_CURRENT_CALLS", "GET_IMEI", "GET_MUTE",
  "GET_NEIGHBORING_CELL_IDS", "GET_PREFERRED_NETWORK_TYPE",
  "GET_RADIO_CAPABILITY", "GET_SIM_STATUS", "NV_RESET_CONFIG",
  "QUERY_AVAILABLE_BAND_MODE", "QUERY_NETWORK_SELECTION_MODE",
  "QUERY_TTY_MODE", "RADIO_POWER", "SET_BAND_MODE",
  "SET_CARRIER_RESTRICTIONS", "SET_LOCATION_UPDATES",
  "SET_PREFERRED_NETWORK_TYPE", "SET_TTY_MODE",
  "SET_UNSOL_CELL_INFO_LIST_RATE", "STOP_LCE", "VOICE_RADIO_TECH"}

RadioStates == {"UNAVAILABLE", "OFF", "ON"}

(* The requests that get past the checks of the radio's state.             *)
Served(request, sState) ==
  /\ sState = "UNAVAILABLE" => request = "GET_SIM_STATUS"
  /\ sState = "OFF" => request \in ServedWhenOff

(* The paths through onRequest.                                            *)
onRequest(request, sState) ==
  IF ~Served(request, sState) THEN {Done("RADIO_NOT_AVAILABLE")}
  ELSE LET paths == {c[2] : c \in {d \in Cases : d[1] = request}}
       IN  IF paths = {} THEN {Done("REQUEST_NOT_SUPPORTED")} ELSE paths
==============================================================================
