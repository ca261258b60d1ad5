------------------------------- MODULE Sensors -------------------------------
(* A page that listens to the device's sensors is found by asking it now    *)
(* and then, and is fed from atlas-sensord while it does (startSensorProbe  *)
(* .. stopSensors).  m_sensorWant is positive exactly while the push is     *)
(* armed.                                                                   *)
EXTENDS PageLoads

CONSTANT Sensing   \* bound: the probe's timer fires, documents listen, atlas-sensord
                   \* comes and goes

ASSUME SensingAssumption == Sensing \in BOOLEAN

VARIABLES
  probing,      \* m_sensorProbe is armed
  pushing,      \* m_sensorPush is armed
  sock,         \* m_sensorSock: none, up, or dropped by the other end
  gen,          \* which m_sensorCancel: a probe of an earlier one is cancelled
  pushFor,      \* the document whose answer armed m_sensorPush
  wants,        \* the WebProcess: its document listens
  sensord       \* atlas-sensord runs

sensors == <<probing, pushing, sock, gen, pushFor>>
world == <<wants, sensord>>

TypeOKSensors == /\ {probing, pushing, wants, sensord} \subseteq BOOLEAN
                 /\ sock \in {"none", "up", "dropped"}
                 /\ gen \in Nat /\ pushFor \in {0} \cup Navs
                 /\ ~pushing => sock = "none"
InitSensors == /\ probing = FALSE /\ pushing = FALSE /\ sock = "none"
               /\ gen = 0 /\ pushFor = 0 /\ wants = FALSE /\ sensord = TRUE
-----------------------------------------------------------------------------
(* startSensorProbe, when a load is finished                                *)
StartProbe == probing' = TRUE /\ UNCHANGED <<pushing, sock, gen, pushFor>>

(* stopSensors, when a load starts and when the page is destroyed           *)
StopTimersOnly == /\ probing' = FALSE /\ pushing' = FALSE /\ sock' = "none"
                  /\ pushFor' = 0 /\ UNCHANGED gen
StopSensors == /\ probing' = FALSE /\ pushing' = FALSE /\ sock' = "none"
               /\ pushFor' = 0 /\ gen' = gen + 1

(* sensorProbeTimer                                                         *)
ProbeTimer ==
  /\ Sensing /\ probing /\ Room /\ Send(news, <<[op |-> "probe", gen |-> gen]>>)
  /\ UNCHANGED <<sensors, world, alive, card, guard, shown, up, webprocess, counters, freed>>

(* onSensorWant: nothing of the page is touched if the probe was cancelled  *)
(* or failed; otherwise it starts or stops the push (connectSensord).       *)
WantedNews(r) ==
  IF r.gen # gen THEN UNCHANGED <<sensors, freed>>
  ELSE /\ freed' = (freed \/ ~alive)
       /\ pushing' = r.wants /\ UNCHANGED <<probing, gen>>
       /\ IF ~r.wants THEN sock' = "none" /\ pushFor' = 0
          ELSE IF pushing THEN UNCHANGED <<sock, pushFor>>
          ELSE sock' = (IF sensord THEN "up" ELSE "none") /\ pushFor' = r.on

(* sensorPushTimer: a socket that was dropped is closed, and connected      *)
(* again the next time, for as long as the page wants it.                   *)
PushTimerOnce ==
  /\ pushing /\ sock = "dropped" /\ sock' = "none"
  /\ UNCHANGED <<probing, pushing, gen, pushFor, world, vars0>>
PushTimer ==
  /\ pushing
  /\ \/ sock = "dropped" /\ sock' = "none"
     \/ sock = "none" /\ sensord /\ sock' = "up"
  /\ UNCHANGED <<probing, pushing, gen, pushFor, world, vars0>>

(* A page that is not a warm view's blank one adds or removes a listener;   *)
(* atlas-sensord stops or starts.                                           *)
Listen == /\ Sensing /\ up /\ opened /\ wants' = ~wants /\ UNCHANGED <<sensord, sensors, vars0>>
SensordToggles ==
  /\ Sensing /\ sensord' = ~sensord /\ sock' = IF sensord /\ sock = "up" THEN "dropped" ELSE sock
  /\ UNCHANGED <<wants, probing, pushing, gen, pushFor, vars0>>
-----------------------------------------------------------------------------
(* Samples are pushed for the document that asked for them: an answer of    *)
(* the last page, however late, never starts the push of the next.          *)
PushedToAsker == pushing => pushFor = shown

(* A page that goes on listening is fed in the end, whatever was reloaded,  *)
(* dropped or restarted before.                                             *)
ListenerIsFed ==
  <>[](alive /\ up /\ doc # 0 /\ wants /\ sensord /\ ~loading /\ asking = 0 /\ going = 0)
     => <>[](pushing /\ sock = "up")
=============================================================================
