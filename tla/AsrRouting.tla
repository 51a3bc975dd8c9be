----------------------------- MODULE AsrRouting -----------------------------
(***************************************************************************)
(* One reading on its way through the app and asr-service:                 *)
(* src/mobile/src/hooks/use-asr.ts, and main.py, providers.py and          *)
(* scoring.py of src/services/asr-service/asr_app.                         *)
(*                                                                         *)
(* The service keeps no state: a reading is one call, and what may differ  *)
(* is the configuration of the process, what each provider does and what   *)
(* the device has.  Audio, transcripts and the way a score comes about are *)
(* left out: a transcript has a score from the constant Scores.            *)
(***************************************************************************)
EXTENDS Naturals, Sequences, SequencesExt

CONSTANT Scores   \* the final scores that may come about, in percent

Providers == {"test", "whisper_gpu", "azure", "whisper_cpp"}
Hints == {"auto", "whisper_gpu", "azure", "whisper_cpp"}
Difficulties == {"Easy", "Medium", "Hard"}

VARIABLES
  settings,    \* what the process was started with
  hint,        \* body.provider; the app always says "auto"
  difficulty,
  isOnline,
  queue,       \* the providers that route_and_transcribe has still to try
  asked,       \* those it asked, in order
  whisper,     \* what Whisper did: "none", "error", "quick" or "slow"
  response,    \* the status of the answer; 0 while there is none
  result       \* what the child is told; the score and by whom

vars == <<settings, hint, difficulty, isOnline, queue, asked, whisper, response, result>>

NoResult == [said |-> "none", by |-> "none", score |-> 0]

TypeOK ==
  /\ settings \in [test_mode : BOOLEAN, whisper_gpu_enabled : BOOLEAN, azure : BOOLEAN]
  /\ hint \in Hints
  /\ difficulty \in Difficulties
  /\ isOnline \in BOOLEAN
  /\ queue \in Seq(Providers) /\ asked \in Seq(Providers)
  /\ whisper \in {"none", "error", "quick", "slow"}
  /\ response \in {0, 200, 400, 500, 503}
  /\ result \in [said : {"none", "PASS", "PARTIAL", "FAIL", "error"},
                 by : Providers \union {"none", "device"}, score : Scores \union {0}]

(* The providers in the order in which route_and_transcribe tries them.    *)
Route(s, h) ==
  (IF s.test_mode THEN <<"test">> ELSE <<>>)
    \o SelectSeq(<<"whisper_gpu", "azure">>, LAMBDA p : h \in {"auto", p})
    \o (IF h = "whisper_cpp" THEN <<h>> ELSE <<>>)

is_available(p) ==
  CASE p = "test" -> settings.test_mode
    [] p = "whisper_gpu" -> settings.whisper_gpu_enabled
    [] p = "azure" -> settings.azure
    [] OTHER -> TRUE

(* The thresholds of config.py, and the copy of them in use-asr.ts.        *)
Thresholds(d) == CASE d = "Easy" -> <<75, 55>> [] d = "Medium" -> <<82, 62>> [] d = "Hard" -> <<88, 70>>
classify(s, d) ==
  IF s >= Thresholds(d)[1] THEN "PASS" ELSE IF s >= Thresholds(d)[2] THEN "PARTIAL" ELSE "FAIL"
classifyLocal(s, d) ==
  LET pass == IF d = "Hard" THEN 88 ELSE IF d = "Medium" THEN 82 ELSE 75
      partial == IF d = "Hard" THEN 70 ELSE IF d = "Medium" THEN 62 ELSE 55
  IN  IF s >= pass THEN "PASS" ELSE IF s >= partial THEN "PARTIAL" ELSE "FAIL"

Init ==
  /\ settings \in [test_mode : BOOLEAN, whisper_gpu_enabled : BOOLEAN, azure : BOOLEAN]
  /\ hint \in Hints
  /\ difficulty \in Difficulties
  /\ isOnline \in BOOLEAN
  /\ queue = Route(settings, hint)
  /\ asked = <<>> /\ whisper = "none"
  /\ response = 0 /\ result = NoResult

Given == UNCHANGED <<settings, hint, difficulty, isOnline>>
Respond(status) == response' = status

-----------------------------------------------------------------------------
Routing == isOnline /\ response = 0 /\ queue # <<>>

(* validate refuses before it routes: no student, too long, not base64.    *)
Refuse ==
  /\ Routing /\ asked = <<>> /\ queue = Route(settings, hint)
  /\ Respond(400)
  /\ Given /\ UNCHANGED <<queue, asked, whisper, result>>

Skip ==
  /\ Routing /\ ~ is_available(Head(queue))
  /\ queue' = Tail(queue)
  /\ Given /\ UNCHANGED <<asked, whisper, response, result>>

Ask(p) == Routing /\ p = Head(queue) /\ is_available(p) /\ asked' = Append(asked, p)

(* ProviderUnavailableError: the next one is tried.                        *)
Unavailable(p) ==
  /\ Ask(p) /\ p # "test"
  /\ queue' = Tail(queue)
  /\ whisper' = IF p = "whisper_gpu" THEN "error" ELSE whisper
  /\ Given /\ UNCHANGED <<response, result>>

(* Azure may also raise what its handler does not name (the connection is  *)
(* closed without an answer): nobody catches that.                         *)
AzureBreaks ==
  /\ Ask("azure")
  /\ Respond(500)
  /\ Given /\ UNCHANGED <<queue, whisper, result>>

Scored(p) == \E s \in Scores :
  /\ result' = [said |-> classify(s, difficulty), by |-> p, score |-> s]
  /\ Respond(200)

Transcribed(p) ==
  /\ Ask(p) /\ p \in {"test", "azure"}
  /\ Scored(p)
  /\ Given /\ UNCHANGED <<queue, whisper>>

(* Whisper has a transcript.  Its latency is compared with an attribute of *)
(* settings that config.py defines outside of Settings: the comparison     *)
(* raises an AttributeError, which neither the loop nor validate catches.  *)
WhisperTranscribed ==
  /\ Ask("whisper_gpu")
  /\ whisper' \in {"quick", "slow"}
  /\ Respond(500)
  /\ Given /\ UNCHANGED <<queue, result>>

NoProvider ==
  /\ isOnline /\ response = 0 /\ queue = <<>>
  /\ Respond(503)
  /\ Given /\ UNCHANGED <<queue, asked, whisper, result>>

-----------------------------------------------------------------------------
(* The request or its answer is lost: fetch rejects (external).            *)
ConnectionLost ==
  /\ isOnline /\ response = 0
  /\ Respond(503)
  /\ Given /\ UNCHANGED <<queue, asked, whisper, result>>

(* validate of the hook: anything but an answer falls back on the device,  *)
(* whose own validate or transcribe may reject.                            *)
Offline ==
  /\ result = NoResult
  /\ isOnline => response \notin {0, 200}
  /\ \/ \E s \in Scores :
          result' = [said |-> classifyLocal(s, difficulty), by |-> "device", score |-> s]
     \/ result' = [said |-> "error", by |-> "device", score |-> 0]
  /\ Given /\ UNCHANGED <<queue, asked, whisper, response>>

Done == result # NoResult /\ UNCHANGED vars

Next ==
  \/ Refuse \/ Skip \/ AzureBreaks \/ WhisperTranscribed \/ NoProvider
  \/ \E p \in Providers : Unavailable(p) \/ Transcribed(p)
  \/ ConnectionLost \/ Offline \/ Done

Spec == Init /\ [][Next]_vars

-----------------------------------------------------------------------------
(* "online -> whisper GPU; if latency > 1800ms or error -> Azure"          *)
(* (providers.py:5, use-asr.ts:4): a reading that Whisper failed on or was *)
(* slow with is not left to the device without asking a configured Azure.  *)
(* An unavailable Whisper does hand over to Azure; one that answered never *)
(* does, since it meets the missing attribute.                             *)
(* A connection that broke, of the app or of Azure, is not held against it.*)
FailsOver ==
  /\ whisper \in {"slow", "error"} /\ response = 500
  /\ hint = "auto" /\ settings.azure
  => Contains(asked, "azure")

=============================================================================
