------------------------------- MODULE Detector -------------------------------
(***************************************************************************)
(* The speech detector of plugins/silero/detector.go: it turns windows of  *)
(* audio, each above or below the threshold, into the start and the end of *)
(* speech, with a minimum duration for both.  Durations are in samples.    *)
(***************************************************************************)
EXTENDS Naturals, Sequences

CONSTANTS
  WindowSize,  \* samples in a window
  MinSpeech,   \* minSpeechSamples
  MinSilence   \* minSilenceSamples

ASSUME DurationsAssumption ==
  /\ WindowSize \in Nat \ {0}
  /\ MinSpeech \in Nat
  /\ MinSilence \in Nat

Detectors ==
  [speaking : BOOLEAN, speechSamples : Nat, silenceSamples : Nat, utteranceSamples : Nat]

NotSpeaking ==
  [speaking |-> FALSE, speechSamples |-> 0, silenceSamples |-> 0, utteranceSamples |-> 0]

(* A window above the threshold.                                           *)
Loud(d) ==
  LET speech == d.speechSamples + WindowSize IN
    [speaking |-> d.speaking \/ speech >= MinSpeech,
     speechSamples |-> speech,
     silenceSamples |-> 0,
     utteranceSamples |-> IF d.speaking THEN d.utteranceSamples + WindowSize
                          ELSE IF speech >= MinSpeech THEN speech
                          ELSE d.utteranceSamples]

(* Mutant: a blip does not start the count again.                          *)
QuietKeeping(d) ==
  LET silence == d.silenceSamples + WindowSize IN
    IF ~d.speaking
    THEN d
    ELSE IF silence < MinSilence
    THEN [d EXCEPT !.silenceSamples = silence, !.utteranceSamples = @ + WindowSize]
    ELSE NotSpeaking

(* A window below it.                                                      *)
Quiet(d) ==
  LET silence == d.silenceSamples + WindowSize IN
    IF ~d.speaking
    THEN [d EXCEPT !.speechSamples = 0]
    ELSE IF silence < MinSilence
    THEN [d EXCEPT !.silenceSamples = silence, !.utteranceSamples = @ + WindowSize]
    ELSE NotSpeaking

Step(d, loud) == IF loud THEN Loud(d) ELSE Quiet(d)

(* Every window is reported, then a change of the detector's mind.         *)
Changed(d, e) ==
  IF d.speaking = e.speaking THEN <<>> ELSE IF e.speaking THEN <<"start">> ELSE <<"end">>
StepEvents(d, loud) == <<"inference">> \o Changed(d, Step(d, loud))

(* Mutant: the end of an utterance that reset cuts short is not reported.  *)
ResetEventsNone(d) == <<>>

(* reset ends an utterance.                                                *)
ResetEvents(d) == Changed(d, NotSpeaking)

-----------------------------------------------------------------------------
(* What the detector is to compute, from all the windows since the last    *)
(* reset: there is speech if enough windows in a row were loud and since   *)
(* then there has never been enough of silence.                            *)

Lasts(i, j, samples) == (j - i + 1) * WindowSize >= samples

SpeechFrom(windows) ==
  {i \in DOMAIN windows :
     \E j \in i..Len(windows) :
       /\ \A k \in i..j : windows[k]
       /\ Lasts(i, j, MinSpeech)
       /\ ~ \E k \in j+1..Len(windows) : \E l \in k..Len(windows) :
              (\A m \in k..l : ~windows[m]) /\ Lasts(k, l, MinSilence)}

(* An utterance begins with the first loud window of the run that made it  *)
(* one, and counts every sample since.                                     *)
Utterance(windows) ==
  IF SpeechFrom(windows) = {} THEN 0
  ELSE LET first == CHOOSE i \in SpeechFrom(windows) :
                      \A j \in SpeechFrom(windows) : i <= j
       IN (Len(windows) - first + 1) * WindowSize
=============================================================================
