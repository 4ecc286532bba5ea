------------------------- MODULE AgentSessionProofs -------------------------
(***************************************************************************)
(* Proofs about AgentSession for any number of utterances, turns and       *)
(* chunks.                                                                 *)
(*   TypeInv    the types, and the bounds of what a turn has pushed;       *)
(*   AudioInv   the turn's audio goroutine has returned by the time        *)
(*              generate goes on to playout, so that it changes neither    *)
(*              state nor output later;                                    *)
(*   PlayedInv  what may still be queued after that wait;                  *)
(*   TextInv    what was pushed late, and when it still can be;            *)
(*   HeardInv   what the history and the text being collected add up to;   *)
(*   AskedInv   what Gemini would be asked, and whose turn it is in it.    *)
(* The last two are about FlattenSeq, a recursive function: that it goes   *)
(* element by element is proved first, by induction over its prefixes.     *)
(***************************************************************************)
EXTENDS AgentSession, SequenceTheorems, WellFoundedInduction, TLAPS

USE BoundsAssumption

-----------------------------------------------------------------------------
(* Type correctness.                                                       *)

TypeInv ==
  /\ TypeOK
  /\ main = "pushing" => reply < MaxChunks
  /\ late <= reply
  /\ audio # "off" \/ main \in Generating => turn >= 1

Words == Seq(1..MaxUtterances)
Messages == [role : Roles, said : Words]

LEMMA SaysTyped ==
  ASSUME NEW role \in Roles, NEW words \in Words
  PROVE  Says(role, words) \in Messages
  BY DEF Says, Messages

LEMMA TypeInit == Init => TypeInv
<1> SUFFICES ASSUME Init PROVE TypeInv
  OBVIOUS
<1>1. userText \in Seq(1..MaxUtterances)
      /\ history \in Seq([role : Roles, said : Seq(1..MaxUtterances)])
  BY DEF Init
<1>2. {started, ctxDone, endCloses} \subseteq BOOLEAN /\ stt \in {"open", "closed"}
  BY DEF Init
<1> QED
  BY <1>1, <1>2 DEF Init, TypeInv, TypeOK, MainSteps, Generating, AgentStates, AudioSteps, VadSteps

LEMMA HistoryTyped ==
  ASSUME TypeOK, NEW m \in Messages, history' = Append(history, m)
  PROVE  history' \in Seq([role : Roles, said : Seq(1..MaxUtterances)])
<1> DEFINE M == [role : Roles, said : Seq(1..MaxUtterances)]
<1>1. history \in Seq(M) /\ m \in M
  BY DEF TypeOK, Messages, Words
<1> HIDE DEF M
<1>2. history' \in Seq(M)
  BY <1>1, AppendProperties
<1> QED
  BY <1>2 DEF M

LEMMA ListenTyped == TypeInv /\ (Begin \/ Listen) => TypeInv'
<1> SUFFICES ASSUME TypeInv PROVE Begin \/ Listen => TypeInv'
  OBVIOUS
<1> USE DEF TypeInv, MainSteps, Generating, sttVars, turnVars, audioVars, vadVars, inputVars
<1>1. Begin => TypeInv'
  <2> SUFFICES ASSUME Begin PROVE TypeInv'
    OBVIOUS
  <2>1. Says("system", <<>>) \in Messages
    BY SaysTyped, EmptySeq DEF Words, Roles
  <2>2. history' \in Seq([role : Roles, said : Seq(1..MaxUtterances)])
    <3>1. CASE history' = <<Says("system", <<>>)>>
      <4> HIDE DEF Says
      <4>1. \A s \in Messages : <<s>> \in Seq(Messages)
        OBVIOUS
      <4>2. history' \in Seq(Messages)
        BY <2>1, <3>1, <4>1
      <4> QED
        BY <4>2 DEF Messages, Words
    <3>2. CASE UNCHANGED history
      BY <3>2 DEF TypeOK
    <3> QED
      BY <3>1, <3>2 DEF Begin
  <2>3. main = "new" /\ main' = "listen"
    BY DEF Begin
  <2> QED
    BY <2>2, <2>3 DEF Begin, TypeOK, Generating
<1>2. ReceiveFinal => TypeInv'
  BY DEF ReceiveFinal, TypeOK
<1>3. ReceiveEndOfSpeech => TypeInv'
  <2> SUFFICES ASSUME ReceiveEndOfSpeech PROVE TypeInv'
    OBVIOUS
  <2>1. Says("user", userText) \in Messages
    BY SaysTyped DEF TypeOK, Words, Roles
  <2>2. history' \in Seq([role : Roles, said : Seq(1..MaxUtterances)])
    BY <2>1, HistoryTyped DEF ReceiveEndOfSpeech
  <2>3. turn' \in 1..MaxTurns /\ active' \in 0..MaxTurns
    BY DEF ReceiveEndOfSpeech, TypeOK
  <2>4. userText' \in Seq(1..MaxUtterances)
    BY DEF ReceiveEndOfSpeech
  <2>5. main' = "thinking" /\ reply' = 0 /\ late' = 0
    BY DEF ReceiveEndOfSpeech
  <2>6. UNCHANGED <<heard, state, audio, started, tts, vad, held, interrupted, cleared, out,
                    stt, feed, ctxDone, endCloses>>
    BY DEF ReceiveEndOfSpeech
  <2>7. TypeOK'
    BY <2>2, <2>3, <2>4, <2>5, <2>6 DEF TypeOK, Generating
  <2> QED
    BY <2>3, <2>5, <2>7
<1>4. ReturnAtEvent \/ Return => TypeInv'
  BY DEF ReturnAtEvent, Return, TypeOK
<1> QED
  BY <1>1, <1>2, <1>3, <1>4 DEF Listen

LEMMA GenerateTyped == TypeInv /\ Generate => TypeInv'
<1> SUFFICES ASSUME TypeInv PROVE Generate => TypeInv'
  OBVIOUS
<1> USE DEF TypeInv, MainSteps, Generating, AgentStates, AudioSteps, sttVars, turnVars,
            audioVars, vadVars, inputVars
<1>1. Think => TypeInv'
  BY DEF Think, TypeOK
<1>2. ReceiveChunk => TypeInv'
  BY DEF ReceiveChunk, TypeOK
<1>3. PushText => TypeInv'
  BY DEF PushText, TypeOK
<1>4. ReplyEnds => TypeInv'
  BY DEF ReplyEnds, TypeOK
<1>5. EndInput => TypeInv'
  BY DEF EndInput, TypeOK
<1>6. AudioJoined \/ PlayedOut => TypeInv'
  BY DEF AudioJoined, PlayedOut, TypeOK
<1>7. CloseTurn => TypeInv'
  <2> SUFFICES ASSUME CloseTurn PROVE TypeInv'
    OBVIOUS
  <2>1. Says("assistant", <<>>) \in Messages
    BY SaysTyped, EmptySeq DEF Words, Roles
  <2>2. history' \in Seq([role : Roles, said : Seq(1..MaxUtterances)])
    <3>1. CASE reply > 0
      BY <2>1, <3>1, HistoryTyped DEF CloseTurn
    <3>2. CASE ~(reply > 0)
      BY <3>2 DEF CloseTurn, TypeOK
    <3> QED
      BY <3>1, <3>2
  <2> QED
    BY <2>2 DEF CloseTurn, TypeOK
<1>8. Cleanup => TypeInv'
  BY DEF Cleanup, TypeOK
<1> QED
  BY <1>1, <1>2, <1>3, <1>4, <1>5, <1>6, <1>7, <1>8 DEF Generate

LEMMA OthersTyped == TypeInv /\ (Audio \/ Vad \/ Outside \/ UNCHANGED vars) => TypeInv'
<1> SUFFICES ASSUME TypeInv PROVE Audio \/ Vad \/ Outside \/ UNCHANGED vars => TypeInv'
  OBVIOUS
<1> USE DEF TypeInv, Generating, sttVars, turnVars, audioVars, vadVars, inputVars
<1>1. AudioReceive \/ AudioStarts => TypeInv'
  BY DEF AudioReceive, AudioStarts, TypeOK, AudioSteps, AgentStates
<1>2. AudioCapture => TypeInv'
  <2> SUFFICES ASSUME AudioCapture PROVE TypeInv'
    OBVIOUS
  <2>1. turn \in Turns
    BY DEF TypeOK, AudioCapture, Turns
  <2> QED
    BY <2>1 DEF AudioCapture, TypeOK, AudioSteps
<1>3. AudioEnds => TypeInv'
  BY DEF AudioEnds, TypeOK, AudioSteps
<1>4. StartOfSpeech => TypeInv'
  BY DEF StartOfSpeech, TypeOK, VadSteps, Turns
<1>5. Cancel \/ ClearBuffer => TypeInv'
  BY DEF Cancel, ClearBuffer, TypeOK, VadSteps
<1>6. InputCloses \/ FanOutEnds \/ SttCloses \/ TtsCloses => TypeInv'
  BY DEF InputCloses, FanOutEnds, SttCloses, TtsCloses, TypeOK
<1>7. Playout \/ ContextEnds \/ UNCHANGED vars => TypeInv'
  BY DEF Playout, ContextEnds, vars, TypeOK
<1> QED
  BY <1>1, <1>2, <1>3, <1>4, <1>5, <1>6, <1>7 DEF Audio, Vad, Outside

LEMMA TypeInvHolds == Spec => []TypeInv
<1>1. TypeInv /\ [Next]_vars => TypeInv'
  BY ListenTyped, GenerateTyped, OthersTyped DEF Next
<1> QED
  BY TypeInit, <1>1, PTL DEF Spec

(* The session is always well typed; in particular interrupt never calls   *)
(* the cancel of a turn that does not exist.                               *)
THEOREM SessionTypeCorrect == Spec => []TypeOK
<1>1. TypeInv => TypeOK
  BY DEF TypeInv
<1> QED
  BY TypeInvHolds, <1>1, PTL

-----------------------------------------------------------------------------
(* The audio goroutine changes the state and queues audio only between     *)
(* Think and the wait for it: generate goes on when it has returned.       *)

AudioInv ==
  /\ main \in {"new", "listen", "thinking", "playout", "closing", "cleanup", "returned"}
       => audio \in {"off", "done"}
  /\ StateMatches

LEMMA AudioInit == Init => AudioInv
  BY DEF Init, AudioInv, StateMatches, Generating

LEMMA AudioStep == TypeInv /\ AudioInv /\ [Next]_vars => AudioInv'
<1> SUFFICES ASSUME TypeInv, AudioInv, [Next]_vars PROVE AudioInv'
  OBVIOUS
<1> USE DEF AudioInv, StateMatches, Generating, sttVars, turnVars, audioVars,
            vadVars, inputVars
<1>1. CASE Begin \/ Listen
  BY <1>1 DEF Begin, Listen, ReceiveFinal, ReceiveEndOfSpeech, ReturnAtEvent, Return
<1>2. CASE Think \/ ReceiveChunk \/ PushText
  BY <1>2 DEF Think, ReceiveChunk, PushText
<1>3. CASE ReplyEnds \/ EndInput \/ AudioJoined
  BY <1>3 DEF ReplyEnds, EndInput, AudioJoined
<1>4. CASE PlayedOut \/ CloseTurn \/ Cleanup
  BY <1>4 DEF PlayedOut, CloseTurn, Cleanup
<1>5. CASE Audio
  <2> USE DEF TypeInv, TypeOK, MainSteps
  <2>1. CASE AudioReceive
    BY <2>1 DEF AudioReceive
  <2>2. CASE AudioStarts
    BY <2>2 DEF AudioStarts
  <2>3. CASE AudioCapture
    BY <2>3 DEF AudioCapture
  <2>4. CASE AudioEnds
    BY <2>4 DEF AudioEnds
  <2> QED
    BY <1>5, <2>1, <2>2, <2>3, <2>4 DEF Audio
<1>6. CASE Vad
  BY <1>6 DEF Vad, StartOfSpeech, Cancel, ClearBuffer
<1>7. CASE Outside
  BY <1>7 DEF Outside, InputCloses, FanOutEnds, SttCloses, TtsCloses, Playout, ContextEnds
<1>8. CASE UNCHANGED vars
  BY <1>8 DEF vars
<1> QED
  BY <1>1, <1>2, <1>3, <1>4, <1>5, <1>6, <1>7, <1>8 DEF Next, Generate

LEMMA AudioInvHolds == Spec => []AudioInv
  BY AudioInit, AudioStep, TypeInvHolds, PTL DEF Spec

(* Between turns the session says it listens, and it says it speaks only   *)
(* within a turn that has produced audio, however the audio goroutine and  *)
(* generate interleave.                                                    *)
THEOREM StateMatchesHolds == Spec => []StateMatches
<1>1. AudioInv => StateMatches
  BY DEF AudioInv
<1> QED
  BY AudioInvHolds, <1>1, PTL

-----------------------------------------------------------------------------
(* Once generate has passed the wait for playout, what is still queued is  *)
(* the audio of interrupted turns.                                         *)

CutShort == \A t \in out : t \in interrupted \/ ctxDone

PlayedInv ==
  /\ main \in {"new", "listen", "closing", "cleanup", "returned"} => CutShort
  /\ PlayedBeforeNext

LEMMA PlayedInit == Init => PlayedInv
  BY DEF Init, PlayedInv, CutShort, PlayedBeforeNext

LEMMA PlayedStep == AudioInv /\ PlayedInv /\ [Next]_vars => PlayedInv'
<1> SUFFICES ASSUME AudioInv, PlayedInv, [Next]_vars PROVE PlayedInv'
  OBVIOUS
<1> USE DEF PlayedInv, CutShort, PlayedBeforeNext, sttVars, turnVars, audioVars, vadVars,
            inputVars
<1>1. CASE Begin \/ Listen
  BY <1>1 DEF Begin, Listen, ReceiveFinal, ReceiveEndOfSpeech, ReturnAtEvent, Return
<1>2. CASE Think \/ ReceiveChunk \/ PushText \/ ReplyEnds \/ EndInput
  BY <1>2 DEF Think, ReceiveChunk, PushText, ReplyEnds, EndInput
<1>3. CASE AudioJoined
  BY <1>3 DEF AudioJoined, Cancelled
<1>4. CASE PlayedOut \/ CloseTurn \/ Cleanup
  BY <1>4 DEF PlayedOut, CloseTurn, Cleanup
<1>5. CASE AudioCapture
  <2>1. main \notin {"new", "listen", "closing", "cleanup", "returned"}
    BY <1>5 DEF AudioCapture, AudioInv
  <2> QED
    BY <1>5, <2>1 DEF AudioCapture
<1>6. CASE AudioReceive \/ AudioStarts \/ AudioEnds
  BY <1>6 DEF AudioReceive, AudioStarts, AudioEnds
<1>7. CASE Vad
  BY <1>7 DEF Vad, StartOfSpeech, Cancel, ClearBuffer
<1>8. CASE Playout
  BY <1>8 DEF Playout
<1>9. CASE InputCloses \/ FanOutEnds \/ SttCloses \/ TtsCloses \/ ContextEnds
  BY <1>9 DEF InputCloses, FanOutEnds, SttCloses, TtsCloses, ContextEnds
<1>10. CASE UNCHANGED vars
  BY <1>10 DEF vars
<1> QED
  BY <1>1, <1>2, <1>3, <1>4, <1>5, <1>6, <1>7, <1>8, <1>9, <1>10
     DEF Next, Generate, Audio, Outside

(* The audio of a turn nobody cut short has been heard when the next one   *)
(* begins: generate waits for its audio goroutine and then for playout.    *)
THEOREM PlayedBeforeNextHolds == Spec => []PlayedBeforeNext
<1>1. PlayedInv => PlayedBeforeNext
  BY DEF PlayedInv
<1> QED
  BY PlayedInit, PlayedStep, AudioInvHolds, <1>1, PTL DEF Spec

-----------------------------------------------------------------------------
(* generate looks at its context before every chunk, so that one chunk at  *)
(* most is pushed late.                                                    *)

TextInv ==
  /\ late > 0 => turn \in interrupted
  /\ main = "pushing" => late = 0
  /\ BargeInStopsText

LEMMA TextInit == Init => TextInv
  BY DEF Init, TextInv, BargeInStopsText

LEMMA TextStep == TypeInv /\ TextInv /\ [Next]_vars => TextInv'
<1> SUFFICES ASSUME TypeInv, TextInv, [Next]_vars PROVE TextInv'
  OBVIOUS
<1>0. late \in Nat
  BY DEF TypeInv, TypeOK
<1> USE <1>0 DEF TextInv, BargeInStopsText, sttVars, turnVars, audioVars, vadVars, inputVars
<1>1. CASE Begin \/ Listen
  BY <1>1 DEF Begin, Listen, ReceiveFinal, ReceiveEndOfSpeech, ReturnAtEvent, Return
<1>2. CASE ReceiveChunk
  BY <1>2 DEF ReceiveChunk, Cancelled
<1>3. CASE PushText
  BY <1>3 DEF PushText
<1>4. CASE Think \/ ReplyEnds \/ EndInput
  BY <1>4 DEF Think, ReplyEnds, EndInput
<1>5. CASE AudioJoined \/ PlayedOut \/ CloseTurn \/ Cleanup
  BY <1>5 DEF AudioJoined, PlayedOut, CloseTurn, Cleanup
<1>6. CASE Audio
  BY <1>6 DEF Audio, AudioReceive, AudioStarts, AudioCapture, AudioEnds
<1>7. CASE Vad
  BY <1>7 DEF Vad, StartOfSpeech, Cancel, ClearBuffer
<1>8. CASE Outside
  BY <1>8 DEF Outside, InputCloses, FanOutEnds, SttCloses, TtsCloses, Playout, ContextEnds
<1>9. CASE UNCHANGED vars
  BY <1>9 DEF vars
<1> QED
  BY <1>1, <1>2, <1>3, <1>4, <1>5, <1>6, <1>7, <1>8, <1>9 DEF Next, Generate

(* After an interruption no more text goes to TTS than the chunk generate  *)
(* had in its hands.                                                       *)
THEOREM BargeInStopsTextHolds == Spec => []BargeInStopsText
<1>1. TextInv => BargeInStopsText
  BY DEF TextInv
<1> QED
  BY TextInit, TextStep, TypeInvHolds, <1>1, PTL DEF Spec

-----------------------------------------------------------------------------
(* FlattenSeq.                                                             *)

(* Every set of numbers that is not empty has a least one.                 *)
Before == {p \in Nat \X Nat : p[1] < p[2]}

LEMMA BeforeWellFounded == IsWellFoundedOn(Before, Nat)
  BY NatLessThanWellFounded DEF OpToRel, Before

LEMMA LeastNumber ==
  ASSUME NEW S \in SUBSET Nat, S # {}
  PROVE  \E m \in S : \A n \in S : m <= n
<1>1. PICK m \in S : \A n \in S : ~(<<n, m>> \in Before)
  BY BeforeWellFounded, WFMin
<1>2. \A n \in S : ~(n < m)
  BY <1>1 DEF Before
<1> QED
  BY <1>2

(* f holds the concatenations of the first 1..n elements of s.             *)
Joins(s, n, f) == f = [i \in 1..n |-> IF i = 1 THEN s[i] ELSE f[i - 1] \o s[i]]

LEMMA JoinsUnique ==
  ASSUME NEW s, NEW n \in Nat, NEW f, NEW g, Joins(s, n, f), Joins(s, n, g)
  PROVE  f = g
<1> DEFINE Differ == {i \in 1..n : f[i] # g[i]}
<1>1. /\ \A i \in 1..n : f[i] = IF i = 1 THEN s[i] ELSE f[i - 1] \o s[i]
      /\ \A i \in 1..n : g[i] = IF i = 1 THEN s[i] ELSE g[i - 1] \o s[i]
      /\ f = [i \in 1..n |-> f[i]] /\ g = [i \in 1..n |-> g[i]]
  BY DEF Joins
<1>2. ASSUME Differ # {} PROVE FALSE
  <2>1. PICK m \in Differ : \A i \in Differ : m <= i
    <3>1. Differ \in SUBSET Nat
      OBVIOUS
    <3> HIDE DEF Differ
    <3> QED
      BY <1>2, <3>1, LeastNumber
  <2>2. m # 1
    BY <1>1, <2>1
  <2>3. m - 1 \in 1..n /\ m - 1 \notin Differ
    BY <2>1, <2>2
  <2>4. f[m - 1] = g[m - 1]
    BY <2>3
  <2>5. m \in 1..n /\ f[m] # g[m]
    BY <2>1
  <2>6. f[m] = f[m - 1] \o s[m] /\ g[m] = g[m - 1] \o s[m]
    BY <1>1, <2>2, <2>5
  <2> QED
    BY <2>4, <2>5, <2>6
<1>3. \A i \in 1..n : f[i] = g[i]
  BY <1>2
<1> QED
  BY <1>1, <1>3

LEMMA JoinsExist ==
  ASSUME NEW S, NEW s \in Seq(Seq(S))
  PROVE  \E f : Joins(s, Len(s), f) /\ f \in [1..Len(s) -> Seq(S)]
<1> DEFINE Has(n) == \E f : Joins(s, n, f) /\ f \in [1..n -> Seq(S)]
           None == {n \in Nat : n <= Len(s) /\ ~Has(n)}
<1>1. Len(s) \in Nat /\ \A i \in 1..Len(s) : s[i] \in Seq(S)
  BY LenProperties, ElementOfSeq
<1>2. Has(0)
  <2> DEFINE f == [i \in 1..0 |-> <<>>]
  <2>1. Joins(s, 0, f) /\ f \in [1..0 -> Seq(S)]
    BY DEF Joins
  <2> QED
    BY <2>1
<1>3. ASSUME NEW n \in Nat, n + 1 <= Len(s), Has(n) PROVE Has(n + 1)
  <2>1. PICK f : Joins(s, n, f) /\ f \in [1..n -> Seq(S)]
    BY <1>3
  <2>2. \A i \in 1..n : f[i] = IF i = 1 THEN s[i] ELSE f[i - 1] \o s[i]
    BY <2>1 DEF Joins
  <2> DEFINE new == IF n = 0 THEN s[1] ELSE f[n] \o s[n + 1]
             g == [i \in 1..n+1 |-> IF i = n + 1 THEN new ELSE f[i]]
  <2>3. new \in Seq(S)
    BY <1>1, <1>3, <2>1, ConcatProperties
  <2>4. g \in [1..n+1 -> Seq(S)]
    <3> HIDE DEF new
    <3> QED
      BY <2>1, <2>3
  <2>5. \A i \in 1..n+1 : g[i] = IF i = 1 THEN s[i] ELSE g[i - 1] \o s[i]
    <3> SUFFICES ASSUME NEW i \in 1..n+1
                 PROVE  g[i] = IF i = 1 THEN s[i] ELSE g[i - 1] \o s[i]
      OBVIOUS
    <3>1. CASE i = n + 1
      BY <3>1
    <3>2. CASE i # n + 1
      <4>1. i \in 1..n /\ g[i] = f[i] /\ (i # 1 => g[i - 1] = f[i - 1])
        BY <3>2
      <4> QED
        BY <2>2, <4>1
    <3> QED
      BY <3>1, <3>2
  <2>6. Joins(s, n + 1, g)
    <3>1. g = [i \in 1..n+1 |-> g[i]]
      OBVIOUS
    <3> HIDE DEF g
    <3> QED
      BY <2>5, <3>1 DEF Joins
  <2> QED
    BY <2>4, <2>6
<1>4. ASSUME None # {} PROVE FALSE
  <2>1. PICK m \in None : \A n \in None : m <= n
    <3>1. None \in SUBSET Nat
      OBVIOUS
    <3> HIDE DEF None
    <3> QED
      BY <1>4, <3>1, LeastNumber
  <2> HIDE DEF Has
  <2>2. m # 0
    BY <1>2, <2>1
  <2>3. m - 1 \in Nat /\ m - 1 \notin None /\ m - 1 <= Len(s)
    BY <1>1, <2>1, <2>2
  <2>4. Has(m - 1) /\ (m - 1) + 1 = m
    BY <2>1, <2>3
  <2> QED
    BY <1>3, <2>1, <2>3, <2>4
<1>5. Has(Len(s))
  <2> HIDE DEF Has
  <2> QED
    BY <1>1, <1>4
<1> QED
  BY <1>5

LEMMA FlattenIsJoin ==
  ASSUME NEW s, NEW f, Len(s) \in Nat \ {0}, Joins(s, Len(s), f)
  PROVE  FlattenSeq(s) = f[Len(s)]
<1> DEFINE flatten ==
      CHOOSE g : g = [i \in 1..Len(s) |-> IF i = 1 THEN s[i] ELSE g[i - 1] \o s[i]]
<1>1. FlattenSeq(s) = flatten[Len(s)]
  BY DEF FlattenSeq
<1>2. Joins(s, Len(s), flatten)
  <2>1. \E g : g = [i \in 1..Len(s) |-> IF i = 1 THEN s[i] ELSE g[i - 1] \o s[i]]
    BY DEF Joins
  <2>2. flatten = [i \in 1..Len(s) |-> IF i = 1 THEN s[i] ELSE flatten[i - 1] \o s[i]]
    BY <2>1
  <2> HIDE DEF flatten
  <2> QED
    BY <2>2 DEF Joins
<1> HIDE DEF flatten
<1>3. flatten = f
  BY <1>2, JoinsUnique
<1> QED
  BY <1>1, <1>3

(* Flattening goes element by element.                                     *)
LEMMA FlattenEmpty == FlattenSeq(<<>>) = <<>>
  BY DEF FlattenSeq

LEMMA FlattenAppend ==
  ASSUME NEW S, NEW s \in Seq(Seq(S)), NEW t \in Seq(S)
  PROVE  /\ FlattenSeq(s) \in Seq(S)
         /\ FlattenSeq(Append(s, t)) = FlattenSeq(s) \o t
<1> DEFINE n == Len(s)
           a == Append(s, t)
<1>1. /\ a \in Seq(Seq(S)) /\ Len(a) = n + 1 /\ n \in Nat /\ a[n + 1] = t
      /\ \A i \in 1..n : a[i] = s[i]
  BY AppendProperties, LenProperties
<1> HIDE DEF a
<1>2. PICK f : Joins(a, n + 1, f) /\ f \in [1..n+1 -> Seq(S)]
  BY <1>1, JoinsExist
<1>3. \A i \in 1..n+1 : f[i] = IF i = 1 THEN a[i] ELSE f[i - 1] \o a[i]
  BY <1>2 DEF Joins
<1>4. FlattenSeq(a) = f[n + 1]
  BY <1>1, <1>2, FlattenIsJoin
<1>5. CASE n = 0
  <2>1. s = <<>>
    BY <1>5, EmptySeq
  <2>2. FlattenSeq(a) = t /\ FlattenSeq(s) = <<>>
    BY <1>1, <1>3, <1>4, <1>5, <2>1, FlattenEmpty
  <2> QED
    BY <2>2, ConcatEmptySeq, EmptySeq DEF a
<1>6. CASE n # 0
  <2> DEFINE g == [i \in 1..n |-> f[i]]
  <2>1. \A i \in 1..n : g[i] = IF i = 1 THEN s[i] ELSE g[i - 1] \o s[i]
    <3> SUFFICES ASSUME NEW i \in 1..n PROVE g[i] = IF i = 1 THEN s[i] ELSE g[i - 1] \o s[i]
      OBVIOUS
    <3>1. g[i] = f[i] /\ (i # 1 => g[i - 1] = f[i - 1]) /\ a[i] = s[i] /\ i \in 1..n+1
      BY <1>1
    <3> QED
      BY <1>3, <3>1
  <2>2. Joins(s, n, g)
    <3>1. g = [i \in 1..n |-> g[i]]
      OBVIOUS
    <3> HIDE DEF g, n
    <3> QED
      BY <2>1, <3>1 DEF Joins
  <2>3. FlattenSeq(s) = f[n]
    <3>1. g[n] = f[n]
      BY <1>1, <1>6
    <3> HIDE DEF g
    <3>2. FlattenSeq(s) = g[n]
      BY <1>1, <1>6, <2>2, FlattenIsJoin
    <3> QED
      BY <3>1, <3>2
  <2>4. f[n + 1] = f[n] \o t /\ f[n] \in Seq(S)
    <3>1. n \in 1..n+1 /\ n + 1 \in 1..n+1 /\ n + 1 # 1 /\ (n + 1) - 1 = n
      BY <1>1, <1>6
    <3> HIDE DEF n
    <3> QED
      BY <1>1, <1>2, <1>3, <3>1
  <2> QED
    BY <1>4, <2>3, <2>4 DEF a
<1> QED
  BY <1>5, <1>6

-----------------------------------------------------------------------------
(* What has been said.                                                     *)

Blank == {Says("user", <<>>)}
Said(h) == [i \in 1..Len(h) |-> h[i].said]
Contents(h) == [i \in 1..Len(h) |-> Content(h[i], Blank)]

LEMMA HistoryIs == TypeOK => history \in Seq(Messages) /\ userText \in Words /\ heard \in Nat
  BY DEF TypeOK, Messages, Words

LEMMA ContentTyped == \A m : Content(m, Blank) \in Seq({"user", "model"})
<1>1. <<>> \in Seq({"user", "model"}) /\ <<"user">> \in Seq({"user", "model"})
      /\ <<"model">> \in Seq({"user", "model"})
  OBVIOUS
<1> QED
  BY <1>1 DEF Content, GeminiRole

LEMMA SaidAppended ==
  ASSUME NEW h \in Seq(Messages), NEW m \in Messages
  PROVE  /\ Said(h) \in Seq(Words) /\ Contents(h) \in Seq(Seq({"user", "model"}))
         /\ m.said \in Words
         /\ Said(Append(h, m)) = Append(Said(h), m.said)
         /\ Contents(Append(h, m)) = Append(Contents(h), Content(m, Blank))
<1> DEFINE n == Len(h)
           a == Append(h, m)
<1>1. /\ n \in Nat /\ Len(a) = n + 1 /\ a[n + 1] = m
      /\ \A i \in 1..n : a[i] = h[i] /\ h[i] \in Messages
  BY AppendProperties, LenProperties, ElementOfSeq
<1> HIDE DEF a
<1>2. \A k \in Messages : k.said \in Words
  BY DEF Messages
<1>3. Said(h) \in Seq(Words) /\ Len(Said(h)) = n
  BY <1>1, <1>2 DEF Said
<1>4. Contents(h) \in Seq(Seq({"user", "model"})) /\ Len(Contents(h)) = n
  <2> DEFINE C == Seq({"user", "model"})
  <2>1. \A i \in 1..n : Content(h[i], Blank) \in C
    BY ContentTyped
  <2> HIDE DEF C
  <2>2. Contents(h) \in Seq(C) /\ Len(Contents(h)) = n
    BY <1>1, <2>1 DEF Contents
  <2> QED
    BY <2>2 DEF C
<1>5. Said(a) = Append(Said(h), m.said)
  <2>1. Said(a) = [i \in 1..n+1 |-> IF i = n + 1 THEN m.said ELSE h[i].said]
    BY <1>1 DEF Said
  <2>2. Append(Said(h), m.said) = [i \in 1..n+1 |-> IF i = n + 1 THEN m.said ELSE h[i].said]
    BY <1>1 DEF Said
  <2> QED
    BY <2>1, <2>2
<1>6. Contents(a) = Append(Contents(h), Content(m, Blank))
  <2> DEFINE c(i) == IF i = n + 1 THEN Content(m, Blank) ELSE Content(h[i], Blank)
  <2>1. Contents(a) = [i \in 1..n+1 |-> c(i)]
    BY <1>1 DEF Contents
  <2>2. Append(Contents(h), Content(m, Blank)) = [i \in 1..n+1 |-> c(i)]
    BY <1>1 DEF Contents
  <2> QED
    BY <2>1, <2>2
<1> QED
  BY <1>2, <1>3, <1>4, <1>5, <1>6 DEF a

LEMMA AppendAfter ==
  ASSUME NEW S, NEW s \in Seq(S), NEW t \in Seq(S), NEW e \in S
  PROVE  s \o Append(t, e) = Append(s \o t, e)
  OBVIOUS

(* All that was heard is in the history and the text being collected.      *)
HeardInv ==
  /\ main = "new" => history = <<>> /\ userText = <<>> /\ heard = 0
  /\ FlattenSeq(Said(history)) \o userText = [i \in 1..heard |-> i]

LEMMA HeardIsTranscript == TypeOK => (HeardInv => TranscriptConserved)
<1> SUFFICES ASSUME TypeOK, HeardInv PROVE TranscriptConserved
  OBVIOUS
<1>1. history \in Seq(Messages) /\ userText \in Words
  BY HistoryIs
<1>2. Said(history) \in Seq(Words)
  <2>1. Says("system", <<>>) \in Messages
    BY SaysTyped, EmptySeq DEF Words, Roles
  <2> QED
    BY <1>1, <2>1, SaidAppended
<1>3. Said(history) \o <<userText>> = Append(Said(history), userText)
  BY <1>1, <1>2, AppendIsConcat
<1>4. FlattenSeq(Append(Said(history), userText)) = FlattenSeq(Said(history)) \o userText
  BY <1>1, <1>2, FlattenAppend DEF Words
<1> QED
  BY <1>3, <1>4 DEF TranscriptConserved, Said, HeardInv

LEMMA HeardInit == Init => HeardInv
<1> SUFFICES ASSUME Init PROVE HeardInv
  OBVIOUS
<1>1. Said(history) = <<>>
  BY DEF Init, Said
<1>2. FlattenSeq(Said(history)) \o userText = <<>>
  BY <1>1, FlattenEmpty DEF Init
<1>3. [i \in 1..heard |-> i] = <<>>
  BY DEF Init
<1> QED
  BY <1>2, <1>3 DEF Init, HeardInv

(* A message without words of the user adds nothing.                       *)
LEMMA NothingHeard ==
  ASSUME TypeOK, HeardInv, NEW role \in Roles, history' = Append(history, Says(role, <<>>)),
         UNCHANGED <<heard, userText>>, main' # "new"
  PROVE  HeardInv'
<1>1. history \in Seq(Messages) /\ userText \in Words
  BY HistoryIs
<1>2. Says(role, <<>>) \in Messages /\ Says(role, <<>>).said = <<>>
  BY SaysTyped, EmptySeq DEF Words, Says
<1>3. Said(history) \in Seq(Words) /\ Said(history') = Append(Said(history), <<>>)
  BY <1>1, <1>2, SaidAppended
<1>4. <<>> \in Words
  BY EmptySeq DEF Words
<1>5. /\ FlattenSeq(Said(history)) \in Words
      /\ FlattenSeq(Said(history')) = FlattenSeq(Said(history)) \o <<>>
  BY <1>3, <1>4, FlattenAppend DEF Words
<1>6. FlattenSeq(Said(history')) = FlattenSeq(Said(history))
  BY <1>5, ConcatEmptySeq DEF Words
<1> QED
  BY <1>6 DEF HeardInv

LEMMA HeardStep == TypeInv /\ HeardInv /\ [Next]_vars => HeardInv'
<1> SUFFICES ASSUME TypeInv, HeardInv, [Next]_vars PROVE HeardInv'
  OBVIOUS
<1> USE DEF sttVars, turnVars, audioVars, vadVars, inputVars
<1>1. TypeOK /\ history \in Seq(Messages) /\ userText \in Words /\ heard \in Nat
  BY HistoryIs DEF TypeInv
<1>2. Said(history) \in Seq(Words) /\ FlattenSeq(Said(history)) \in Words
  <2>1. Says("system", <<>>) \in Messages /\ <<>> \in Words
    BY SaysTyped, EmptySeq DEF Words, Roles
  <2>2. Said(history) \in Seq(Words)
    BY <1>1, <2>1, SaidAppended
  <2> QED
    BY <2>1, <2>2, FlattenAppend DEF Words
<1>3. CASE UNCHANGED <<history, userText, heard>> /\ main' # "new"
  BY <1>3 DEF HeardInv
<1>4. CASE Begin
  <2>1. history = <<>> /\ main' # "new" /\ UNCHANGED <<heard, userText>>
    BY <1>4 DEF Begin, HeardInv
  <2>2. CASE history' = <<Says("system", <<>>)>>
    <3>1. history' = Append(history, Says("system", <<>>))
      BY <2>1, <2>2
    <3>2. "system" \in Roles
      BY DEF Roles
    <3> QED
      BY <1>1, <2>1, <3>1, <3>2, NothingHeard
  <2>3. CASE UNCHANGED history
    BY <1>3, <2>1, <2>3
  <2> QED
    BY <1>4, <2>2, <2>3 DEF Begin
<1>5. CASE ReceiveFinal
  <2> DEFINE f == FlattenSeq(Said(history))
  <2>1. /\ history' = history /\ heard' = heard + 1 /\ main' # "new"
        /\ userText' = Append(userText, heard + 1)
    BY <1>5 DEF ReceiveFinal
  <2>2. f \in Words /\ f \o userText = [i \in 1..heard |-> i]
    BY <1>2 DEF HeardInv
  <2>3. heard + 1 \in 1..MaxUtterances
    BY <1>1, <1>5 DEF ReceiveFinal, TypeOK
  <2> HIDE DEF f
  <2>4. f \o Append(userText, heard + 1) = Append(f \o userText, heard + 1)
    <3> DEFINE W == 1..MaxUtterances
    <3>1. f \in Seq(W) /\ userText \in Seq(W) /\ heard + 1 \in W
      BY <1>1, <2>2, <2>3 DEF Words
    <3> HIDE DEF W
    <3> QED
      BY <3>1, AppendAfter
  <2>5. Append([i \in 1..heard |-> i], heard + 1) = [i \in 1..(heard + 1) |-> i]
    BY <1>1
  <2> QED
    BY <2>1, <2>2, <2>4, <2>5 DEF HeardInv, f
<1>6. CASE ReceiveEndOfSpeech
  <2>1. /\ history' = Append(history, Says("user", userText)) /\ userText' = <<>>
        /\ heard' = heard /\ main' # "new"
    BY <1>6 DEF ReceiveEndOfSpeech
  <2>2. Says("user", userText) \in Messages /\ Says("user", userText).said = userText
    BY <1>1, SaysTyped DEF Roles, Says
  <2>3. Said(history') = Append(Said(history), userText)
    BY <1>1, <2>1, <2>2, SaidAppended
  <2>4. FlattenSeq(Said(history')) = FlattenSeq(Said(history)) \o userText
    BY <1>1, <1>2, <2>3, FlattenAppend DEF Words
  <2>5. FlattenSeq(Said(history)) \o userText \in Words
    BY <1>1, <1>2, ConcatProperties DEF Words
  <2>6. FlattenSeq(Said(history')) \o userText' = FlattenSeq(Said(history)) \o userText
    BY <2>1, <2>4, <2>5, ConcatEmptySeq DEF Words
  <2> QED
    BY <2>1, <2>6 DEF HeardInv
<1>7. CASE CloseTurn
  <2>1. UNCHANGED <<heard, userText>> /\ main' # "new"
    BY <1>7 DEF CloseTurn
  <2>2. CASE reply > 0
    <3>1. history' = Append(history, Says("assistant", <<>>)) /\ "assistant" \in Roles
      BY <1>7, <2>2 DEF CloseTurn, Roles
    <3> QED
      BY <1>1, <2>1, <3>1, NothingHeard
  <2>3. CASE ~(reply > 0)
    BY <1>3, <1>7, <2>1, <2>3 DEF CloseTurn
  <2> QED
    BY <2>2, <2>3
<1>8. CASE UNCHANGED <<history, userText, heard, main>>
  BY <1>8 DEF HeardInv
<1>9. CASE ReturnAtEvent \/ Return \/ Think \/ ReceiveChunk \/ PushText \/ ReplyEnds \/ EndInput
  <2>1. UNCHANGED <<history, userText, heard>> /\ main' # "new"
    BY <1>9 DEF ReturnAtEvent, Return, Think, ReceiveChunk, PushText, ReplyEnds, EndInput
  <2> QED
    BY <1>3, <2>1
<1>10. CASE AudioJoined \/ PlayedOut \/ Cleanup
  <2>1. UNCHANGED <<history, userText, heard>> /\ main' # "new"
    BY <1>10 DEF AudioJoined, PlayedOut, Cleanup
  <2> QED
    BY <1>3, <2>1
<1>11. CASE Audio \/ Vad
  <2>1. UNCHANGED <<history, userText, heard, main>>
    BY <1>11 DEF Audio, AudioReceive, AudioStarts, AudioCapture, AudioEnds, Vad,
                 StartOfSpeech, Cancel, ClearBuffer
  <2> QED
    BY <1>8, <2>1
<1>12. CASE Outside \/ UNCHANGED vars
  <2>1. UNCHANGED <<history, userText, heard, main>>
    BY <1>12 DEF Outside, InputCloses, FanOutEnds, SttCloses, TtsCloses, Playout,
                 ContextEnds, vars
  <2> QED
    BY <1>8, <2>1
<1> QED
  BY <1>4, <1>5, <1>6, <1>7, <1>9, <1>10, <1>11, <1>12 DEF Next, Listen, Generate

(* No final transcript is lost or used twice, in any number of turns, one  *)
(* of which may be cut short or fail anywhere.                             *)
THEOREM TranscriptConservedHolds == Spec => []TranscriptConserved
<1>1. TypeInv => TypeOK
  BY DEF TypeInv
<1> QED
  BY HeardInit, HeardStep, HeardIsTranscript, TypeInvHolds, <1>1, PTL DEF Spec

-----------------------------------------------------------------------------
(* What Gemini is asked.                                                   *)

Asked == ToContents(history, Blank)
Answering == {"thinking", "streaming", "pushing", "ending", "joining", "playout", "closing"}

(* Between the user's message and the answer to it, the user's is the last *)
(* one: an answer is written only there.                                   *)
AskedInv ==
  /\ main = "new" => history = <<>>
  /\ Len(Asked) + Len(SystemInstruction(history)) = Len(history)
  /\ main \in Answering => Asked # <<>> /\ Asked[Len(Asked)] = "user"
  /\ \A i \in DOMAIN Asked : Asked[i] = "model" => i > 1 /\ Asked[i - 1] = "user"

LEMMA AskedAppended ==
  ASSUME NEW h \in Seq(Messages), NEW m \in Messages
  PROVE  /\ ToContents(h, Blank) \in Seq({"user", "model"})
         /\ ToContents(Append(h, m), Blank) = ToContents(h, Blank) \o Content(m, Blank)
<1>1. Contents(h) \in Seq(Seq({"user", "model"}))
      /\ Contents(Append(h, m)) = Append(Contents(h), Content(m, Blank))
  BY SaidAppended
<1>2. Content(m, Blank) \in Seq({"user", "model"})
  BY ContentTyped
<1>3. FlattenSeq(Contents(h)) \in Seq({"user", "model"})
      /\ FlattenSeq(Contents(Append(h, m))) = FlattenSeq(Contents(h)) \o Content(m, Blank)
  BY <1>1, <1>2, FlattenAppend
<1> QED
  BY <1>3 DEF ToContents, Contents

LEMMA InstructionKept ==
  ASSUME NEW h \in Seq(Messages), NEW m \in Messages, m.role # "system"
  PROVE  Len(SystemInstruction(Append(h, m))) = Len(SystemInstruction(h))
<1> DEFINE a == Append(h, m)
           old == {i \in 1..Len(h) : h[i].role = "system"}
           new == {i \in 1..Len(a) : a[i].role = "system"}
<1>1. /\ Len(h) \in Nat /\ Len(a) = Len(h) + 1 /\ a[Len(h) + 1] = m
      /\ \A i \in 1..Len(h) : a[i] = h[i]
  BY AppendProperties, LenProperties
<1> HIDE DEF a
<1>2. new = old
  BY <1>1
<1>3. /\ SystemInstruction(h) = IF old = {} THEN <<>> ELSE <<h[Max(old)]>>
      /\ SystemInstruction(a) = IF new = {} THEN <<>> ELSE <<a[Max(new)]>>
  BY DEF SystemInstruction
<1> HIDE DEF old, new
<1>4. \A x : Len(<<x>>) = 1
  OBVIOUS
<1> QED
  BY <1>2, <1>3, <1>4 DEF a

LEMMA AskedInit == Init => AskedInv
<1> SUFFICES ASSUME Init PROVE AskedInv
  OBVIOUS
<1>1. history = <<>> /\ Len(history) = 0 /\ main = "new"
  BY DEF Init
<1>2. Asked = <<>>
  <2>1. Contents(history) = <<>>
    BY <1>1 DEF Contents
  <2> QED
    BY <2>1, FlattenEmpty DEF Asked, ToContents, Contents
<1>3. SystemInstruction(history) = <<>>
  BY <1>1 DEF SystemInstruction
<1> QED
  BY <1>1, <1>2, <1>3 DEF AskedInv, Answering

(* The user speaks, or is answered.                                        *)
LEMMA AskedGrows ==
  ASSUME TypeOK, AskedInv, NEW m \in Messages, history' = Append(history, m),
         NEW role \in {"user", "model"}, Content(m, Blank) = <<role>>, m.role # "system",
         role = "model" => main \in Answering,
         main' # "new", main' \in Answering => role = "user"
  PROVE  AskedInv'
<1>1. history \in Seq(Messages)
  BY HistoryIs
<1>2. Asked \in Seq({"user", "model"}) /\ Asked' = Append(Asked, role)
  <2>1. Asked \in Seq({"user", "model"}) /\ Asked' = Asked \o <<role>>
    BY <1>1, AskedAppended DEF Asked
  <2> QED
    BY <2>1, AppendIsConcat
<1>3. /\ Len(Asked) \in Nat /\ Len(Asked') = Len(Asked) + 1 /\ Asked'[Len(Asked) + 1] = role
      /\ DOMAIN Asked = 1..Len(Asked) /\ DOMAIN Asked' = 1..Len(Asked')
      /\ \A i \in 1..Len(Asked) : Asked'[i] = Asked[i]
  BY <1>2, AppendProperties, LenProperties
<1>4. Len(SystemInstruction(history')) = Len(SystemInstruction(history))
      /\ Len(history') = Len(history) + 1 /\ Len(history) \in Nat
  BY <1>1, InstructionKept, AppendProperties, LenProperties
<1>5. Len(SystemInstruction(history)) \in Nat
  <2>1. \A x : Len(<<x>>) = 1
    OBVIOUS
  <2> QED
    BY <2>1 DEF SystemInstruction
<1>6. Len(Asked') + Len(SystemInstruction(history')) = Len(history')
  <2> DEFINE asked == Len(Asked)
             system == Len(SystemInstruction(history))
  <2>1. asked \in Nat /\ system \in Nat /\ asked + system = Len(history)
    BY <1>3, <1>5 DEF AskedInv
  <2>2. /\ Len(Asked') = asked + 1
        /\ Len(SystemInstruction(history')) = system
        /\ Len(history') = Len(history) + 1
    BY <1>3, <1>4
  <2> HIDE DEF asked, system
  <2> QED
    BY <2>1, <2>2
<1>7. main' \in Answering => Asked' # <<>> /\ Asked'[Len(Asked')] = "user"
  BY <1>2, <1>3
<1>8. ASSUME NEW i \in DOMAIN Asked', Asked'[i] = "model"
      PROVE  i > 1 /\ Asked'[i - 1] = "user"
  <2>1. CASE i \in 1..Len(Asked)
    <3>1. i > 1 /\ Asked[i - 1] = "user"
      BY <1>3, <1>8, <2>1 DEF AskedInv
    <3> QED
      BY <1>3, <2>1, <3>1
  <2>2. CASE i = Len(Asked) + 1
    <3>1. Asked # <<>> /\ Asked[Len(Asked)] = "user"
      BY <1>3, <1>8, <2>2 DEF AskedInv
    <3>2. Len(Asked) # 0
      BY <1>2, <3>1, EmptySeq
    <3> QED
      BY <1>3, <2>2, <3>1, <3>2
  <2> QED
    BY <1>3, <2>1, <2>2
<1> QED
  BY <1>6, <1>7, <1>8 DEF AskedInv

LEMMA AskedStep == TypeInv /\ AskedInv /\ [Next]_vars => AskedInv'
<1> SUFFICES ASSUME TypeInv, AskedInv, [Next]_vars PROVE AskedInv'
  OBVIOUS
<1> USE DEF sttVars, turnVars, audioVars, vadVars, inputVars
<1>1. TypeOK /\ history \in Seq(Messages) /\ userText \in Words
  BY HistoryIs DEF TypeInv
<1>2. ASSUME UNCHANGED history, main' # "new", main' \in Answering => main \in Answering
      PROVE  AskedInv'
  BY <1>2 DEF AskedInv, Asked
<1>3. CASE Begin
  <2>1. history = <<>> /\ main' = "listen"
    BY <1>3 DEF Begin, AskedInv
  <2>2. CASE UNCHANGED history
    BY <1>2, <2>1, <2>2 DEF Answering
  <2>3. CASE history' = <<Says("system", <<>>)>>
    <3> DEFINE m == Says("system", <<>>)
    <3>1. m \in Messages /\ m.role = "system" /\ history' = Append(<<>>, m)
          /\ <<>> \in Seq(Messages)
      <4>1. "system" \in Roles /\ <<>> \in Words
        BY EmptySeq DEF Words, Roles
      <4>2. m \in Messages
        BY <4>1, SaysTyped
      <4>3. m.role = "system"
        BY DEF Says
      <4> HIDE DEF m
      <4> QED
        BY <2>3, <4>2, <4>3, EmptySeq DEF m
    <3>2. Content(m, Blank) = <<>>
      BY <3>1 DEF Content
    <3> HIDE DEF m
    <3>3. Asked = <<>> /\ Asked' = <<>>
      <4>1. Asked = <<>>
        <5>1. Contents(<<>>) = <<>>
          BY DEF Contents
        <5> QED
          BY <2>1, <5>1, FlattenEmpty DEF Asked, ToContents, Contents
      <4>2. Asked' = Asked \o <<>>
        BY <2>1, <3>1, <3>2, AskedAppended DEF Asked
      <4> QED
        BY <4>1, <4>2
    <3>4. Len(SystemInstruction(history')) = 1 /\ Len(history') = 1
      <4>1. Len(history') = 1 /\ history'[1] = m
        BY <2>3 DEF m
      <4>2. {i \in 1..Len(history') : history'[i].role = "system"} # {}
        <5>1. 1 \in 1..Len(history') /\ history'[1].role = "system"
          BY <3>1, <4>1
        <5> QED
          BY <5>1
      <4>3. \A x : Len(<<x>>) = 1
        OBVIOUS
      <4> QED
        BY <4>1, <4>2, <4>3 DEF SystemInstruction
    <3> QED
      BY <2>1, <3>3, <3>4 DEF AskedInv, Answering
  <2> QED
    BY <1>3, <2>2, <2>3 DEF Begin
<1>4. CASE ReceiveEndOfSpeech
  <2> DEFINE m == Says("user", userText)
  <2>1. history' = Append(history, m) /\ userText # <<>> /\ main' = "thinking"
    BY <1>4 DEF ReceiveEndOfSpeech
  <2>2. m \in Messages /\ m.role = "user" /\ m.said = userText
    BY <1>1, SaysTyped DEF Roles, Says
  <2>3. Content(m, Blank) = <<"user">>
    <3>1. m \notin Blank
      BY <2>1, <2>2 DEF Blank, Says
    <3> HIDE DEF m
    <3> QED
      BY <2>2, <3>1 DEF Content, GeminiRole
  <2> HIDE DEF m
  <2> QED
    BY <1>1, <2>1, <2>2, <2>3, AskedGrows
<1>5. CASE CloseTurn
  <2>1. main = "closing" /\ main' = "cleanup"
    BY <1>5 DEF CloseTurn
  <2>2. CASE reply > 0
    <3> DEFINE m == Says("assistant", <<>>)
    <3>1. history' = Append(history, m)
      BY <1>5, <2>2 DEF CloseTurn
    <3>2. m \in Messages /\ m.role = "assistant"
      BY SaysTyped, EmptySeq DEF Words, Roles, Says
    <3>3. Content(m, Blank) = <<"model">>
      <4>1. m \notin Blank
        BY DEF Blank, Says
      <4> HIDE DEF m
      <4> QED
        BY <3>2, <4>1 DEF Content, GeminiRole
    <3> HIDE DEF m
    <3> QED
      BY <1>1, <2>1, <3>1, <3>2, <3>3, AskedGrows DEF Answering
  <2>3. CASE ~(reply > 0)
    BY <1>2, <1>5, <2>1, <2>3 DEF CloseTurn, Answering
  <2> QED
    BY <2>2, <2>3
<1>6. CASE ReceiveFinal \/ ReturnAtEvent \/ Return \/ Cleanup
  BY <1>2, <1>6 DEF ReceiveFinal, ReturnAtEvent, Return, Cleanup, Answering
<1>7. CASE Think \/ ReceiveChunk \/ PushText \/ ReplyEnds \/ EndInput
  BY <1>2, <1>7 DEF Think, ReceiveChunk, PushText, ReplyEnds, EndInput, Answering
<1>8. CASE AudioJoined \/ PlayedOut
  BY <1>2, <1>8 DEF AudioJoined, PlayedOut, Answering
<1>9. CASE UNCHANGED <<history, main>>
  BY <1>9 DEF AskedInv, Asked
<1>10. CASE Audio \/ Vad
  <2>1. UNCHANGED <<history, main>>
    BY <1>10 DEF Audio, AudioReceive, AudioStarts, AudioCapture, AudioEnds, Vad,
                 StartOfSpeech, Cancel, ClearBuffer
  <2> QED
    BY <1>9, <2>1
<1>11. CASE Outside \/ UNCHANGED vars
  <2>1. UNCHANGED <<history, main>>
    BY <1>11 DEF Outside, InputCloses, FanOutEnds, SttCloses, TtsCloses, Playout,
                 ContextEnds, vars
  <2> QED
    BY <1>9, <2>1
<1> QED
  BY <1>3, <1>4, <1>5, <1>6, <1>7, <1>8, <1>10, <1>11 DEF Next, Listen, Generate

(* However many turns there are and wherever one is cut short or fails,    *)
(* Gemini is asked with the whole conversation, the user's message last    *)
(* and every answer after what it answers.                                 *)
THEOREM RequestOrderHolds == Spec => []RequestOrder
<1>1. AskedInv => RequestOrder
  BY DEF AskedInv, RequestOrder, Asked, Answering, Blank
<1> QED
  BY AskedInit, AskedStep, TypeInvHolds, <1>1, PTL DEF Spec
=============================================================================
