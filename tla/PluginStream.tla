---------------------------- MODULE PluginStream ----------------------------
(***************************************************************************)
(* The stream of a plugin: the goroutine that reads from the service and   *)
(* emits to the channel, its reader, the caller who sends, and the owner   *)
(* who closes.  What plugins/deepgram/stt.go and plugins/cartesia/tts.go   *)
(* have in common, line by line, is here, read from the former; what each  *)
(* does differently is in DeepgramStream and CartesiaStream.  Gemini's, in *)
(* GeminiStream, has the channel in common and little else.                *)
(* The service is external: it sends what it likes, ends the connection    *)
(* when asked or by itself, and may stop taking what is written.           *)
(***************************************************************************)
EXTENDS Naturals, Sequences

CONSTANTS
  MaxMessages,  \* bound: messages from the service
  MaxWork,      \* bound: those and the caller's calls, EndInput apart
  ChanCap       \* capacity of the channel

ASSUME BoundsAssumption ==
  {MaxMessages, MaxWork} \subseteq Nat /\ ChanCap \in Nat \ {0}

VARIABLES
  plugin,      \* whose stream it is
  call,        \* the caller's call that is going on
  calls,       \* how many there have been
  inputEnded,  \* EndInput has been called
  ctxN,        \* Cartesia: st.ctxN, the segments begun
  segment,     \* Cartesia: st.ctxID names segment ctxN, it is not empty
  sent,        \* history: the messages Cartesia has taken
  keeper,      \* Deepgram: is keepAlive running?
  at,          \* where the caller and keepAlive are in send
  conn,        \* the connection, with the service's part in it; none if the dial failed
  reader,      \* the goroutine that reads; it closes the channel as it returns
  got,         \* messages it has read
  pending,     \* items of the last one that it has still to emit
  failed,      \* history: one of them was Cartesia's "error"
  err,         \* st.err is set
  items,       \* the channel
  due,         \* history: the items of those messages, less those received, until Close
  closed,      \* st.closed
  done,        \* st.done is closed; for Gemini, cancel has been called
  closes,      \* history: how often it has been
  closing,     \* where the owner and the watcher are in Close
  ctxDone      \* the context has ended

callVars == <<call, calls, inputEnded, ctxN, segment, sent>>
sendVars == <<keeper, at>>
readVars == <<reader, got, pending, failed, err>>
chanVars == <<items, due>>
closeVars == <<closed, done, closes, closing>>
vars == <<plugin, callVars, sendVars, conn, readVars, chanVars, closeVars, ctxDone>>

Plugins == {"deepgram", "cartesia", "gemini"}
Writers == {"caller", "keeper"}
Closers == {"owner", "watcher"}
(* The service takes what is written, has been asked for the end, or takes *)
(* nothing any more.                                                       *)
Live == {"open", "asked", "stalled"}
Items == {"StartOfSpeech", "InterimTranscript", "FinalTranscript", "EndOfSpeech",
          "audio", "final", "chunk"}

TypeOK ==
  /\ plugin \in Plugins
  /\ call \in {"none", "push", "flush", "reset", "end"}
  /\ calls \in 0..MaxWork
  /\ ctxN \in 0..(MaxWork + 1)
  /\ sent \in Seq([segment : Nat, last : BOOLEAN])
  /\ at \in [Writers -> {"idle", "ready", "writing"}]
  /\ conn \in Live \cup {"none", "lost", "ended", "closed"}
  /\ reader \in {"reading", "failing", "returning", "returned"}
  /\ got \in 0..MaxMessages
  /\ pending \in Seq(Items)
  /\ items \in Seq(Items) /\ Len(items) <= ChanCap
  /\ due \in Seq(Items)
  /\ closes \in Nat
  /\ closing \in [Closers -> {"idle", "flagged", "signalled", "finished"}]
  /\ {inputEnded, segment, keeper, failed, err, closed, done, ctxDone} \subseteq BOOLEAN

(* A stream as it is returned.  If the dial failed nothing runs and the    *)
(* channel is closed.                                                      *)
Opens(p, dialed) ==
  /\ plugin = p
  /\ call = "none" /\ calls = 0 /\ inputEnded = FALSE
  /\ ctxN = 0 /\ segment = FALSE /\ sent = <<>>
  /\ keeper = (dialed /\ p = "deepgram")
  /\ at = [w \in Writers |-> "idle"]
  /\ conn = IF dialed THEN "open" ELSE "none"
  /\ reader = IF dialed THEN "reading" ELSE "returned"
  /\ got = 0 /\ pending = <<>> /\ failed = FALSE
  /\ err = ~dialed
  /\ items = <<>> /\ due = <<>>
  /\ closed = FALSE /\ done = FALSE /\ closes = 0
  /\ closing = [c \in Closers |->
                  IF c = "owner" \/ (dialed /\ p # "gemini") THEN "idle" ELSE "finished"]
  /\ ctxDone = FALSE

-----------------------------------------------------------------------------
(* send.  It looks at the stream under st.mu and returns at once if it is  *)
(* shut; it writes under st.sendMu.                                        *)

(* Cartesia's Flush has still something to do after it.                    *)
AfterSend == IF plugin = "cartesia" /\ call \in {"flush", "end"} THEN "reset" ELSE "none"

SendRefused ==
  /\ call \notin {"none", "reset"} /\ at["caller"] = "idle"
  /\ conn = "none" \/ closed
  /\ call' = AfterSend
  /\ UNCHANGED <<plugin, calls, inputEnded, ctxN, segment, sent, sendVars, conn,
                 readVars, chanVars, closeVars, ctxDone>>

SendBegins(w) ==
  /\ at[w] = "idle"
  /\ IF w = "caller" THEN call \notin {"none", "reset"} ELSE keeper
  /\ conn # "none" /\ ~closed
  /\ at' = [at EXCEPT ![w] = "ready"]
  /\ UNCHANGED <<plugin, callVars, keeper, conn, readVars, chanVars, closeVars, ctxDone>>

WriteBegins(w) ==
  /\ at[w] = "ready"
  /\ \A v \in Writers : at[v] # "writing"
  /\ at' = [at EXCEPT ![w] = "writing"]
  /\ UNCHANGED <<plugin, callVars, keeper, conn, readVars, chanVars, closeVars, ctxDone>>

(* Mutant: a write goes on waiting when the connection has ended.          *)
WriteMayEndIfTaken == conn \in {"open", "asked"}

(* A write ends when the service takes it or the connection has ended.     *)
WriteMayEnd == conn # "stalled"

(* Its error is dropped.  Deepgram's EndInput asks for the end.            *)
WriteEnds(w) ==
  /\ at[w] = "writing"
  /\ WriteMayEnd
  /\ at' = [at EXCEPT ![w] = "idle"]
  /\ IF w = "caller"
     THEN /\ call' = AfterSend
          /\ sent' = IF conn \in Live /\ plugin = "cartesia"
                     THEN Append(sent, [segment |-> ctxN, last |-> call # "push"])
                     ELSE sent
          /\ conn' = IF plugin = "deepgram" /\ call = "end" /\ conn = "open"
                     THEN "asked" ELSE conn
     ELSE UNCHANGED <<call, sent, conn>>
  /\ UNCHANGED <<plugin, calls, inputEnded, ctxN, segment, keeper, readVars, chanVars,
                 closeVars, ctxDone>>

-----------------------------------------------------------------------------
(* readLoop.                                                               *)

(* A message that becomes items; it does not if it cannot be decoded.      *)
Read(new) ==
  /\ reader = "reading" /\ pending = <<>>
  /\ conn \in Live
  /\ got < MaxMessages /\ calls + got < MaxWork
  /\ got' = got + 1
  /\ pending' = new
  /\ due' = IF done THEN due ELSE due \o new
  /\ UNCHANGED <<plugin, callVars, sendVars, conn, reader, items, closeVars, ctxDone>>

(* Mutants: the channel takes any number of items; emit never waits, and a *)
(* full channel drops the item.                                            *)
PutUnbounded == items' = Append(items, Head(pending))
PutOrDrop == items' = IF Len(items) < ChanCap THEN Append(items, Head(pending)) ELSE items

Put ==
  /\ Len(items) < ChanCap
  /\ items' = Append(items, Head(pending))

Emit ==
  /\ reader = "reading" /\ pending # <<>>
  /\ Put
  /\ pending' = Tail(pending)
  /\ UNCHANGED <<plugin, callVars, sendVars, conn, reader, got, failed, err, due,
                 closeVars, ctxDone>>

EmitAbandoned ==
  /\ reader = "reading" /\ pending # <<>>
  /\ done /\ plugin # "gemini"
  /\ pending' = Tail(pending)
  /\ UNCHANGED <<plugin, callVars, sendVars, conn, reader, got, failed, err, chanVars,
                 closeVars, ctxDone>>

(* Mutant: a failed read is an error also of a stream closed on purpose.   *)
OwnFaultAlways == TRUE

(* A failed read is an error unless the stream or its context has ended.   *)
OwnFault == ~ctxDone /\ ~closed

ReadFails ==
  /\ reader = "reading" /\ pending = <<>>
  /\ conn \notin Live /\ plugin # "gemini"
  /\ reader' = IF OwnFault THEN "failing" ELSE "returning"
  /\ UNCHANGED <<plugin, callVars, sendVars, conn, got, pending, failed, err, chanVars,
                 closeVars, ctxDone>>

SetErr ==
  /\ reader = "failing"
  /\ err' = TRUE
  /\ reader' = "returning"
  /\ UNCHANGED <<plugin, callVars, sendVars, conn, got, pending, failed, chanVars,
                 closeVars, ctxDone>>

(* Mutant: the channel is closed before the error is set.                  *)
CloseChanFirst ==
  /\ reader \in {"failing", "returning"}
  /\ reader' = "returned"
  /\ UNCHANGED <<plugin, callVars, sendVars, conn, got, pending, failed, err, chanVars,
                 closeVars, ctxDone>>

(* Deferred: the channel is closed.                                        *)
CloseChan ==
  /\ reader = "returning"
  /\ reader' = "returned"
  /\ UNCHANGED <<plugin, callVars, sendVars, conn, got, pending, failed, err, chanVars,
                 closeVars, ctxDone>>

-----------------------------------------------------------------------------
(* Close, by the owner and by the watcher that waits for the context.      *)

(* Mutant: Close does not look whether it has been called.                 *)
AfterFlagAlways == "flagged"
AfterFlag == IF closed THEN "finished" ELSE "flagged"

CloseBegins(c) ==
  /\ closing[c] = "idle"
  /\ c = "owner" \/ ctxDone
  /\ closed' = TRUE
  /\ closing' = [closing EXCEPT ![c] = AfterFlag]
  /\ UNCHANGED <<plugin, callVars, sendVars, conn, readVars, chanVars, done, closes,
                 ctxDone>>

(* Gemini's Close has no connection to close: it ends with cancel.         *)
CloseSignals(c) ==
  /\ closing[c] = "flagged"
  /\ done' = TRUE
  /\ closes' = closes + 1
  /\ due' = <<>>
  /\ closing' = [closing EXCEPT ![c] = IF plugin = "gemini" THEN "finished" ELSE "signalled"]
  /\ UNCHANGED <<plugin, callVars, sendVars, conn, readVars, items, closed, ctxDone>>

(* Mutant: the connection is closed under sendMu.                          *)
ConnLockTaken == \A w \in Writers : at[w] # "writing"
(* It is closed without a lock, also in the middle of a write.             *)
ConnLock == TRUE

CloseConn(c) ==
  /\ closing[c] = "signalled"
  /\ ConnLock
  /\ conn' = IF conn \in Live THEN "closed" ELSE conn
  /\ closing' = [closing EXCEPT ![c] = "finished"]
  /\ UNCHANGED <<plugin, callVars, sendVars, readVars, chanVars, closed, done, closes,
                 ctxDone>>

WatcherReturns ==
  /\ closing["watcher"] = "idle"
  /\ done
  /\ closing' = [closing EXCEPT !["watcher"] = "finished"]
  /\ UNCHANGED <<plugin, callVars, sendVars, conn, readVars, chanVars, closed, done,
                 closes, ctxDone>>

-----------------------------------------------------------------------------
(* External: the reader of the channel, the service, the context.          *)

Receive ==
  /\ items # <<>>
  /\ items' = Tail(items)
  /\ due' = IF due = <<>> THEN due ELSE Tail(due)
  /\ UNCHANGED <<plugin, callVars, sendVars, conn, readVars, closeVars, ctxDone>>

ConnBecomes(c) ==
  /\ conn \in Live
  /\ conn' = c
  /\ UNCHANGED <<plugin, callVars, sendVars, readVars, chanVars, closeVars, ctxDone>>

ConnEnds == ConnBecomes("lost")
ServerStalls == conn # "stalled" /\ ConnBecomes("stalled")

ContextEnds ==
  /\ ~ctxDone
  /\ ctxDone' = TRUE
  /\ UNCHANGED <<plugin, callVars, sendVars, conn, readVars, chanVars, closeVars>>
=============================================================================
