------------------------ MODULE XmppConnectionProofs ------------------------
(***************************************************************************)
(* Proofs about XmppConnection, for any features of the server, any TLS    *)
(* option and any number of stanzas: with TLS required no credentials are  *)
(* sent, and no session opens, before the socket has been asked for TLS,   *)
(* nor while it is setting TLS up; nothing that the engine has printed is  *)
(* left in its buffer when the thread has left it; the pump tells of each  *)
(* state once, and of the end last; the application's stanzas are written  *)
(* in order, and none is lost; and a stream that starts over takes nothing *)
(* from the one before it.                                                 *)
(***************************************************************************)
EXTENDS XmppConnection, ListsProofs

\* What the buffers are made of.
Kinds == {"stanza", "start", "starttls", "auth", "response", "bind", "session",
          "error", "end"}
Elements == [what : Kinds, no : Nat]

Typed ==
  /\ accepted \in Nat
  /\ queued \in Seq(Elements)
  /\ output \in Seq(Elements)
  /\ handler \in BOOLEAN

\* Until the socket has been asked for TLS, TLS that is required stays required, the
\* login is not past the server's features, and no credentials have been printed.
TlsFirst ==
  useTls = "required" =>
    \/ encrypted
    \/ /\ tls = "required" /\ auth
       /\ login \notin {"SASL_RUNNING", "BIND_REQUESTED", "SESSION_REQUESTED"}
       /\ \A i \in DOMAIN output : output[i].what # "auth"

\* The buffer is written whenever the engine is left, since its output handler
\* is taken away only when the engine closes, and then at once.
Flushed ==
  /\ pc \in {"idle", "told"} => output = <<>>
  /\ state \in {"START", "OPENING", "OPEN"} => handler
  /\ ~handler => pc \in {"idle", "told"}
  /\ state = "OPEN" => queued = <<>> /\ login = "GONE"

IInv == Typed /\ TlsFirst /\ Flushed

-----------------------------------------------------------------------------
\* Nothing is printed that was not in the buffer or in what is added to it.
LEMMA Printing ==
  ASSUME NEW s \in Seq(Elements), NEW t \in Seq(Elements),
         \A i \in DOMAIN s : s[i].what # "auth",
         \A i \in DOMAIN t : t[i].what # "auth"
  PROVE  /\ s \o t \in Seq(Elements)
         /\ \A i \in DOMAIN (s \o t) : (s \o t)[i].what # "auth"
<1>1. s \o t \in Seq(Elements)
  OBVIOUS
<1>2. ASSUME NEW i \in DOMAIN (s \o t)
      PROVE  (s \o t)[i].what # "auth"
  <2>1. i \in 1 .. Len(s) + Len(t)
    OBVIOUS
  <2>2. CASE i <= Len(s)
    <3>1. (s \o t)[i] = s[i] /\ i \in DOMAIN s
      BY <2>1, <2>2
    <3> QED BY <3>1
  <2>3. CASE ~(i <= Len(s))
    <3>1. (s \o t)[i] = t[i - Len(s)] /\ i - Len(s) \in DOMAIN t
      BY <2>1, <2>3
    <3> QED BY <3>1
  <2> QED BY <2>2, <2>3
<1> QED BY <1>1, <1>2

LEMMA Messages ==
  /\ \A w \in Kinds : Msg(w) \in Elements /\ Msg(w).what = w
  /\ \A n \in Nat : Own(n) \in Elements /\ Own(n).what = "stanza"
<1>1. ASSUME NEW w \in Kinds
      PROVE  Msg(w) \in Elements /\ Msg(w).what = w
  BY DEF Msg, Elements
<1>2. ASSUME NEW n \in Nat
      PROVE  Own(n) \in Elements /\ Own(n).what = "stanza"
  BY DEF Own, Elements, Kinds
<1> QED BY <1>1, <1>2

LEMMA Buffers ==
  /\ <<>> \in Seq(Elements)
  /\ \A s \in Seq(Elements), e \in Elements : s \o <<e>> \in Seq(Elements)
  /\ \A s, t \in Seq(Elements) : s \o t \in Seq(Elements)
<1>1. <<>> \in Seq(Elements)
  OBVIOUS
<1>2. ASSUME NEW s \in Seq(Elements), NEW t \in Seq(Elements)
      PROVE  s \o t \in Seq(Elements)
  OBVIOUS
<1>3. ASSUME NEW e \in Elements PROVE <<e>> \in Seq(Elements)
  OBVIOUS
<1> QED BY <1>1, <1>2, <1>3

\* An element that is not the credentials is printed.
LEMMA PrintingOne ==
  ASSUME NEW s \in Seq(Elements), NEW e \in Elements, e.what # "auth",
         \A i \in DOMAIN s : s[i].what # "auth"
  PROVE  \A i \in DOMAIN (s \o <<e>>) : (s \o <<e>>)[i].what # "auth"
<1>1. <<e>> \in Seq(Elements) /\ \A i \in DOMAIN <<e>> : <<e>>[i].what # "auth"
  OBVIOUS
<1> QED BY <1>1, Printing

-----------------------------------------------------------------------------
LEMMA Initially == Init => IInv
<1> SUFFICES ASSUME Init PROVE IInv
  OBVIOUS
<1>1. Typed /\ Flushed
  <2>1. <<>> \in Seq(Elements)
    OBVIOUS
  <2> QED BY <2>1 DEF Init, Typed, Flushed
<1>2. TlsFirst
  BY DEF Init, TlsFirst
<1> QED BY <1>1, <1>2 DEF IInv

\* What the pump, the client's task and the socket do.
LEMMA OutsideKeeps ==
  ASSUME IInv,
         \/ DoLogin \/ Run \/ EndTold
         \/ SocketConnected \/ TlsConnected \/ SocketClosed \/ Read
  PROVE  IInv'
<1> USE DEF IInv
<1>1. CASE DoLogin
  <2>1. Typed'
    BY <1>1 DEF DoLogin, Tell, Typed, logging, conn
  <2>2. TlsFirst'
    BY <1>1 DEF DoLogin, Tell, Typed, TlsFirst, logging, conn
  <2>3. Flushed'
    BY <1>1 DEF DoLogin, Tell, Typed, Flushed, logging, conn
  <2> QED BY <2>1, <2>2, <2>3
<1>2. CASE Run
  <2>1. Typed'
    BY <1>2 DEF Run, RunStart, RunResponse, Tell, Typed, logging, conn
  <2>2. TlsFirst'
    BY <1>2 DEF Run, RunStart, RunResponse, Tell, Typed, TlsFirst, logging, conn
  <2>3. Flushed'
    BY <1>2 DEF Run, RunStart, RunResponse, Tell, Typed, Flushed, logging, conn
  <2> QED BY <2>1, <2>2, <2>3
<1>3. CASE EndTold
  <2>1. Typed'
    BY <1>3 DEF EndTold, Typed, logging, conn
  <2>2. TlsFirst'
    BY <1>3 DEF EndTold, Typed, TlsFirst, logging, conn
  <2>3. Flushed'
    BY <1>3 DEF EndTold, Typed, Flushed, logging, conn
  <2> QED BY <2>1, <2>2, <2>3
<1>4. CASE SocketConnected
  <2>1. Typed'
    BY <1>4 DEF SocketConnected, Typed, logging, conn
  <2>2. TlsFirst'
    BY <1>4 DEF SocketConnected, Typed, TlsFirst, logging, conn
  <2>3. Flushed'
    BY <1>4 DEF SocketConnected, Typed, Flushed, logging, conn
  <2> QED BY <2>1, <2>2, <2>3
<1>5. CASE TlsConnected
  <2>1. Typed'
    BY <1>5 DEF TlsConnected, Typed, logging, conn
  <2>2. TlsFirst'
    BY <1>5 DEF TlsConnected, Typed, TlsFirst, logging, conn
  <2>3. Flushed'
    BY <1>5 DEF TlsConnected, Typed, Flushed, logging, conn
  <2> QED BY <2>1, <2>2, <2>3
<1>6. CASE SocketClosed
  <2>1. Typed'
    BY <1>6 DEF SocketClosed, Typed, logging, conn
  <2>2. TlsFirst'
    BY <1>6 DEF SocketClosed, Typed, TlsFirst, logging, conn
  <2>3. Flushed'
    BY <1>6 DEF SocketClosed, Typed, Flushed, logging, conn
  <2> QED BY <2>1, <2>2, <2>3
<1>7. CASE Read
  <2>1. Typed'
    BY <1>7 DEF Read, Typed, logging, conn
  <2>2. TlsFirst'
    BY <1>7 DEF Read, Typed, TlsFirst, logging, conn
  <2>3. Flushed'
    BY <1>7 DEF Read, Typed, Flushed, logging, conn
  <2> QED BY <2>1, <2>2, <2>3
<1> QED BY <1>1, <1>2, <1>3, <1>4, <1>5, <1>6, <1>7

\* ~EnterExit leaves nothing in the buffer, for it has an output handler as long
\* as the engine is not closed.
LEMMA ExitKeeps ==
  ASSUME IInv,
         NEW s, NEW from, NEW out \in Seq(Elements), Exit(s, from, out),
         s = state \/ s = "CLOSED",
         ~handler => out = <<>>,
         \/ out = output
         \/ \E e \in Elements : e.what # "auth" /\ out = output \o <<e>>,
         UNCHANGED <<logging, accepted>>
  PROVE  IInv'
<1> USE DEF IInv
<1>1. output' = out \/ output' = <<>>
  BY DEF Exit
<1>2. Typed'
  <2>1. output' \in Seq(Elements)
    <3>1. CASE output' = out
      BY <3>1
    <3>2. CASE output' = <<>>
      BY <3>2, Buffers
    <3> QED BY <1>1, <3>1, <3>2
  <2> QED BY <2>1 DEF Exit, Typed, logging
<1>3. TlsFirst'
  <2>1. ASSUME \A i \in DOMAIN output : output[i].what # "auth"
        PROVE  \A i \in DOMAIN out : out[i].what # "auth"
    BY <2>1, PrintingOne DEF Typed
  <2>2. ASSUME \A i \in DOMAIN output : output[i].what # "auth"
        PROVE  \A i \in DOMAIN output' : output'[i].what # "auth"
    <3>1. CASE output' = out
      BY <2>1, <2>2, <3>1
    <3>2. CASE output' = <<>>
      BY <3>2
    <3> QED BY <1>1, <3>1, <3>2
  <2> QED BY <2>2 DEF TlsFirst, logging
<1>4. Flushed'
  BY DEF Exit, Typed, Flushed, logging
<1> QED BY <1>2, <1>3, <1>4

LEMMA DisconnectKeeps == ASSUME IInv, DoDisconnect PROVE IInv'
<1> USE DEF IInv
<1>1. CASE state # "CLOSED"
  <2> DEFINE out == IF state = "OPEN" THEN output \o <<Msg("end")>> ELSE output
  <2>1. Msg("end") \in Elements /\ Msg("end").what # "auth"
    BY Messages DEF Kinds
  <2>2. out \in Seq(Elements)
    BY <2>1 DEF Typed
  <2>3. Exit("CLOSED", state, out) /\ UNCHANGED <<logging, accepted>> /\ pc = "idle"
    BY <1>1 DEF DoDisconnect
  <2>4. ~handler => out = <<>>
    BY <2>3 DEF Flushed
  <2> HIDE DEF IInv
  <2>5. \/ out = output
        \/ \E e \in Elements : e.what # "auth" /\ out = output \o <<e>>
    BY <2>1
  <2> HIDE DEF out
  <2> QED BY <2>2, <2>3, <2>4, <2>5, ExitKeeps
<1>2. CASE state = "CLOSED"
  <2>1. UNCHANGED <<state, output, handler, pc, logging, accepted>>
    BY <1>2 DEF DoDisconnect
  <2>2. Typed' /\ Flushed'
    BY <2>1 DEF Typed, Flushed, logging
  <2>3. TlsFirst'
    BY <2>1 DEF TlsFirst, logging
  <2> QED BY <2>2, <2>3
<1> QED BY <1>1, <1>2

LEMMA EndReadKeeps == ASSUME IInv, EndRead PROVE IInv'
<1>1. pc = "input" /\ Exit(state, saved, output) /\ UNCHANGED <<logging, accepted>>
  BY DEF EndRead
<1>2. handler /\ output \in Seq(Elements)
  BY <1>1 DEF IInv, Typed, Flushed
<1> QED BY <1>1, <1>2, ExitKeeps

LEMMA SendKeeps == ASSUME IInv, SendStanza PROVE IInv'
<1> USE DEF IInv
<1>1. accepted' = accepted + 1 /\ accepted' \in Nat
  BY DEF SendStanza, Typed
<1>2. Own(accepted') \in Elements /\ Own(accepted').what # "auth"
  BY <1>1, Messages
<1>3. /\ UNCHANGED <<state, login, auth, useTls, tls, encrypted, handler, pc>>
      /\ \/ queued' = queued \o <<Own(accepted')>> /\ login # "GONE" /\ output' = output
         \/ /\ queued' = queued
            /\ \/ output' = output \o <<Own(accepted')>> /\ pc = "stanza"
               \/ output' = <<>>
  BY DEF SendStanza
<1>4. Typed'
  <2>1. queued' \in Seq(Elements) /\ output' \in Seq(Elements)
    BY <1>2, <1>3, Buffers DEF Typed
  <2> QED BY <1>1, <1>3, <2>1 DEF Typed
<1>5. TlsFirst'
  <2>1. ASSUME \A i \in DOMAIN output : output[i].what # "auth"
        PROVE  \A i \in DOMAIN output' : output'[i].what # "auth"
    <3>1. CASE output' = output
      BY <2>1, <3>1
    <3>2. CASE output' = output \o <<Own(accepted')>>
      <4>1. output \in Seq(Elements)
        BY DEF Typed
      <4> QED BY <1>2, <2>1, <3>2, <4>1, PrintingOne
    <3>3. CASE output' = <<>>
      BY <3>3
    <3> QED BY <1>3, <3>1, <3>2, <3>3
  <2> QED BY <1>3, <2>1 DEF TlsFirst
<1>6. Flushed'
  BY <1>3 DEF Flushed
<1> QED BY <1>4, <1>5, <1>6

-----------------------------------------------------------------------------
\* An element of the stream.
LEMMA LoginFailsKeeps ==
  ASSUME IInv, pc = "input", LoginFails PROVE IInv'
<1>1. /\ UNCHANGED <<accepted, output, handler, pc, auth, useTls, tls, encrypted>>
      /\ login' = "GONE" /\ queued' = <<>> /\ state' = "CLOSED"
  BY DEF LoginFails, Fails, within
<1>2. Typed'
  BY <1>1, Buffers DEF IInv, Typed
<1>3. TlsFirst'
  BY <1>1 DEF IInv, TlsFirst
<1>4. Flushed'
  BY <1>1 DEF IInv, Flushed
<1> QED BY <1>2, <1>3, <1>4 DEF IInv

\* The login goes on with an element that is not the credentials.
LEMMA AdvancesKeep ==
  ASSUME IInv, pc = "input", state # "OPEN",
         NEW l, NEW e \in Elements, e.what # "auth",
         login' = l, output' = output \o <<e>>,
         UNCHANGED <<accepted, queued, handler, pc, state, useTls>>,
         useTls = "required" =>
           \/ encrypted'
           \/ /\ encrypted' = encrypted /\ tls' = tls /\ auth' = auth
              /\ l \notin {"SASL_RUNNING", "BIND_REQUESTED", "SESSION_REQUESTED"}
  PROVE  IInv'
<1>1. output \in Seq(Elements)
  BY DEF IInv, Typed
<1>2. Typed'
  BY <1>1, Buffers DEF IInv, Typed
<1>3. ASSUME \A i \in DOMAIN output : output[i].what # "auth"
      PROVE  \A i \in DOMAIN output' : output'[i].what # "auth"
  BY <1>1, <1>3, PrintingOne
<1>4. TlsFirst'
  BY <1>3 DEF IInv, TlsFirst
<1>5. Flushed'
  BY DEF IInv, Flushed
<1> QED BY <1>2, <1>4, <1>5 DEF IInv

\* In the login the session is not open.
LEMMA NotOpen == ASSUME IInv, login # "GONE" PROVE state # "OPEN"
BY DEF IInv, Flushed

LEMMA FeaturesKeep ==
  ASSUME IInv, NEW has, Features(has) PROVE IInv'
<1>1. pc = "input" /\ state # "OPEN" /\ login = "STARTED_XMPP"
  BY NotOpen DEF Features, Hears
<1>2. CASE TlsInit
  <2>1. Msg("starttls") \in Elements /\ Msg("starttls").what # "auth"
    BY Messages DEF Kinds
  <2>2. /\ login' = "TLS_REQUESTED" /\ output' = output \o <<Msg("starttls")>>
        /\ UNCHANGED <<accepted, queued, handler, pc, state, useTls, encrypted, tls, auth>>
    BY <1>2 DEF TlsInit, Advances, within
  <2>3. useTls = "required" =>
           \/ encrypted'
           \/ /\ encrypted' = encrypted /\ tls' = tls /\ auth' = auth
              /\ "TLS_REQUESTED" \notin {"SASL_RUNNING", "BIND_REQUESTED", "SESSION_REQUESTED"}
    BY <2>2
  <2> QED BY <1>1, <2>1, <2>2, <2>3, AdvancesKeep
<1>3. CASE LoginFails
  BY <1>1, <1>3, LoginFailsKeeps
<1>4. ASSUME tls # "required" PROVE useTls = "required" => encrypted
  BY <1>4 DEF IInv, TlsFirst
<1>5. ASSUME tls # "required", NEW w \in Kinds, NEW l,
             Advances(l, <<Msg(w)>>, "silent"), l # "GONE",
             UNCHANGED <<auth, useTls, tls, encrypted, queued, reset>>
      PROVE  IInv'
  <2>1. /\ login' = l /\ output' = output \o <<Msg(w)>>
        /\ UNCHANGED <<accepted, queued, handler, pc, state, useTls, encrypted>>
    BY <1>5 DEF Advances, within
  <2>2. output \in Seq(Elements) /\ Msg(w) \in Elements
    BY Messages DEF IInv, Typed
  <2>3. Typed'
    BY <2>1, <2>2, Buffers DEF IInv, Typed
  <2>4. TlsFirst'
    BY <1>4, <1>5, <2>1 DEF TlsFirst
  <2>5. Flushed'
    BY <1>1, <2>1 DEF IInv, Flushed
  <2> QED BY <2>3, <2>4, <2>5 DEF IInv
<1>6. CASE tls # "required" /\ (AuthInit(has) \/ BindInit(has)) /\ ~LoginFails
  <2>1. \/ Advances("SASL_RUNNING", <<Msg("auth")>>, "silent")
        \/ Advances("BIND_REQUESTED", <<Msg("bind")>>, "silent")
    BY <1>6 DEF AuthInit, BindInit
  <2>2. UNCHANGED <<auth, useTls, tls, encrypted, queued, reset>>
    BY <1>6 DEF AuthInit, BindInit
  <2>3. "auth" \in Kinds /\ "bind" \in Kinds
    BY DEF Kinds
  <2>4. CASE Advances("SASL_RUNNING", <<Msg("auth")>>, "silent")
    BY <1>5, <1>6, <2>2, <2>3, <2>4
  <2>5. CASE Advances("BIND_REQUESTED", <<Msg("bind")>>, "silent")
    BY <1>5, <1>6, <2>2, <2>3, <2>5
  <2> QED BY <2>1, <2>4, <2>5
<1> QED BY <1>2, <1>3, <1>6 DEF Features

LEMMA ProceedKeeps ==
  ASSUME IInv, NEW starts \in BOOLEAN, Proceed(starts) PROVE IInv'
<1>1. pc = "input" /\ state # "OPEN" /\ login = "TLS_REQUESTED"
  BY NotOpen DEF Proceed, StartTls, Hears
<1>2. Msg("start") \in Elements /\ Msg("start").what # "auth"
  BY Messages DEF Kinds
<1>3. /\ login' = "STREAMSTART_SENT" /\ output' = output \o <<Msg("start")>>
      /\ UNCHANGED <<accepted, queued, handler, pc, state, useTls>>
      /\ encrypted' = TRUE
  BY DEF Proceed, StartTls
<1>4. useTls = "required" =>
         \/ encrypted'
         \/ /\ encrypted' = encrypted /\ tls' = tls /\ auth' = auth
            /\ "STREAMSTART_SENT" \notin {"SASL_RUNNING", "BIND_REQUESTED", "SESSION_REQUESTED"}
  BY <1>1, <1>3 DEF IInv, TlsFirst
<1> QED BY <1>1, <1>2, <1>3, <1>4, AdvancesKeep

LEMMA ChallengeKeeps ==
  ASSUME IInv, Challenge PROVE IInv'
<1>1. pc = "input" /\ state # "OPEN" /\ login = "SASL_RUNNING"
  BY NotOpen DEF Challenge, Hears
<1>2. Msg("response") \in Elements /\ Msg("response").what # "auth"
  BY Messages DEF Kinds
<1>3. /\ login' = "SASL_RUNNING" /\ output' = output \o <<Msg("response")>>
      /\ UNCHANGED <<accepted, queued, handler, pc, state, useTls>>
      /\ UNCHANGED <<auth, tls, encrypted>>
  BY DEF Challenge, Advances, within
<1>4. useTls = "required" =>
         \/ encrypted'
         \/ /\ encrypted' = encrypted /\ tls' = tls /\ auth' = auth
            /\ "SASL_RUNNING" \notin {"SASL_RUNNING", "BIND_REQUESTED", "SESSION_REQUESTED"}
  BY <1>1, <1>3 DEF IInv, TlsFirst
<1> QED BY <1>1, <1>2, <1>3, <1>4, AdvancesKeep

LEMMA SuccessKeeps ==
  ASSUME IInv, Success PROVE IInv'
<1>1. pc = "input" /\ state # "OPEN" /\ login = "SASL_RUNNING"
  BY NotOpen DEF Success, Hears
<1>2. Msg("start") \in Elements /\ Msg("start").what # "auth"
  BY Messages DEF Kinds
<1>3. /\ login' = "STREAMSTART_SENT" /\ output' = output \o <<Msg("start")>>
      /\ UNCHANGED <<accepted, queued, handler, pc, state, useTls>>
      /\ UNCHANGED encrypted
  BY DEF Success, StartsOver, Advances, within
<1>4. useTls = "required" =>
         \/ encrypted'
         \/ /\ encrypted' = encrypted /\ tls' = tls /\ auth' = auth
            /\ "STREAMSTART_SENT" \notin {"SASL_RUNNING", "BIND_REQUESTED", "SESSION_REQUESTED"}
  BY <1>1, <1>3 DEF IInv, TlsFirst
<1> QED BY <1>1, <1>2, <1>3, <1>4, AdvancesKeep

LEMMA BoundKeeps ==
  ASSUME IInv, NEW good \in BOOLEAN, Bound(good) PROVE IInv'
<1>1. pc = "input" /\ state # "OPEN" /\ login = "BIND_REQUESTED"
  BY NotOpen DEF Bound, Hears
<1>2. CASE good
  <2>1. Msg("session") \in Elements /\ Msg("session").what # "auth"
    BY Messages DEF Kinds
  <2>2. /\ login' = "SESSION_REQUESTED" /\ output' = output \o <<Msg("session")>>
        /\ UNCHANGED <<accepted, queued, handler, pc, state, useTls, encrypted>>
    BY <1>2 DEF Bound, Advances, within
  <2>3. useTls = "required" => encrypted'
    BY <1>1, <2>2 DEF IInv, TlsFirst
  <2> QED BY <1>1, <2>1, <2>2, <2>3, AdvancesKeep
<1>3. CASE ~good
  BY <1>1, <1>3, LoginFailsKeeps DEF Bound
<1> QED BY <1>2, <1>3

LEMMA StreamStartKeeps ==
  ASSUME IInv, NEW good \in BOOLEAN, StreamStart(good) PROVE IInv'
<1>1. pc = "input" /\ state # "OPEN" /\ login = "STREAMSTART_SENT"
  BY NotOpen DEF StreamStart, Hears
<1>2. CASE good
  <2>1. output \o <<>> = output
    BY DEF IInv, Typed
  <2>2. /\ login' = "STARTED_XMPP" /\ output' = output
        /\ UNCHANGED <<accepted, queued, handler, pc, state, useTls, encrypted, tls, auth>>
    BY <1>2, <2>1 DEF StreamStart, Advances, within
  <2>3. Typed' /\ Flushed'
    BY <1>1, <2>2 DEF IInv, Typed, Flushed
  <2>4. TlsFirst'
    BY <1>1, <2>2 DEF IInv, TlsFirst
  <2> QED BY <2>3, <2>4 DEF IInv
<1>3. CASE ~good
  BY <1>1, <1>3, LoginFailsKeeps DEF StreamStart
<1> QED BY <1>2, <1>3

LEMMA SessionStartedKeeps ==
  ASSUME IInv, NEW good \in BOOLEAN, SessionStarted(good) PROVE IInv'
<1>1. pc = "input" /\ state # "OPEN" /\ login = "SESSION_REQUESTED"
  BY NotOpen DEF SessionStarted, Hears
<1>2. CASE good
  <2>1. /\ login' = "GONE" /\ output' = output \o queued /\ queued' = <<>>
        /\ UNCHANGED <<accepted, handler, pc, useTls, encrypted>>
    BY <1>2 DEF SessionStarted, within
  <2>2. output' \in Seq(Elements) /\ queued' \in Seq(Elements)
    BY <2>1, Buffers DEF IInv, Typed
  <2>3. Typed'
    BY <2>1, <2>2 DEF IInv, Typed
  <2>4. TlsFirst'
    BY <1>1, <2>1 DEF IInv, TlsFirst
  <2>5. Flushed'
    BY <1>1, <2>1 DEF IInv, Flushed
  <2> QED BY <2>3, <2>4, <2>5 DEF IInv
<1>3. CASE ~good
  BY <1>1, <1>3, LoginFailsKeeps DEF SessionStarted
<1> QED BY <1>2, <1>3

LEMMA StanzaKeeps ==
  ASSUME IInv, \/ StreamEnds \/ Stanza \/ \E unhandled \in BOOLEAN : EndStanza(unhandled)
  PROVE  IInv'
<1>1. CASE StreamEnds
  <2>1. /\ UNCHANGED <<logging, accepted, output, handler, pc>> /\ pc = "input"
        /\ state' = "CLOSED"
    BY <1>1 DEF StreamEnds, Hears, Fails, within
  <2>2. Typed' /\ Flushed'
    BY <2>1 DEF IInv, Typed, Flushed, logging
  <2>3. TlsFirst'
    BY <2>1 DEF IInv, TlsFirst, logging
  <2> QED BY <2>2, <2>3 DEF IInv
<1>2. CASE Stanza
  <2>1. /\ UNCHANGED <<state, logging, accepted, output, handler>>
        /\ pc = "input" /\ pc' = "stanza"
    BY <1>2 DEF Stanza, Hears, within
  <2>2. Typed' /\ Flushed'
    BY <2>1 DEF IInv, Typed, Flushed, logging
  <2>3. TlsFirst'
    BY <2>1 DEF IInv, TlsFirst, logging
  <2> QED BY <2>2, <2>3 DEF IInv
<1>3. ASSUME NEW unhandled \in BOOLEAN, EndStanza(unhandled) PROVE IInv'
  <2>1. /\ UNCHANGED <<state, logging, accepted, handler>>
        /\ pc = "stanza" /\ pc' = "input"
        /\ output' = output \/ output' = output \o <<Msg("error")>>
    BY <1>3 DEF EndStanza, within
  <2>2. Msg("error") \in Elements /\ Msg("error").what # "auth"
    BY Messages DEF Kinds
  <2>3. output \in Seq(Elements)
    BY DEF IInv, Typed
  <2>4. Typed'
    <3>1. output' \in Seq(Elements)
      BY <2>1, <2>2, <2>3, Buffers
    <3> QED BY <2>1, <3>1 DEF IInv, Typed, logging
  <2>5. ASSUME \A i \in DOMAIN output : output[i].what # "auth"
        PROVE  \A i \in DOMAIN output' : output'[i].what # "auth"
    <3>1. CASE output' = output
      BY <2>5, <3>1
    <3>2. CASE output' = output \o <<Msg("error")>>
      BY <2>2, <2>3, <2>5, <3>2, PrintingOne
    <3> QED BY <2>1, <3>1, <3>2
  <2>6. TlsFirst'
    BY <2>1, <2>5 DEF IInv, TlsFirst, logging
  <2>7. Flushed'
    BY <2>1 DEF IInv, Flushed, logging
  <2> QED BY <2>4, <2>6, <2>7 DEF IInv
<1> QED BY <1>1, <1>2, <1>3

-----------------------------------------------------------------------------
LEMMA Inductive == IInv /\ [Next]_vars => IInv'
<1> SUFFICES ASSUME IInv, [Next]_vars PROVE IInv'
  OBVIOUS
<1>1. CASE \/ DoLogin \/ Run \/ EndTold
           \/ SocketConnected \/ TlsConnected \/ SocketClosed \/ Read
  BY <1>1, OutsideKeeps
<1>2. CASE DoDisconnect
  BY <1>2, DisconnectKeeps
<1>3. CASE SendStanza
  BY <1>3, SendKeeps
<1>4. CASE EndRead
  BY <1>4, EndReadKeeps
<1>5. CASE Element
  <2>1. ASSUME NEW good \in BOOLEAN,
               StreamStart(good) \/ Bound(good) \/ SessionStarted(good)
        PROVE  IInv'
    BY <2>1, StreamStartKeeps, BoundKeeps, SessionStartedKeeps
  <2>2. ASSUME NEW has \in FeatureSets, Features(has) PROVE IInv'
    BY <2>2, FeaturesKeep
  <2>3. ASSUME NEW starts \in BOOLEAN, Proceed(starts) PROVE IInv'
    BY <2>3, ProceedKeeps
  <2>4. CASE Challenge
    BY <2>4, ChallengeKeeps
  <2>5. CASE Success
    BY <2>5, SuccessKeeps
  <2>6. CASE Unexpected
    <3>1. pc = "input" /\ LoginFails
      BY <2>6 DEF Unexpected, Hears
    <3> QED BY <3>1, LoginFailsKeeps
  <2>7. CASE StreamEnds \/ Stanza \/ \E unhandled \in BOOLEAN : EndStanza(unhandled)
    BY <2>7, StanzaKeeps
  <2> QED BY <1>5, <2>1, <2>2, <2>3, <2>4, <2>5, <2>6, <2>7 DEF Element
<1>6. CASE UNCHANGED vars
  <2>1. UNCHANGED <<accepted, queued, output, handler, useTls, encrypted, tls,
                    auth, login, pc, state>>
    BY <1>6 DEF vars, conn, logging
  <2>2. Typed' /\ Flushed'
    BY <2>1 DEF IInv, Typed, Flushed
  <2>3. TlsFirst'
    BY <2>1 DEF IInv, TlsFirst
  <2> QED BY <2>2, <2>3 DEF IInv
<1> QED BY <1>1, <1>2, <1>3, <1>4, <1>5, <1>6 DEF Next

\* The inductive invariant holds of every reachable state of the connection.
THEOREM Invariance == Spec => []IInv
<1>1. Init => IInv
  BY Initially
<1>2. IInv /\ [Next]_vars => IInv'
  BY Inductive
<1> QED BY <1>1, <1>2, PTL DEF Spec

-----------------------------------------------------------------------------
\* While the socket sets up TLS the login waits: what the chunk has after the
\* server's answer is dropped, and no other chunk is read.
Upgrading ==
  sock = "tls_connecting" =>
    /\ login = "STREAMSTART_SENT"
    /\ pc # "stanza" /\ (pc = "input" => reset)
    /\ useTls = "required" => auth

LEMMA NoneHeard == ASSUME Upgrading, Hears PROVE sock # "tls_connecting"
BY DEF Upgrading, Hears

\* A step that leaves the login alone and, while the socket sets up TLS, enters
\* the engine no further.
LEMMA UpgradingStays ==
  ASSUME Upgrading, UNCHANGED logging, sock' = "tls_connecting" => sock = sock',
         sock = "tls_connecting" => pc' \in {"idle", "told"} \/ UNCHANGED <<pc, reset>>
  PROVE  Upgrading'
BY DEF Upgrading, logging

LEMMA ElementUpgrades == ASSUME IInv, Upgrading, Element PROVE Upgrading'
<1>1. ASSUME NEW starts \in BOOLEAN, Proceed(starts) PROVE Upgrading'
  <2>1. sock # "tls_connecting" /\ login' = "STREAMSTART_SENT" /\ reset' /\ pc' = "input"
        /\ UNCHANGED <<useTls, auth>> /\ sock' = IF starts THEN "tls_connecting" ELSE sock
    BY <1>1, NoneHeard DEF Proceed, StartTls, Hears
  <2>2. starts /\ useTls = "required" => auth
    BY <1>1 DEF Proceed, StartTls, IInv, TlsFirst
  <2> QED BY <2>1, <2>2 DEF Upgrading
<1>2. ASSUME Hears, sock' = sock PROVE Upgrading'
  BY <1>2, NoneHeard DEF Upgrading
<1>3. ASSUME Hears, LoginFails PROVE Upgrading'
  BY <1>2, <1>3 DEF LoginFails, Fails, within, conn
<1>4. ASSUME Hears, NEW l, NEW says, NEW next, Advances(l, says, next) PROVE Upgrading'
  BY <1>2, <1>4 DEF Advances, within, conn
<1>5. ASSUME NEW good \in BOOLEAN,
             StreamStart(good) \/ Bound(good) \/ SessionStarted(good)
      PROVE  Upgrading'
  BY <1>2, <1>3, <1>4, <1>5 DEF StreamStart, Bound, SessionStarted, within, conn
<1>6. ASSUME NEW has \in FeatureSets, Features(has) PROVE Upgrading'
  BY <1>3, <1>4, <1>6 DEF Features, TlsInit, AuthInit, BindInit
<1>7. ASSUME Challenge \/ Success \/ Unexpected PROVE Upgrading'
  BY <1>3, <1>4, <1>7 DEF Challenge, Success, StartsOver, Unexpected
<1>8. ASSUME StreamEnds \/ Stanza PROVE Upgrading'
  BY <1>2, <1>8 DEF StreamEnds, Stanza, Fails, within, conn
<1>9. ASSUME NEW unhandled \in BOOLEAN, EndStanza(unhandled) PROVE Upgrading'
  BY <1>9 DEF EndStanza, Upgrading, within, conn
<1> QED BY <1>1, <1>5, <1>6, <1>7, <1>8, <1>9 DEF Element

LEMMA NextUpgrades == IInv /\ Upgrading /\ [Next]_vars => Upgrading'
<1> SUFFICES ASSUME IInv, Upgrading, [Next]_vars PROVE Upgrading'
  OBVIOUS
<1>1. ASSUME NEW s, NEW from, NEW out, Exit(s, from, out), UNCHANGED logging
      PROVE  Upgrading'
  BY <1>1, UpgradingStays DEF Exit
<1>2. CASE DoLogin \/ Run
  BY <1>2, UpgradingStays DEF DoLogin, Run, RunStart, RunResponse
<1>3. CASE EndTold \/ TlsConnected \/ SocketClosed \/ Read
  BY <1>3, UpgradingStays DEF EndTold, TlsConnected, SocketClosed, Read, conn
<1>4. CASE SocketConnected
  BY <1>4 DEF SocketConnected, Upgrading
<1>5. CASE DoDisconnect
  <2>1. CASE state = "CLOSED"
    BY <1>5, <2>1, UpgradingStays DEF DoDisconnect
  <2> QED BY <1>1, <1>5, <2>1 DEF DoDisconnect
<1>6. CASE EndRead
  BY <1>1, <1>6 DEF EndRead
<1>7. CASE SendStanza
  BY <1>7 DEF SendStanza, Upgrading, conn
<1>8. CASE Element
  BY <1>8, ElementUpgrades
<1>9. CASE UNCHANGED vars
  BY <1>9, UpgradingStays DEF vars, conn
<1> QED BY <1>2, <1>3, <1>4, <1>5, <1>6, <1>7, <1>8, <1>9 DEF Next

\* With TLS required, credentials are printed and a session is authorized only
\* after the socket has been asked for TLS, and not while it is setting TLS up
\* (XmppLoginTask::Advance, XmppEngineImpl::StartTls).
THEOREM CredentialsWaitForProceed == Spec => []AuthAfterProceed
<1>1. IInv /\ Upgrading => AuthAfterProceed
  BY DEF IInv, TlsFirst, Upgrading, AuthAfterProceed
<1>2. Init => Upgrading
  BY DEF Init, Upgrading
<1> QED BY <1>1, <1>2, NextUpgrades, Invariance, PTL DEF Spec

\* Nothing stays in the engine's buffer once the engine has been left, nor in
\* the login's queue once the session is open (~EnterExit, FlushQueuedStanzas).
THEOREM EverythingWritten == Spec => []NothingStuck
<1>1. IInv => NothingStuck
  BY DEF IInv, Flushed, NothingStuck
<1> QED BY <1>1, Invariance, PTL


-----------------------------------------------------------------------------
(* The application's stanzas. *)

OwnElements == {e \in Elements : e.what = "stanza"}

\* The first n of them.
All(n) == [i \in 1 .. n |-> Own(i)]

\* What is the application's in a buffer does not depend on the rest of it.
LEMMA AppKeeps ==
  ASSUME NEW out \in Seq(Elements)
  PROVE  App(out) = Keep(out, OwnElements)
<1> DEFINE K == {m \in ToSet(out) : m.what = "stanza"}
<1>1. \A i \in 1 .. Len(out) : out[i] \in Elements /\ out[i] \in ToSet(out)
  BY DEF ToSet
<1>2. Places(out, K) = Places(out, OwnElements)
  BY <1>1 DEF Places, OwnElements
<1> QED BY <1>2 DEF App, Keep

LEMMA AppType ==
  ASSUME NEW out \in Seq(Elements)
  PROVE  App(out) \in Seq(OwnElements) /\ App(out) \in Seq(Elements)
<1>1. Keep(out, OwnElements) \in Seq(Elements \cap OwnElements)
      /\ Keep(out, OwnElements) \in Seq(Elements)
  BY KeepType
<1>2. Elements \cap OwnElements = OwnElements
  BY DEF OwnElements
<1> QED BY <1>1, <1>2, AppKeeps

LEMMA AppConcat ==
  ASSUME NEW s \in Seq(Elements), NEW t \in Seq(Elements)
  PROVE  App(s \o t) = App(s) \o App(t)
<1>1. s \o t \in Seq(Elements)
  BY ConcatProperties
<1>2. Keep(s \o t, OwnElements) = Keep(s, OwnElements) \o Keep(t, OwnElements)
  BY KeepConcat
<1>3. App(s) = Keep(s, OwnElements) /\ App(t) = Keep(t, OwnElements)
  BY AppKeeps
<1>4. App(s \o t) = Keep(s \o t, OwnElements)
  BY <1>1, AppKeeps
<1> QED BY <1>2, <1>3, <1>4

LEMMA AppEmpty == App(<<>>) = <<>>
<1>1. <<>> \in Seq(Elements) /\ \A i \in 1 .. Len(<<>>) : <<>>[i] \notin OwnElements
  OBVIOUS
<1> QED BY <1>1, AppKeeps, KeepAllOrNone

\* The engine's own messages are not the application's.
LEMMA AppMsg ==
  ASSUME NEW s \in Seq(Elements), NEW w \in Kinds \ {"stanza"}
  PROVE  s \o <<Msg(w)>> \in Seq(Elements) /\ App(s \o <<Msg(w)>>) = App(s)
<1>1. PICK e : e = Msg(w)
  OBVIOUS
<1>2. e \in Elements /\ e \notin OwnElements
  BY <1>1, Messages DEF OwnElements
<1>3. <<e>> \in Seq(Elements) /\ \A i \in 1 .. Len(<<e>>) : <<e>>[i] \notin OwnElements
  BY <1>2
<1>4. App(<<e>>) = <<>>
  BY <1>3, AppKeeps, KeepAllOrNone
<1>5. App(s \o <<e>>) = App(s)
  <2>1. App(s \o <<e>>) = App(s) \o <<>>
    BY <1>3, <1>4, AppConcat
  <2>2. App(s) \in Seq(Elements)
    BY AppType
  <2> QED BY <2>1, <2>2, ConcatEmptySeq
<1> QED BY <1>1, <1>3, <1>5, ConcatProperties

\* A stanza of the application that is printed is.
LEMMA AppOwn ==
  ASSUME NEW s \in Seq(Elements), NEW q \in Seq(Elements),
         \A i \in 1 .. Len(q) : q[i] \in OwnElements
  PROVE  App(s \o q) = App(s) \o q
<1>1. App(q) = q
  BY AppKeeps, KeepAllOrNone
<1> QED BY <1>1, AppConcat

LEMMA OneOwn ==
  ASSUME NEW n \in Nat
  PROVE  /\ <<Own(n)>> \in Seq(Elements)
         /\ \A i \in 1 .. Len(<<Own(n)>>) : <<Own(n)>>[i] \in OwnElements
<1>1. PICK e : e = Own(n)
  OBVIOUS
<1>2. e \in OwnElements /\ e \in Elements
  BY <1>1, Messages DEF OwnElements
<1>3. <<e>> \in Seq(Elements) /\ \A i \in 1 .. Len(<<e>>) : <<e>>[i] \in OwnElements
  BY <1>2
<1> QED BY <1>1, <1>3

\* The next stanza follows those there have been.
LEMMA AllGrows ==
  ASSUME NEW n \in Nat
  PROVE  All(n) \o <<Own(n + 1)>> = All(n + 1) /\ All(n) \in Seq(Elements)
<1> DEFINE s == All(n)
           t == <<Own(n + 1)>>
           u == All(n + 1)
<1>1. \A i \in Nat : Own(i) \in Elements
  BY Messages
<1>2. n + 1 \in Nat /\ \A i \in 1 .. n + 1 : i \in Nat
  OBVIOUS
<1>3. s \in Seq(Elements) /\ Len(s) = n /\ \A i \in 1 .. n : s[i] = Own(i)
  BY <1>1 DEF All
<1>4. u \in Seq(Elements) /\ Len(u) = n + 1 /\ \A i \in 1 .. n + 1 : u[i] = Own(i)
  BY <1>1, <1>2 DEF All
<1>5. t \in Seq(Elements) /\ Len(t) = 1 /\ t[1] = Own(n + 1)
  <2>1. PICK e : e = Own(n + 1)
    OBVIOUS
  <2>2. e \in Elements
    BY <1>1, <1>2, <2>1
  <2>3. <<e>> \in Seq(Elements) /\ Len(<<e>>) = 1 /\ <<e>>[1] = e
    BY <2>2
  <2> QED BY <2>1, <2>3
<1> HIDE DEF s, t, u
<1>6. /\ s \o t \in Seq(Elements) /\ Len(s \o t) = n + 1
      /\ \A i \in 1 .. n + 1 : (s \o t)[i] = IF i <= n THEN s[i] ELSE t[i - n]
  <2>1. /\ s \o t \in Seq(Elements)
        /\ Len(s \o t) = Len(s) + Len(t)
        /\ \A i \in 1 .. Len(s) + Len(t) :
             (s \o t)[i] = IF i <= Len(s) THEN s[i] ELSE t[i - Len(s)]
    BY <1>3, <1>5, ConcatProperties
  <2> QED BY <1>3, <1>5, <2>1
<1>7. \A i \in 1 .. n + 1 : (s \o t)[i] = u[i]
  <2> TAKE i \in 1 .. n + 1
  <2>1. CASE i <= n
    <3>1. i \in 1 .. n
      BY <2>1
    <3> QED BY <1>3, <1>4, <1>6, <2>1, <3>1
  <2>2. CASE i = n + 1
    <3>1. ~(n + 1 <= n) /\ n + 1 - n = 1 /\ n + 1 \in 1 .. n + 1
      OBVIOUS
    <3>2. (s \o t)[n + 1] = t[1] /\ u[n + 1] = Own(n + 1)
      BY <1>4, <1>6, <3>1
    <3>3. (s \o t)[n + 1] = u[n + 1]
      BY <1>5, <3>2
    <3> QED BY <2>2, <3>3
  <2>3. i <= n \/ i = n + 1
    OBVIOUS
  <2> QED BY <2>1, <2>2, <2>3
<1>8. s \o t = u
  BY <1>4, <1>6, <1>7, SeqEqual
<1> QED BY <1>3, <1>8 DEF s, t, u

-----------------------------------------------------------------------------
(* What the pump tells of. *)

States == {"START", "OPENING", "OPEN", "CLOSED"}

\* Nothing is told twice, and nothing after what comes later.
Ascending(t) == \A i, j \in DOMAIN t : i < j => Rank[t[i]] < Rank[t[j]]

\* The last that the pump has told of is the engine's state, except while the
\* engine is in a chunk, when it is the state that the chunk was entered in, and
\* after a connect that failed.  Only a client that has its socket can be in a
\* chunk, and an engine is closed in a chunk only by an error.
Linked ==
  /\ told \in Seq(States)
  /\ (task = "new") <=> (told = <<>>)
  /\ task = "new" => state = "NONE" /\ sock = "none" /\ pc = "idle"
  /\ task # "new" => state \in States
  /\ task = "START" => state = "START"
  /\ task \in {"START", "ERROR", "gone"} => sock = "none"
  /\ task \in {"ERROR", "gone"} => Last(told) = "CLOSED"
  /\ task = "aborted" => state = "CLOSED"
  /\ task = "gone" => pc = "idle"
  /\ task = "ERROR" => state = "START"
  /\ task \in {"new", "START", "RESPONSE", "ERROR", "aborted", "gone"}
  /\ pc \in {"input", "stanza"} =>
       /\ task = "RESPONSE"
       /\ Last(told) = saved
       /\ saved \in {"OPENING", "OPEN"} /\ state \in {saved, "OPEN", "CLOSED"}
       /\ state = "CLOSED" => error
  /\ pc \notin {"input", "stanza"} /\ task \in {"START", "RESPONSE", "aborted"} =>
       Last(told) = state
  /\ pc = "idle" /\ state = "CLOSED" => task = "gone" \/ posted

\* A state that is told of is told of last, and after those before it.
LEMMA TellGrows ==
  ASSUME NEW t \in Seq(States), Ascending(t), NEW s \in States,
         t # <<>> => Rank[Last(t)] <= Rank[s],
         NEW u, u = IF t # <<>> /\ Last(t) = s THEN t ELSE t \o <<s>>
  PROVE  u \in Seq(States) /\ Ascending(u) /\ u # <<>> /\ Last(u) = s
<1>1. CASE t # <<>> /\ Last(t) = s
  BY <1>1
<1>2. CASE ~(t # <<>> /\ Last(t) = s)
  <2> DEFINE n == Len(t)
  <2>1. u = t \o <<s>>
    BY <1>2
  <2>2. n \in Nat /\ DOMAIN t = 1 .. n /\ \A i \in 1 .. n : t[i] \in States
    BY LenProperties
  <2>3. /\ u \in Seq(States) /\ Len(u) = n + 1 /\ u # <<>>
        /\ \A i \in 1 .. n : u[i] = t[i]
        /\ u[n + 1] = s
    BY <2>1
  <2>4. DOMAIN u = 1 .. n + 1
    BY <2>3
  <2>5. Last(u) = s
    BY <2>3 DEF Last
  <2>6. ASSUME NEW i \in 1 .. n PROVE Rank[t[i]] < Rank[s]
    <3>1. t # <<>> /\ n \in 1 .. n /\ Last(t) = t[n] /\ t[n] \in States /\ t[i] \in States
      BY <2>2 DEF Last
    <3>2. Rank[t[n]] <= Rank[s] /\ t[n] # s
      BY <1>2, <3>1
    <3>3. Rank[t[n]] < Rank[s]
      BY <3>1, <3>2 DEF Rank, States
    <3>4. i = n \/ Rank[t[i]] < Rank[t[n]]
      <4>1. i = n \/ i < n
        <5>1. n \in Nat
          BY <2>2
        <5> HIDE DEF n
        <5> QED BY <5>1
      <4>2. i \in DOMAIN t /\ n \in DOMAIN t
        BY <2>2, <3>1
      <4> QED BY <4>1, <4>2 DEF Ascending
    <3> QED BY <3>1, <3>3, <3>4 DEF Rank, States
  <2>7. Ascending(u)
    <3> SUFFICES ASSUME NEW i \in 1 .. n + 1, NEW j \in 1 .. n + 1, i < j
                 PROVE  Rank[u[i]] < Rank[u[j]]
      BY <2>4 DEF Ascending
    <3>1. i \in 1 .. n /\ (j \in 1 .. n \/ j = n + 1)
      BY <2>2
    <3>2. CASE j \in 1 .. n
      BY <2>2, <2>3, <3>1, <3>2 DEF Ascending
    <3>3. CASE j = n + 1
      <4>1. u[j] = s /\ u[i] = t[i]
        BY <2>3, <3>1, <3>3
      <4> QED BY <2>6, <3>1, <4>1
    <3> QED BY <3>1, <3>2, <3>3
  <2> QED BY <2>3, <2>5, <2>7
<1> QED BY <1>1, <1>2

\* Tell, with what is told so far in order.
LEMMA Telling ==
  ASSUME Linked, Ascending(told), NEW s \in States, Tell(s),
         told # <<>> => Rank[Last(told)] <= Rank[s]
  PROVE  told' \in Seq(States) /\ Ascending(told') /\ told' # <<>> /\ Last(told') = s
<1>1. told \in Seq(States)
  BY DEF Linked
<1>2. told' = IF told # <<>> /\ Last(told) = s THEN told ELSE told \o <<s>>
  BY DEF Tell
<1> QED BY <1>1, <1>2, TellGrows

\* ~EnterExit tells of the state that the engine has been left in.
LEMMA Leaving ==
  ASSUME Linked, Ascending(told), NEW s \in States, NEW from \in States,
         NEW out, Exit(s, from, out), Last(told) = from, told # <<>>,
         Rank[from] <= Rank[s]
  PROVE  /\ told' \in Seq(States) /\ Ascending(told') /\ told' # <<>> /\ Last(told') = s
         /\ state' = s /\ pc' = IF s # from THEN "told" ELSE "idle"
<1>1. state' = s /\ pc' = IF s # from THEN "told" ELSE "idle"
  BY DEF Exit
<1>2. CASE s # from
  <2>1. Tell(s)
    BY <1>2 DEF Exit
  <2> QED BY <1>1, <2>1, Telling
<1>3. CASE s = from
  <2>1. told' = told
    BY <1>3 DEF Exit
  <2>2. told \in Seq(States)
    BY DEF Linked
  <2> QED BY <1>1, <1>3, <2>1, <2>2
<1> QED BY <1>2, <1>3

-----------------------------------------------------------------------------
LEMMA LinkedAtFirst == Init => Linked /\ Ascending(told)
<1> SUFFICES ASSUME Init PROVE Linked /\ Ascending(told)
  OBVIOUS
<1>1. told = <<>> /\ told \in Seq(States)
  BY DEF Init
<1>2. Linked
  BY <1>1 DEF Init, Linked
<1>3. Ascending(told)
  BY <1>1 DEF Ascending
<1> QED BY <1>2, <1>3

\* Within a chunk the engine is closed by an error, opened by the login, or left
\* as it was.
LEMMA ChunkLinked ==
  ASSUME Linked, pc \in {"input", "stanza"}, pc' \in {"input", "stanza"},
         UNCHANGED <<task, posted, told, saved>>,
         \/ state' = state /\ error' = error
         \/ state' = "OPEN" /\ ~error /\ error' = error
         \/ state' = "CLOSED" /\ error'
  PROVE  Linked'
BY DEF Linked, States

LEMMA ElementLinked ==
  ASSUME Linked, Element PROVE Linked' /\ told' = told
<1> DEFINE Chunk ==
      /\ pc \in {"input", "stanza"} /\ pc' \in {"input", "stanza"}
      /\ UNCHANGED <<task, posted, told, saved>>
      /\ \/ state' = state /\ error' = error
         \/ state' = "OPEN" /\ ~error /\ error' = error
         \/ state' = "CLOSED" /\ error'
<1>1. ASSUME pc = "input", LoginFails PROVE Chunk
  BY <1>1 DEF LoginFails, Fails, within, conn
<1>2. ASSUME NEW l, NEW says, NEW next, pc = "input", Advances(l, says, next)
      PROVE  Chunk
  BY <1>2 DEF Advances, within, conn
<1> HIDE DEF Chunk
<1>3. ASSUME NEW good \in BOOLEAN, StreamStart(good) \/ Bound(good) PROVE Chunk
  BY <1>1, <1>2, <1>3 DEF StreamStart, Bound, Hears
<1>4. ASSUME NEW good \in BOOLEAN, SessionStarted(good) PROVE Chunk
  <2>1. CASE good
    BY <1>4, <2>1 DEF SessionStarted, Hears, within, conn, Chunk
  <2>2. CASE ~good
    BY <1>1, <1>4, <2>2 DEF SessionStarted, Hears
  <2> QED BY <2>1, <2>2
<1>5. ASSUME NEW has \in FeatureSets, Features(has) PROVE Chunk
  <2>1. pc = "input" /\ (TlsInit \/ AuthInit(has) \/ BindInit(has) \/ LoginFails)
    BY <1>5 DEF Features, Hears
  <2> QED BY <1>1, <1>2, <2>1 DEF TlsInit, AuthInit, BindInit
<1>6. ASSUME NEW starts \in BOOLEAN, Proceed(starts) PROVE Chunk
  BY <1>6 DEF Proceed, StartTls, Hears, Chunk
<1>7. ASSUME Challenge \/ Success PROVE Chunk
  BY <1>2, <1>7 DEF Challenge, Success, StartsOver, Hears
<1>8. ASSUME Unexpected PROVE Chunk
  BY <1>1, <1>8 DEF Unexpected, Hears
<1>9. ASSUME StreamEnds PROVE Chunk
  BY <1>9 DEF StreamEnds, Fails, Hears, within, conn, Chunk
<1>10. ASSUME Stanza \/ \E unhandled \in BOOLEAN : EndStanza(unhandled) PROVE Chunk
  BY <1>10 DEF Stanza, EndStanza, Hears, within, conn, Chunk
<1>11. Chunk
  BY <1>3, <1>4, <1>5, <1>6, <1>7, <1>8, <1>9, <1>10 DEF Element
<1>12. told' = told
  BY <1>11 DEF Chunk
<1> QED BY <1>11, <1>12, ChunkLinked DEF Chunk

LEMMA ToldOrLeft ==
  ASSUME Linked, Ascending(told), \/ DoLogin \/ Run \/ SocketConnected
                                  \/ DoDisconnect \/ EndRead
  PROVE  Linked' /\ Ascending(told')
<1>1. told \in Seq(States)
  BY DEF Linked
<1>2. \A s \in States : s \in {"START", "OPENING", "OPEN", "CLOSED"}
  BY DEF States
<1>3. CASE DoLogin
  <2>1. told = <<>> /\ Tell("START") /\ "START" \in States
    BY <1>3 DEF DoLogin, Linked, States
  <2>2. told' \in Seq(States) /\ Ascending(told') /\ told' # <<>> /\ Last(told') = "START"
    BY <2>1, Telling
  <2> QED BY <1>3, <2>2 DEF DoLogin, Linked, States
<1>4. ASSUME NEW connects \in BOOLEAN, RunStart(connects) PROVE Linked' /\ Ascending(told')
  <2>1. CASE connects
    BY <1>4, <2>1 DEF RunStart, Linked, States
  <2>2. CASE ~connects
    <3>1. /\ told # <<>> /\ Last(told) = "START" /\ Tell("CLOSED")
          /\ "CLOSED" \in States
      BY <1>4, <2>2 DEF RunStart, Linked, States
    <3>2. told' \in Seq(States) /\ Ascending(told') /\ told' # <<>> /\ Last(told') = "CLOSED"
      <4>1. Rank["START"] <= Rank["CLOSED"]
        BY DEF Rank
      <4> QED BY <3>1, <4>1, Telling
    <3> QED BY <1>4, <2>2, <3>2 DEF RunStart, Linked, States
  <2> QED BY <2>1, <2>2
<1>5. CASE RunResponse
  BY <1>5 DEF RunResponse, Linked, States
<1>6. CASE SocketConnected
  <2>1. /\ told # <<>> /\ Last(told) = "START" /\ Tell("OPENING") /\ task = "RESPONSE"
        /\ "OPENING" \in States
    BY <1>6 DEF SocketConnected, Linked, States
  <2>2. told' \in Seq(States) /\ Ascending(told') /\ told' # <<>> /\ Last(told') = "OPENING"
    <3>1. Rank["START"] <= Rank["OPENING"]
      BY DEF Rank
    <3> QED BY <2>1, <3>1, Telling
  <2> QED BY <1>6, <2>1, <2>2 DEF SocketConnected, Linked, States
<1>7. CASE DoDisconnect
  <2>1. CASE state # "CLOSED"
    <3> DEFINE out == IF state = "OPEN" THEN output \o <<Msg("end")>> ELSE output
    <3>1. /\ told # <<>> /\ Last(told) = state /\ "CLOSED" \in States /\ state \in States
          /\ Exit("CLOSED", state, out)
      BY <1>7, <2>1 DEF DoDisconnect, Linked, States
    <3> HIDE DEF out
    <3>2. Rank[state] <= Rank["CLOSED"]
      BY <3>1 DEF Rank, States
    <3>3. /\ told' \in Seq(States) /\ Ascending(told') /\ told' # <<>>
          /\ Last(told') = "CLOSED" /\ state' = "CLOSED" /\ pc' = "told"
      BY <2>1, <3>1, <3>2, Leaving
    <3>4. task' = "aborted"
      BY <1>7 DEF DoDisconnect
    <3> QED BY <3>3, <3>4 DEF Linked, States
  <2>2. CASE state = "CLOSED"
    BY <1>7, <2>2 DEF DoDisconnect, Linked, States
  <2> QED BY <2>1, <2>2
<1>8. CASE EndRead
  <2>1. /\ told # <<>> /\ Last(told) = saved /\ saved \in States /\ state \in States
        /\ task = "RESPONSE" /\ Exit(state, saved, output)
        /\ saved # "CLOSED" /\ state \in {saved, "OPEN", "CLOSED"}
        /\ UNCHANGED <<task, posted, saved, error>>
    BY <1>8 DEF EndRead, Linked, States
  <2>2. Rank[saved] <= Rank[state]
    <3>1. saved \in {"OPENING", "OPEN"}
      BY <1>8 DEF EndRead, Linked
    <3> QED BY <2>1, <3>1 DEF Rank
  <2>3. /\ told' \in Seq(States) /\ Ascending(told') /\ told' # <<>> /\ Last(told') = state
        /\ state' = state /\ pc' = IF state # saved THEN "told" ELSE "idle"
    BY <2>1, <2>2, Leaving
  <2> QED BY <2>1, <2>3 DEF Linked, States
<1> QED BY <1>3, <1>4, <1>5, <1>6, <1>7, <1>8 DEF Run

LEMMA LinkedInductive ==
  ASSUME Linked, Ascending(told), [Next]_vars
  PROVE  Linked' /\ Ascending(told')
<1>1. CASE \/ DoLogin \/ Run \/ SocketConnected \/ DoDisconnect \/ EndRead
  BY <1>1, ToldOrLeft
<1>2. CASE Element
  BY <1>2, ElementLinked
<1>3. CASE EndTold
  BY <1>3 DEF EndTold, Linked, States
<1>4. CASE SendStanza
  BY <1>4 DEF SendStanza, Linked, States, conn
<1>5. CASE TlsConnected \/ SocketClosed
  BY <1>5 DEF TlsConnected, SocketClosed, Linked, States
<1>6. CASE Read
  BY <1>6 DEF Read, Linked, States, conn
<1>7. CASE UNCHANGED vars
  BY <1>7 DEF vars, conn, Linked, States
<1> QED BY <1>1, <1>2, <1>3, <1>4, <1>5, <1>6, <1>7 DEF Next

THEOREM TellingInvariant == Spec => [](Linked /\ Ascending(told))
<1>1. Init => Linked /\ Ascending(told)
  BY LinkedAtFirst
<1>2. (Linked /\ Ascending(told)) /\ [Next]_vars => (Linked /\ Ascending(told))'
  BY LinkedInductive
<1> QED BY <1>1, <1>2, PTL DEF Spec

\* The pump tells of each state once and in order, of the end last, and a client
\* whose engine is closed is deleted or about to be (~EnterExit, EnsureClosed,
\* ProcessResponse).
THEOREM StatesToldOnce == Spec => []ToldOnce
<1>1. Linked /\ Ascending(told) => ToldOnce
  <2> SUFFICES ASSUME Linked, Ascending(told) PROVE ToldOnce
    OBVIOUS
  <2>1. pc = "idle" /\ state = "CLOSED" => Last(told) = "CLOSED"
    BY DEF Linked
  <2>2. pc = "idle" /\ state = "CLOSED" => task = "gone" \/ posted
    BY DEF Linked
  <2> QED BY <2>1, <2>2 DEF ToldOnce, Ascending
<1> QED BY <1>1, TellingInvariant, PTL

-----------------------------------------------------------------------------
(* Where the application's stanzas are. *)

AllOwn(q) == \A i \in 1 .. Len(q) : q[i] \in OwnElements

\* Until the engine closes, what has been written, what is in the buffer and
\* what is queued are, in this order, the stanzas that have been accepted; and
\* the queue is left empty by a login that ends.
Whole == sent \o App(output) \o queued = All(accepted)
Counted ==
  /\ sent \in Seq(Elements)
  /\ AllOwn(queued)
  /\ login = "GONE" => queued = <<>>
  /\ state # "CLOSED" => Whole

\* A step that leaves the stanzas where they are.
LEMMA Carrying ==
  ASSUME Counted, UNCHANGED <<accepted, sent, queued>>, App(output') = App(output),
         login' = "GONE" => login = "GONE",
         state' # "CLOSED" => state # "CLOSED"
  PROVE  Counted'
BY DEF Counted, Whole

\* A step that closes the engine.
LEMMA Closing ==
  ASSUME Counted, UNCHANGED sent, state' = "CLOSED",
         \/ queued' = <<>>
         \/ queued' = queued /\ login' = login
  PROVE  Counted'
BY DEF Counted, AllOwn

\* The buffer is written, after a message of the engine's own perhaps.
LEMMA Writing ==
  ASSUME IInv, Counted, NEW s, NEW from, NEW out \in Seq(Elements),
         Exit(s, from, out), App(out) = App(output),
         s # "CLOSED" => state # "CLOSED",
         UNCHANGED <<logging, accepted>>
  PROVE  Counted'
<1>1. /\ state' = s
      /\ \/ sent' = sent \o App(out) /\ output' = <<>>
         \/ sent' = sent /\ output' = out
  BY DEF Exit
<1>2. UNCHANGED <<login, queued, accepted>>
  BY DEF logging
<1>3. CASE sent' = sent \o App(out) /\ output' = <<>>
  <2>1. App(output) \in Seq(Elements) /\ sent \in Seq(Elements)
    BY AppType DEF IInv, Typed, Counted
  <2>2. sent' = sent \o App(output) /\ sent' \in Seq(Elements)
    BY <1>3, <2>1, ConcatProperties
  <2>3. App(output') = <<>>
    BY <1>3, AppEmpty
  <2>4. sent' \o App(output') = sent \o App(output)
    BY <2>2, <2>3, ConcatEmptySeq
  <2>5. sent' \o App(output') \o queued' = sent \o App(output) \o queued
    BY <1>2, <2>4
  <2>6. state' # "CLOSED" => Whole'
    BY <1>1, <1>2, <2>5 DEF Whole, Counted
  <2> QED BY <1>2, <2>2, <2>6 DEF Counted
<1>4. CASE sent' = sent /\ output' = out
  BY <1>1, <1>2, <1>4, Carrying
<1> QED BY <1>1, <1>3, <1>4

\* What is printed within a chunk is the engine's own.
LEMMA Speaking ==
  ASSUME IInv, Counted, NEW w \in Kinds \ {"stanza"}, output' = output \o <<Msg(w)>>,
         UNCHANGED <<accepted, sent, queued, state>>, login' = "GONE" => login = "GONE"
  PROVE  Counted'
<1>1. output \in Seq(Elements)
  BY DEF IInv, Typed
<1>2. App(output') = App(output)
  BY <1>1, AppMsg
<1> QED BY <1>2, Carrying

-----------------------------------------------------------------------------
LEMMA SendCounted ==
  ASSUME IInv, Counted, SendStanza PROVE Counted'
<1>1. /\ accepted \in Nat /\ output \in Seq(Elements) /\ queued \in Seq(Elements)
      /\ sent \in Seq(Elements) /\ App(output) \in Seq(Elements)
  BY AppType DEF IInv, Typed, Counted
<1> DEFINE own == <<Own(accepted + 1)>>
<1>2. own \in Seq(Elements) /\ AllOwn(own)
  BY <1>1, OneOwn DEF AllOwn
<1>3. All(accepted) \o own = All(accepted + 1) /\ sent \o App(output) \o queued = All(accepted)
  BY <1>1, AllGrows DEF SendStanza, Counted, Whole
<1>4. /\ UNCHANGED <<state, login>> /\ accepted' = accepted + 1
      /\ \/ login # "GONE" /\ queued' = queued \o own /\ UNCHANGED <<output, sent>>
         \/ /\ login = "GONE" /\ queued' = queued
            /\ \/ output' = output \o own /\ UNCHANGED sent
               \/ output' = <<>> /\ sent' = sent \o App(output) \o own
  BY DEF SendStanza
<1> HIDE DEF own
<1>5. CASE login # "GONE" /\ queued' = queued \o own /\ UNCHANGED <<output, sent>>
  <2>1. (sent \o App(output)) \o (queued \o own) = (sent \o App(output) \o queued) \o own
    <3>1. PICK b : b = App(output)
      OBVIOUS
    <3>2. sent \in Seq(Elements) /\ b \in Seq(Elements) /\ queued \in Seq(Elements)
      BY <1>1, <3>1
    <3>3. (sent \o b) \o (queued \o own) = (sent \o b \o queued) \o own
      <4>1. PICK c : c = sent \o b
        OBVIOUS
      <4>2. c \in Seq(Elements)
        BY <3>2, <4>1, ConcatProperties
      <4>3. c \o (queued \o own) = (c \o queued) \o own
        <5>1. c \in Seq(Elements) /\ queued \in Seq(Elements) /\ own \in Seq(Elements)
          BY <1>2, <3>2, <4>2
        <5> QED BY ONLY <5>1, ConcatAssociative
      <4>4. (sent \o b) \o (queued \o own) = ((sent \o b) \o queued) \o own
        BY ONLY <4>1, <4>3
      <4> QED BY <4>4
    <3> QED BY <3>1, <3>3
  <2>2. Whole'
    BY <1>3, <1>4, <1>5, <2>1 DEF Whole
  <2>3. AllOwn(queued')
    <3>1. /\ Len(queued \o own) = Len(queued) + Len(own)
          /\ \A i \in 1 .. Len(queued) + Len(own) : (queued \o own)[i] =
               IF i <= Len(queued) THEN queued[i] ELSE own[i - Len(queued)]
      BY <1>1, <1>2, ConcatProperties
    <3>2. Len(queued) \in Nat /\ Len(own) \in Nat
      BY <1>1, <1>2, LenProperties
    <3>3. AllOwn(queued)
      BY DEF Counted
    <3> SUFFICES ASSUME NEW i \in 1 .. Len(queued) + Len(own)
                 PROVE  (queued \o own)[i] \in OwnElements
      BY <1>5, <3>1 DEF AllOwn
    <3>4. CASE i <= Len(queued)
      <4>1. i \in 1 .. Len(queued)
        BY <3>2, <3>4
      <4> QED BY <3>1, <3>3, <3>4, <4>1 DEF AllOwn
    <3>5. CASE ~(i <= Len(queued))
      <4>1. i - Len(queued) \in 1 .. Len(own)
        BY <3>2, <3>5
      <4> QED BY <1>2, <3>1, <3>5, <4>1 DEF AllOwn
    <3> QED BY <3>4, <3>5
  <2> QED BY <1>4, <1>5, <2>2, <2>3 DEF Counted
<1>6. CASE login = "GONE" /\ queued' = queued
           /\ output' = output \o own /\ UNCHANGED sent
  <2>1. queued = <<>>
    BY <1>6 DEF Counted
  <2>2. App(output') = App(output) \o own
    BY <1>1, <1>2, <1>6, AppOwn DEF AllOwn
  <2>3. sent \o App(output) \in Seq(Elements)
    BY <1>1, ConcatProperties
  <2>4. sent \o App(output) = All(accepted)
    BY <1>3, <2>1, <2>3, ConcatEmptySeq
  <2>5. sent \o (App(output) \o own) = (sent \o App(output)) \o own
    <3>1. PICK b : b = App(output)
      OBVIOUS
    <3>2. sent \in Seq(Elements) /\ b \in Seq(Elements) /\ queued \in Seq(Elements)
      BY <1>1, <3>1
    <3>3. sent \o (b \o own) = (sent \o b) \o own
      BY <1>2, <3>2, ConcatAssociative
    <3> QED BY <3>1, <3>3
  <2>6. sent' \o App(output') = All(accepted')
    BY <1>3, <1>4, <1>6, <2>2, <2>4, <2>5
  <2>7. sent' \o App(output') \in Seq(Elements)
    BY <1>1, <1>2, <1>6, <2>2, <2>3, <2>5, ConcatProperties
  <2>8. Whole'
    BY <1>6, <2>1, <2>6, <2>7, ConcatEmptySeq DEF Whole
  <2> QED BY <1>6, <2>1, <2>8 DEF Counted
<1>7. CASE login = "GONE" /\ queued' = queued
           /\ output' = <<>> /\ sent' = sent \o App(output) \o own
  <2>1. queued = <<>>
    BY <1>7 DEF Counted
  <2>2. sent \o App(output) \in Seq(Elements)
    BY <1>1, ConcatProperties
  <2>3. sent \o App(output) = All(accepted)
    BY <1>3, <2>1, <2>2, ConcatEmptySeq
  <2>4. sent' = All(accepted') /\ sent' \in Seq(Elements)
    BY <1>2, <1>3, <1>4, <1>7, <2>2, <2>3, ConcatProperties
  <2>5. App(output') = <<>>
    BY <1>7, AppEmpty
  <2>6. Whole'
    BY <1>7, <2>1, <2>4, <2>5, ConcatEmptySeq DEF Whole
  <2> QED BY <1>7, <2>1, <2>4, <2>6 DEF Counted
<1> QED BY <1>4, <1>5, <1>6, <1>7

\* FlushQueuedStanzas.
LEMMA StartedCounted ==
  ASSUME IInv, Linked, Counted, NEW good \in BOOLEAN, SessionStarted(good)
  PROVE  Counted'
<1>1. CASE good
  <2>1. /\ output' = output \o queued /\ queued' = <<>>
        /\ UNCHANGED <<sent, accepted>>
        /\ pc = "input" /\ ~error
    BY <1>1 DEF SessionStarted, Hears, within
  <2>2. state # "CLOSED"
    BY <2>1 DEF Linked
  <2>3. /\ sent \in Seq(Elements) /\ output \in Seq(Elements) /\ queued \in Seq(Elements)
        /\ AllOwn(queued) /\ Whole /\ App(output) \in Seq(Elements)
    BY <2>2, AppType DEF IInv, Typed, Counted
  <2>4. App(output') = App(output) \o queued
    BY <2>1, <2>3, AppOwn DEF AllOwn
  <2>5. sent \o App(output) \o queued = sent \o (App(output) \o queued)
        /\ sent \o App(output) \o queued \in Seq(Elements)
    <3>1. PICK b : b = App(output)
      OBVIOUS
    <3>2. sent \in Seq(Elements) /\ b \in Seq(Elements) /\ queued \in Seq(Elements)
      BY <2>3, <3>1
    <3>3. sent \o b \o queued = sent \o (b \o queued) /\ sent \o b \o queued \in Seq(Elements)
      BY <3>2, ConcatAssociative, ConcatProperties
    <3> QED BY <3>1, <3>3
  <2>6. sent' \o App(output') = All(accepted') /\ sent' \o App(output') \in Seq(Elements)
    BY <2>1, <2>3, <2>4, <2>5 DEF Whole
  <2>7. Whole'
    BY <2>1, <2>6, ConcatEmptySeq DEF Whole
  <2>8. AllOwn(queued')
    BY <2>1 DEF AllOwn
  <2> QED BY <2>1, <2>3, <2>7, <2>8 DEF Counted
<1>2. CASE ~good
  <2>1. LoginFails
    BY <1>2 DEF SessionStarted
  <2> QED BY <2>1, Closing DEF LoginFails, Fails, within
<1> QED BY <1>1, <1>2

\* The other elements of a chunk.
LEMMA ElementCounted ==
  ASSUME IInv, Linked, Counted, Element PROVE Counted'
<1>1. ASSUME LoginFails PROVE Counted'
  BY <1>1, Closing DEF LoginFails, Fails, within
<1>2. ASSUME NEW l, NEW w \in Kinds \ {"stanza"}, NEW next,
             Advances(l, <<Msg(w)>>, next), l # "GONE", UNCHANGED queued
      PROVE  Counted'
  BY <1>2, Speaking DEF Advances, within
<1>3. /\ "starttls" \in Kinds \ {"stanza"} /\ "auth" \in Kinds \ {"stanza"}
      /\ "bind" \in Kinds \ {"stanza"} /\ "start" \in Kinds \ {"stanza"}
      /\ "response" \in Kinds \ {"stanza"} /\ "session" \in Kinds \ {"stanza"}
      /\ "error" \in Kinds \ {"stanza"}
  BY DEF Kinds
<1>4. ASSUME NEW good \in BOOLEAN, StreamStart(good) PROVE Counted'
  <2>1. CASE good
    <3>1. output \o <<>> = output
      BY DEF IInv, Typed
    <3>2. /\ UNCHANGED <<accepted, sent, queued, state>> /\ App(output') = App(output)
          /\ login' # "GONE"
      BY <1>4, <2>1, <3>1 DEF StreamStart, Advances, within
    <3> QED BY <3>2, Carrying
  <2>2. CASE ~good
    BY <1>1, <1>4, <2>2 DEF StreamStart
  <2> QED BY <2>1, <2>2
<1>5. ASSUME NEW good \in BOOLEAN, Bound(good) PROVE Counted'
  <2>1. CASE good
    BY <1>2, <1>3, <1>5, <2>1 DEF Bound
  <2>2. CASE ~good
    BY <1>1, <1>5, <2>2 DEF Bound
  <2> QED BY <2>1, <2>2
<1>6. ASSUME NEW has \in FeatureSets, Features(has) PROVE Counted'
  <2>1. CASE TlsInit
    BY <1>2, <1>3, <2>1 DEF TlsInit
  <2>2. CASE AuthInit(has)
    BY <1>1, <1>2, <1>3, <2>2 DEF AuthInit
  <2>3. CASE BindInit(has)
    BY <1>1, <1>2, <1>3, <2>3 DEF BindInit
  <2> QED BY <1>1, <1>6, <2>1, <2>2, <2>3 DEF Features
<1>7. ASSUME NEW starts \in BOOLEAN, Proceed(starts) PROVE Counted'
  <2>1. /\ output' = output \o <<Msg("start")>> /\ login' # "GONE"
        /\ UNCHANGED <<accepted, sent, queued, state>>
    BY <1>7 DEF Proceed, StartTls
  <2> QED BY <1>3, <2>1, Speaking
<1>8. ASSUME Challenge \/ Success PROVE Counted'
  BY <1>2, <1>3, <1>8 DEF Challenge, Success, StartsOver
<1>9. ASSUME Unexpected \/ StreamEnds PROVE Counted'
  <2>1. CASE Unexpected
    BY <1>1, <2>1 DEF Unexpected
  <2>2. CASE StreamEnds
    BY <2>2, Closing DEF StreamEnds, Fails, within, logging
  <2> QED BY <1>9, <2>1, <2>2
<1>10. ASSUME Stanza PROVE Counted'
  BY <1>10, Carrying DEF Stanza, within, logging
<1>11. ASSUME NEW unhandled \in BOOLEAN, EndStanza(unhandled) PROVE Counted'
  <2>1. /\ UNCHANGED <<accepted, sent, queued, state, login>>
        /\ output' = output \/ output' = output \o <<Msg("error")>>
    BY <1>11 DEF EndStanza, within, logging
  <2>2. CASE output' = output
    BY <2>1, <2>2, Carrying
  <2>3. CASE output' = output \o <<Msg("error")>>
    BY <1>3, <2>1, <2>3, Speaking
  <2> QED BY <2>1, <2>2, <2>3
<1> QED BY <1>4, <1>5, <1>6, <1>7, <1>8, <1>9, <1>10, <1>11, StartedCounted DEF Element

LEMMA OutsideCounted ==
  ASSUME IInv, Linked, Counted, \/ DoLogin \/ Run \/ EndTold \/ SocketConnected
                                \/ TlsConnected \/ SocketClosed \/ Read
  PROVE  Counted'
<1>1. CASE DoLogin
  <2>1. state # "CLOSED" /\ UNCHANGED <<accepted, sent, queued, output, login>>
    BY <1>1 DEF DoLogin, Linked, logging
  <2> QED BY <2>1, Carrying
<1>2. CASE SocketConnected
  <2>1. /\ output = <<>> /\ output' = <<>> /\ state # "CLOSED" /\ login' # "GONE"
        /\ UNCHANGED <<accepted, sent, queued>>
    BY <1>2 DEF SocketConnected, IInv, Flushed
  <2> QED BY <2>1, Carrying
<1>3. CASE \/ Run \/ EndTold \/ TlsConnected \/ SocketClosed \/ Read
  <2>1. UNCHANGED <<state, accepted, sent, queued, output, login>>
    BY <1>3 DEF Run, RunStart, RunResponse, EndTold, TlsConnected, SocketClosed,
                Read, logging
  <2> QED BY <2>1, Carrying
<1> QED BY <1>1, <1>2, <1>3

LEMMA LeavingCounted ==
  ASSUME IInv, Linked, Counted, DoDisconnect \/ EndRead PROVE Counted'
<1>1. output \in Seq(Elements)
  BY DEF IInv, Typed
<1>2. CASE EndRead
  <2>1. Exit(state, saved, output) /\ UNCHANGED <<logging, accepted>>
    BY <1>2 DEF EndRead
  <2> QED BY <1>1, <2>1, Writing
<1>3. CASE DoDisconnect /\ state # "CLOSED"
  <2> DEFINE out == IF state = "OPEN" THEN output \o <<Msg("end")>> ELSE output
  <2>1. Exit("CLOSED", state, out) /\ UNCHANGED <<logging, accepted>>
    BY <1>3 DEF DoDisconnect
  <2>2. "end" \in Kinds \ {"stanza"}
    BY DEF Kinds
  <2>3. out \in Seq(Elements) /\ App(out) = App(output)
    BY <1>1, <2>2, AppMsg
  <2> HIDE DEF out
  <2> QED BY <2>1, <2>3, Writing
<1>4. CASE DoDisconnect /\ state = "CLOSED"
  <2>1. UNCHANGED <<state, accepted, sent, queued, output, login>>
    BY <1>4 DEF DoDisconnect, logging
  <2> QED BY <2>1, Carrying
<1> QED BY <1>2, <1>3, <1>4

LEMMA CountedAtFirst == Init => Counted
<1> SUFFICES ASSUME Init PROVE Counted
  OBVIOUS
<1>1. sent = <<>> /\ queued = <<>> /\ output = <<>> /\ accepted = 0
  BY DEF Init
<1>2. sent \in Seq(Elements) /\ AllOwn(queued)
  BY <1>1 DEF AllOwn
<1>3. App(output) = <<>>
  BY <1>1, AppEmpty
<1>4. sent \o App(output) \o queued = <<>>
  BY <1>1, <1>3
<1>5. All(accepted) = <<>>
  BY <1>1 DEF All
<1> QED BY <1>1, <1>2, <1>4, <1>5 DEF Counted, Whole

LEMMA CountedInductive ==
  ASSUME IInv, Linked, Counted, [Next]_vars PROVE Counted'
<1>1. CASE UNCHANGED vars
  <2>1. UNCHANGED <<state, accepted, sent, queued, output, login>>
    BY <1>1 DEF vars, logging
  <2> QED BY <2>1, Carrying
<1> QED BY <1>1, OutsideCounted, LeavingCounted, SendCounted, ElementCounted DEF Next

\* Until the engine closes, what the application has sent has been written, is
\* in the buffer or is queued, whole and in its order (SendStanza,
\* FlushQueuedStanzas, ~EnterExit).
THEOREM StanzasKept == Spec => []KeptInOrder
<1>1. Init => Counted
  BY CountedAtFirst
<1>2. IInv /\ Linked /\ Counted /\ [Next]_vars => Counted'
  BY CountedInductive
<1>3. Counted => KeptInOrder
  BY DEF Counted, Whole, KeptInOrder, All
<1> QED BY <1>1, <1>2, <1>3, Invariance, TellingInvariant, PTL DEF Spec

-----------------------------------------------------------------------------
(* The stream that starts over. *)

Restarts == login = "STREAMSTART_SENT" /\ Contains(output, Msg("start"))

\* While the start of a new stream is still in the buffer the rest of the chunk
\* is dropped, and no stanza is handled before the login is done.
Dropping ==
  /\ Restarts => reset
  /\ pc = "stanza" => login = "GONE"

LEMMA NoStart == output = <<>> => ~Restarts
BY DEF Restarts, Contains

\* Only an element that is heard, or the socket that connects, moves the login.
LEMMA LoginMoves ==
  ASSUME [Next]_vars, login' # login
  PROVE  Hears \/ pc = "idle"
<1>1. CASE \/ DoLogin \/ Run \/ EndTold \/ SocketConnected \/ TlsConnected
           \/ SocketClosed \/ Read
  BY <1>1 DEF DoLogin, Run, RunStart, RunResponse, EndTold, SocketConnected,
              TlsConnected, SocketClosed, Read, logging
<1>2. CASE DoDisconnect \/ SendStanza \/ EndRead \/ UNCHANGED vars
  BY <1>2 DEF DoDisconnect, SendStanza, EndRead, vars, logging
<1>3. CASE Element
  BY <1>3 DEF Element, StreamStart, Bound, SessionStarted, Features, Proceed, StartTls,
              Challenge, Success, Unexpected, StreamEnds, Stanza, EndStanza, logging
<1> QED BY <1>1, <1>2, <1>3 DEF Next

\* An element that leaves the login at the start of a stream has just printed it,
\* or has left it there.
LEMMA ElementDrops ==
  ASSUME Dropping, Element PROVE Dropping'
<1>1. ASSUME login' \notin {"STREAMSTART_SENT"}, pc' = "input" PROVE Dropping'
  BY <1>1 DEF Dropping, Restarts
<1>2. ASSUME LoginFails, pc = "input" PROVE Dropping'
  BY <1>1, <1>2 DEF LoginFails, Fails
<1>3. ASSUME NEW l, NEW says, NEW next, Advances(l, says, next), pc = "input",
             l # "STREAMSTART_SENT"
      PROVE  Dropping'
  BY <1>1, <1>3 DEF Advances
<1>4. ASSUME NEW good \in BOOLEAN,
             StreamStart(good) \/ Bound(good) \/ SessionStarted(good)
      PROVE  Dropping'
  <2>1. CASE LoginFails /\ pc = "input"
    BY <1>2, <2>1
  <2>2. CASE StreamStart(good) /\ good
    BY <1>3, <2>2 DEF StreamStart, Hears
  <2>3. CASE Bound(good) /\ good
    BY <1>3, <2>3 DEF Bound, Hears
  <2>4. CASE SessionStarted(good) /\ good
    BY <1>1, <2>4 DEF SessionStarted, Hears
  <2> QED BY <1>4, <2>1, <2>2, <2>3, <2>4 DEF StreamStart, Bound, SessionStarted, Hears
<1>5. ASSUME NEW has \in FeatureSets, Features(has) PROVE Dropping'
  <2>1. pc = "input" /\ (TlsInit \/ AuthInit(has) \/ BindInit(has) \/ LoginFails)
    BY <1>5 DEF Features, Hears
  <2>2. CASE TlsInit
    BY <1>3, <2>1, <2>2 DEF TlsInit
  <2>3. CASE AuthInit(has)
    BY <1>2, <1>3, <2>1, <2>3 DEF AuthInit
  <2>4. CASE BindInit(has)
    BY <1>2, <1>3, <2>1, <2>4 DEF BindInit
  <2> QED BY <1>2, <2>1, <2>2, <2>3, <2>4
<1>6. ASSUME NEW starts \in BOOLEAN, Proceed(starts) \/ Success PROVE Dropping'
  <2>1. reset' /\ pc' = "input"
    BY <1>6 DEF Proceed, StartTls, Success, StartsOver, Advances, Hears
  <2> QED BY <2>1 DEF Dropping
<1>7. ASSUME Challenge PROVE Dropping'
  BY <1>3, <1>7 DEF Challenge, Hears
<1>8. ASSUME Unexpected PROVE Dropping'
  BY <1>2, <1>8 DEF Unexpected, Hears
<1>9. ASSUME StreamEnds \/ Stanza PROVE Dropping'
  <2>1. UNCHANGED <<login, output, reset>> /\ (pc' = "input" \/ login = "GONE")
    BY <1>9 DEF StreamEnds, Stanza, Fails, Hears, logging
  <2> QED BY <2>1 DEF Dropping, Restarts
<1>10. ASSUME NEW unhandled \in BOOLEAN, EndStanza(unhandled) PROVE Dropping'
  <2>1. login' = login /\ login = "GONE" /\ pc' = "input"
    BY <1>10 DEF EndStanza, Dropping, logging
  <2> QED BY <1>1, <2>1
<1> QED BY <1>4, <1>5, <1>6, <1>7, <1>8, <1>9, <1>10 DEF Element

LEMMA DroppingInductive ==
  ASSUME IInv, IInv', Dropping, [Next]_vars PROVE Dropping'
<1>1. CASE pc' \in {"idle", "told"}
  <2>1. output' = <<>>
    BY <1>1 DEF IInv, Flushed
  <2>2. ~Restarts'
    BY <2>1 DEF Restarts, Contains
  <2> QED BY <1>1, <2>2 DEF Dropping
<1>2. CASE \/ DoLogin \/ Run \/ EndTold \/ SocketConnected \/ TlsConnected
           \/ SocketClosed \/ DoDisconnect \/ EndRead
  <2>1. pc' \in {"idle", "told"}
    BY <1>2 DEF DoLogin, Run, RunStart, RunResponse, EndTold, SocketConnected,
                TlsConnected, SocketClosed, DoDisconnect, EndRead, Exit
  <2> QED BY <1>1, <2>1
<1>3. CASE Read
  <2>1. pc = "idle" /\ pc' = "input" /\ UNCHANGED <<login, output>>
    BY <1>3 DEF Read, logging
  <2>2. output' = <<>>
    BY <2>1 DEF IInv, Flushed
  <2>3. ~Restarts'
    BY <2>2 DEF Restarts, Contains
  <2> QED BY <2>1, <2>3 DEF Dropping
<1>4. CASE SendStanza
  <2>1. UNCHANGED <<login, pc, reset>> /\ (output' = output \/ login = "GONE")
    BY <1>4 DEF SendStanza
  <2> QED BY <2>1 DEF Dropping, Restarts
<1>5. CASE Element
  BY <1>5, ElementDrops
<1>6. CASE UNCHANGED vars
  BY <1>6 DEF vars, logging, Dropping, Restarts
<1> QED BY <1>2, <1>3, <1>4, <1>5, <1>6 DEF Next

\* No element is taken by the login while the start of its new stream is still
\* to be written, whatever else the chunk holds (RaiseReset, HandleInput).
THEOREM StreamsStartFresh == Spec => FreshStream
<1>1. Init => Dropping
  BY DEF Init, Dropping, Restarts, Contains
<1>2. IInv /\ IInv' /\ Dropping /\ [Next]_vars => Dropping'
  BY DroppingInductive
<1>3. IInv /\ Dropping /\ [Next]_vars =>
        [login = "STREAMSTART_SENT" /\ Contains(output, Msg("start")) => login' = login]_vars
  <2> SUFFICES ASSUME IInv, Dropping, [Next]_vars, Restarts, login' # login PROVE FALSE
    BY DEF Restarts
  <2>1. CASE Hears
    BY <2>1 DEF Dropping, Hears
  <2>2. CASE pc = "idle"
    BY <2>2, NoStart DEF IInv, Flushed
  <2> QED BY <2>1, <2>2, LoginMoves
<1> QED BY <1>1, <1>2, <1>3, Invariance, PTL DEF Spec, FreshStream

-----------------------------------------------------------------------------
(* The types. *)

AskKinds == {"start", "starttls", "auth", "response", "bind", "session"}
Answers  == {"start", "proceed", "sasl", "bind", "session"}
Printed  == Stanzas \cup {Msg(w) : w \in AskKinds \cup {"error", "end"}}

\* The buffers hold what the engine prints, of the application's no more than
\* has been accepted.
Buffered ==
  /\ queued \in Seq(Stanzas) /\ sent \in Seq(Stanzas)
  /\ output \in Seq(Printed)

\* All but the buffers.
Scalars ==
  /\ task \in {"new", "START", "RESPONSE", "ERROR", "aborted", "gone"}
  /\ posted \in BOOLEAN /\ hungUp \in BOOLEAN
  /\ sock \in {"none", "connecting", "open", "tls_connecting", "tls_open",
               "closed"}
  /\ state \in {"NONE", "START", "OPENING", "OPEN", "CLOSED"}
  /\ login \in Waiting \cup {"INIT", "GONE"}
  /\ useTls \in TlsOptions /\ tls \in TlsOptions \cup {"enabled"}
  /\ error \in BOOLEAN /\ auth \in BOOLEAN /\ encrypted \in BOOLEAN
  /\ reset \in BOOLEAN /\ handler \in BOOLEAN
  /\ accepted \in 0 .. MaxSends
  /\ pc \in {"idle", "input", "stanza", "told"}
  /\ saved \in {"NONE", "START", "OPENING", "OPEN"}
  /\ server \in {"silent", "features"} \cup Answers

LEMMA AsksType ==
  /\ DOMAIN Asks = AskKinds
  /\ \A w \in AskKinds : Asks[w] \in Answers
  /\ {Asks[m] : m \in DOMAIN Asks} = Answers
<1>1. DOMAIN Asks = AskKinds
  BY DEF Asks, AskKinds
<1>2. /\ Asks["start"] = "start" /\ Asks["starttls"] = "proceed" /\ Asks["auth"] = "sasl"
      /\ Asks["response"] = "sasl" /\ Asks["bind"] = "bind" /\ Asks["session"] = "session"
  BY DEF Asks
<1> HIDE DEF Asks
<1>3. \A w \in AskKinds : Asks[w] \in Answers
  BY <1>2 DEF AskKinds, Answers
<1>4. \A a \in Answers : \E w \in AskKinds : Asks[w] = a
  BY <1>2 DEF AskKinds, Answers
<1> QED BY <1>1, <1>3, <1>4

LEMMA TypesAre ==
  TypeOK <=> Scalars /\ Buffered /\ told \in Seq(States)
BY AsksType DEF TypeOK, Scalars, Buffered, Printed, States

\* What is printed.
LEMMA PrintedWhat ==
  /\ \A w \in AskKinds \cup {"error", "end"} : Msg(w) \in Printed
  /\ \A e \in Printed : e \in Stanzas \/ e.what # "stanza"
  /\ Stanzas \subseteq Printed
<1>1. \A w \in AskKinds \cup {"error", "end"} : Msg(w) \in Printed /\ Msg(w).what # "stanza"
  BY DEF Printed, Msg, AskKinds
<1> QED BY <1>1 DEF Printed

\* The application's part of a buffer holds stanzas.
LEMMA AppStanzas ==
  ASSUME NEW out \in Seq(Printed) PROVE App(out) \in Seq(Stanzas)
<1> DEFINE K == {m \in ToSet(out) : m.what = "stanza"}
<1>1. Keep(out, K) \in Seq(Printed \cap K)
  BY KeepType
<1>2. Printed \cap K \subseteq Stanzas
  BY PrintedWhat
<1>3. Seq(Printed \cap K) \subseteq Seq(Stanzas)
  BY <1>2
<1> QED BY <1>1, <1>3 DEF App

\* What the server is asked is what it may answer.
LEMMA RequestsAsk ==
  ASSUME NEW out \in Seq(Printed), Requests(out) # <<>>
  PROVE  Asks[Last(Requests(out)).what] \in Answers
<1> DEFINE K == {m \in ToSet(out) : m.what \in DOMAIN Asks}
           r == Keep(out, K)
<1>1. r \in Seq(Printed) /\ \A k \in 1 .. Len(r) : r[k] \in K
  BY KeepType, KeepMembers
<1>2. r = Requests(out)
  BY DEF Requests
<1> HIDE DEF r
<1>3. Len(r) \in 1 .. Len(r)
  BY <1>1, <1>2
<1>4. Last(r) \in K
  BY <1>1, <1>3 DEF Last
<1>5. Last(r).what \in DOMAIN Asks
  BY <1>4
<1> QED BY <1>2, <1>5, AsksType

LEMMA ExitType ==
  ASSUME Scalars, Buffered, NEW s, NEW from, NEW out \in Seq(Printed),
         s \in {"NONE", "START", "OPENING", "OPEN", "CLOSED"}, Exit(s, from, out),
         UNCHANGED <<hungUp, error, logging, accepted, saved>>,
         task' \in {"new", "START", "RESPONSE", "ERROR", "aborted", "gone"},
         posted' \in BOOLEAN
  PROVE  Scalars' /\ Buffered'
<1>1. server' \in {"silent", "features"} \cup Answers
  <2>1. server' = server \/ (Requests(out) # <<>> /\ server' = Asks[Last(Requests(out)).what])
    BY DEF Exit
  <2> QED BY <2>1, RequestsAsk DEF Scalars
<1>2. Scalars'
  <2>1. /\ state' = s /\ reset' = FALSE /\ sock' \in {sock, "closed"}
        /\ pc' \in {"told", "idle"}
    BY DEF Exit
  <2>2. handler' \in BOOLEAN
    BY DEF Exit
  <2>3. UNCHANGED <<hungUp, error, accepted, saved, login, auth, useTls, tls, encrypted>>
    BY DEF logging
  <2>4. sock' \in {"none", "connecting", "open", "tls_connecting", "tls_open", "closed"}
    BY <2>1 DEF Scalars
  <2>5. state' \in {"NONE", "START", "OPENING", "OPEN", "CLOSED"}
    BY <2>1
  <2> HIDE DEF Exit
  <2> QED BY <1>1, <2>1, <2>2, <2>3, <2>4, <2>5 DEF Scalars
<1>3. App(out) \in Seq(Stanzas)
  BY AppStanzas
<1>4. sent' = sent \/ sent' = sent \o App(out)
  BY DEF Exit
<1>5. sent' \in Seq(Stanzas)
  BY <1>3, <1>4, ConcatProperties DEF Buffered
<1>6. output' = <<>> \/ output' = out
  BY DEF Exit
<1>7. output' \in Seq(Printed)
  <2>1. <<>> \in Seq(Printed)
    OBVIOUS
  <2> QED BY <1>6, <2>1
<1>8. queued' = queued
  BY DEF logging
<1> QED BY <1>2, <1>5, <1>7, <1>8 DEF Buffered

\* An element of the stream leaves the thread in its chunk.
LEMMA SpokenType ==
  ASSUME Scalars, Buffered, UNCHANGED <<task, posted, hungUp, accepted, saved, sent, handler, useTls>>,
         sock' = sock \/ sock' = "tls_connecting",
         state' \in {state, "OPEN", "CLOSED"}, error' \in BOOLEAN,
         login' \in Waiting \cup {"INIT", "GONE"},
         tls' \in {tls, "enabled"}, auth' \in BOOLEAN, encrypted' \in BOOLEAN,
         reset' \in BOOLEAN, pc' \in {"input", "stanza"},
         server' \in {server, "silent", "features"},
         \/ queued' = queued /\ \/ output' = output
                                \/ \E e \in Printed : output' = output \o <<e>>
         \/ queued' = <<>> /\ output' \in {output, output \o queued}
  PROVE  Scalars' /\ Buffered'
<1>1. Scalars'
  BY DEF Scalars
<1>2. queued' \in Seq(Stanzas)
  <2>1. queued' = queued \/ queued' = <<>>
    OBVIOUS
  <2>2. <<>> \in Seq(Stanzas)
    OBVIOUS
  <2> QED BY <2>1, <2>2 DEF Buffered
<1>3. output' \in Seq(Printed)
  <2>1. output \in Seq(Printed) /\ queued \in Seq(Stanzas)
    BY DEF Buffered
  <2>2. queued \in Seq(Printed)
    BY <2>1, PrintedWhat
  <2>3. CASE output' = output
    BY <2>1, <2>3
  <2>4. ASSUME NEW e \in Printed, output' = output \o <<e>> PROVE output' \in Seq(Printed)
    <3>1. <<e>> \in Seq(Printed)
      OBVIOUS
    <3> QED BY <2>1, <2>4, <3>1, ConcatProperties
  <2>5. CASE output' = output \o queued
    BY <2>1, <2>2, <2>5, ConcatProperties
  <2> QED BY <2>3, <2>4, <2>5
<1> QED BY <1>1, <1>2, <1>3 DEF Buffered

LEMMA ElementType ==
  ASSUME Scalars, Buffered, pc = "stanza" => login = "GONE", Element
  PROVE  Scalars' /\ Buffered'
<1>0. /\ login \in Waiting \cup {"INIT", "GONE"} /\ error \in BOOLEAN /\ auth \in BOOLEAN
      /\ encrypted \in BOOLEAN /\ reset \in BOOLEAN
  BY DEF Scalars
<1>1. ASSUME LoginFails, pc = "input" PROVE Scalars' /\ Buffered'
  BY <1>0, <1>1, SpokenType DEF LoginFails, Fails, within, conn
<1>2. ASSUME NEW l \in Waiting, NEW w \in AskKinds, NEW next \in {"silent", "features"},
             Advances(l, <<Msg(w)>>, next), pc = "input", auth' \in BOOLEAN, reset' \in BOOLEAN,
             UNCHANGED <<useTls, tls, encrypted, queued>>
      PROVE  Scalars' /\ Buffered'
  <2>1. Msg(w) \in Printed
    BY PrintedWhat
  <2>2. \E e \in Printed : output' = output \o <<e>>
    BY <1>2, <2>1 DEF Advances
  <2>3. /\ UNCHANGED <<task, posted, hungUp, accepted, saved, sent, handler, sock, state,
                       error, pc>>
        /\ login' = l /\ server' = next
    BY <1>2 DEF Advances, within, conn
  <2> QED BY <1>0, <1>2, <2>2, <2>3, SpokenType
<1>3. /\ {"STREAMSTART_SENT", "STARTED_XMPP", "TLS_REQUESTED", "SASL_RUNNING",
          "BIND_REQUESTED", "SESSION_REQUESTED"} \subseteq Waiting
      /\ {"start", "starttls", "auth", "response", "bind", "session"} \subseteq AskKinds
  BY DEF Waiting, AskKinds
<1>4. ASSUME NEW good \in BOOLEAN, StreamStart(good) PROVE Scalars' /\ Buffered'
  <2>1. CASE good
    <3>1. output \o <<>> = output
      BY ConcatEmptySeq DEF Buffered
    <3>2. /\ UNCHANGED <<task, posted, hungUp, accepted, saved, sent, handler, sock, state,
                         error, pc, auth, useTls, tls, encrypted, reset, queued, output>>
          /\ login' = "STARTED_XMPP" /\ server' = "features" /\ pc = "input"
      BY <1>4, <2>1, <3>1 DEF StreamStart, Hears, Advances, within, conn
    <3> QED BY <1>0, <1>3, <3>2, SpokenType
  <2>2. CASE ~good
    BY <1>1, <1>4, <2>2 DEF StreamStart, Hears
  <2> QED BY <2>1, <2>2
<1>5. ASSUME NEW good \in BOOLEAN, Bound(good) PROVE Scalars' /\ Buffered'
  <2>1. CASE good
    BY <1>0, <1>2, <1>3, <1>5, <2>1 DEF Bound, Hears
  <2>2. CASE ~good
    BY <1>1, <1>5, <2>2 DEF Bound, Hears
  <2> QED BY <2>1, <2>2
<1>6. ASSUME NEW good \in BOOLEAN, SessionStarted(good) PROVE Scalars' /\ Buffered'
  <2>1. CASE good
    <3>1. /\ UNCHANGED <<task, posted, hungUp, accepted, saved, sent, handler, sock, pc,
                         error, auth, useTls, tls, encrypted, reset>>
          /\ login' = "GONE" /\ server' = "silent" /\ pc = "input" /\ state' = "OPEN"
          /\ output' = output \o queued /\ queued' = <<>>
      BY <1>6, <2>1 DEF SessionStarted, Hears, within, conn
    <3> QED BY <1>0, <3>1, SpokenType
  <2>2. CASE ~good
    BY <1>1, <1>6, <2>2 DEF SessionStarted, Hears
  <2> QED BY <2>1, <2>2
<1>7. ASSUME NEW has \in FeatureSets, Features(has) PROVE Scalars' /\ Buffered'
  <2>1. pc = "input" /\ (TlsInit \/ AuthInit(has) \/ BindInit(has) \/ LoginFails)
    BY <1>7 DEF Features, Hears
  <2>2. CASE TlsInit
    BY <1>0, <1>2, <1>3, <2>1, <2>2 DEF TlsInit
  <2>3. CASE AuthInit(has)
    BY <1>0, <1>1, <1>2, <1>3, <2>1, <2>3 DEF AuthInit
  <2>4. CASE BindInit(has)
    BY <1>0, <1>1, <1>2, <1>3, <2>1, <2>4 DEF BindInit
  <2> QED BY <1>1, <2>1, <2>2, <2>3, <2>4
<1>8. ASSUME NEW starts \in BOOLEAN, Proceed(starts) PROVE Scalars' /\ Buffered'
  <2>1. /\ UNCHANGED <<task, posted, hungUp, accepted, saved, sent, handler, state,
                       error, pc, auth, useTls, queued>>
        /\ reset' = TRUE /\ login' = "STREAMSTART_SENT"
        /\ sock' = "tls_connecting" \/ sock' = sock
        /\ encrypted' = TRUE /\ tls' = "enabled" /\ server' = "silent" /\ pc = "input"
        /\ output' = output \o <<Msg("start")>>
    BY <1>8 DEF Proceed, StartTls, Hears
  <2>2. \E e \in Printed : output' = output \o <<e>>
    BY <1>3, <2>1, PrintedWhat
  <2> QED BY <1>0, <1>3, <2>1, <2>2, SpokenType
<1>9. ASSUME Challenge \/ Success PROVE Scalars' /\ Buffered'
  <2>1. CASE Challenge
    BY <1>0, <1>2, <1>3, <2>1 DEF Challenge, Hears
  <2>2. CASE Success
    <3>1. pc = "input" /\ auth' = FALSE /\ reset' = TRUE
      BY <2>2 DEF Success, StartsOver, Hears
    <3> QED BY <1>2, <1>3, <2>2, <3>1 DEF Success, StartsOver
  <2> QED BY <1>9, <2>1, <2>2
<1>10. ASSUME Unexpected PROVE Scalars' /\ Buffered'
  BY <1>1, <1>10 DEF Unexpected, Hears
<1>11. ASSUME StreamEnds \/ Stanza PROVE Scalars' /\ Buffered'
  <2>1. /\ UNCHANGED <<task, posted, hungUp, accepted, saved, sent, handler, sock, login,
                       auth, useTls, tls, encrypted, reset, queued, output, server>>
        /\ state' \in {state, "CLOSED"} /\ error' \in BOOLEAN /\ pc' \in {"input", "stanza"}
    BY <1>0, <1>11 DEF StreamEnds, Stanza, Hears, Fails, within, conn, logging
  <2> QED BY <1>0, <2>1, SpokenType
<1>12. ASSUME NEW unhandled \in BOOLEAN, EndStanza(unhandled) PROVE Scalars' /\ Buffered'
  <2>1. /\ UNCHANGED <<task, posted, hungUp, accepted, saved, sent, handler, sock, login,
                       auth, useTls, tls, encrypted, reset, queued, server, state, error>>
        /\ pc' = "input"
        /\ output' = output \/ output' = output \o <<Msg("error")>>
    BY <1>12 DEF EndStanza, within, conn, logging
  <2>2. Msg("error") \in Printed
    BY PrintedWhat
  <2> QED BY <1>0, <2>1, <2>2, SpokenType
<1> QED BY <1>4, <1>5, <1>6, <1>7, <1>8, <1>9, <1>10, <1>11, <1>12 DEF Element

LEMMA OthersType ==
  ASSUME Scalars, Buffered, IInv, Linked,
         \/ DoLogin \/ Run \/ EndTold \/ SocketConnected \/ TlsConnected
         \/ SocketClosed \/ Read \/ SendStanza
  PROVE  Scalars' /\ Buffered'
<1>1. CASE \/ DoLogin \/ Run \/ EndTold \/ TlsConnected \/ SocketClosed \/ Read
  <2>1. Scalars'
    <3>0. ASSUME UNCHANGED <<hungUp, error, logging, reset, accepted, saved, server>>,
                 task' \in {task, "START", "RESPONSE", "ERROR", "gone"},
                 sock' \in {sock, "none", "connecting", "tls_open"},
                 state' \in {state, "START"}, pc' \in {pc, "told", "idle"},
                 posted' \in BOOLEAN, handler' \in BOOLEAN
          PROVE  Scalars'
      <4>1. UNCHANGED <<login, auth, useTls, tls, encrypted>>
        BY <3>0 DEF logging
      <4>2. /\ task' \in {"new", "START", "RESPONSE", "ERROR", "aborted", "gone"}
            /\ sock' \in {"none", "connecting", "open", "tls_connecting", "tls_open",
                          "closed"}
            /\ state' \in {"NONE", "START", "OPENING", "OPEN", "CLOSED"}
            /\ pc' \in {"idle", "input", "stanza", "told"}
        BY <3>0 DEF Scalars
      <4>3. UNCHANGED <<hungUp, error, reset, accepted, saved, server>>
            /\ posted' \in BOOLEAN /\ handler' \in BOOLEAN
        BY <3>0
      <4> QED BY <4>1, <4>2, <4>3 DEF Scalars
    <3>a. posted \in BOOLEAN /\ handler \in BOOLEAN
      BY DEF Scalars
    <3>1. CASE DoLogin
      BY <3>1 DEF DoLogin, Scalars, logging
    <3>2. CASE RunResponse
      <4>1. /\ UNCHANGED <<hungUp, error, logging, reset, accepted, saved, server>>
            /\ UNCHANGED <<state, handler, pc>> /\ posted' = FALSE
        BY <3>2 DEF RunResponse
      <4>2. task' \in {task, "gone"} /\ sock' \in {sock, "none"}
        BY <3>2 DEF RunResponse
      <4> QED BY <3>0, <3>a, <4>1, <4>2
    <3>3. ASSUME NEW connects \in BOOLEAN, RunStart(connects) PROVE Scalars'
      <4>1. /\ UNCHANGED <<hungUp, error, logging, reset, accepted, saved, server>>
            /\ UNCHANGED <<state, handler>> /\ posted' = FALSE
        BY <3>3 DEF RunStart
      <4>2. /\ task' \in {"RESPONSE", "ERROR"} /\ sock' \in {sock, "connecting"}
            /\ pc' \in {pc, "told"}
        BY <3>3 DEF RunStart
      <4> QED BY <3>0, <3>a, <4>1, <4>2
    <3>4. CASE EndTold
      BY <3>4 DEF EndTold, Scalars, logging
    <3>5. CASE TlsConnected \/ SocketClosed
      <4>1. /\ UNCHANGED <<task, posted, state, error, logging, reset, handler, accepted,
                           pc, saved, server>>
            /\ sock' \in {sock, "tls_open"} /\ hungUp' \in {hungUp, TRUE}
        BY <3>5 DEF TlsConnected, SocketClosed
      <4>2. UNCHANGED <<login, auth, useTls, tls, encrypted>>
        BY <4>1 DEF logging
      <4>3. hungUp' \in BOOLEAN
        BY <4>1 DEF Scalars
      <4>4. sock' \in {"none", "connecting", "open", "tls_connecting", "tls_open", "closed"}
        BY <4>1 DEF Scalars
      <4>5. UNCHANGED <<task, posted, state, error, reset, handler, accepted, pc, saved, server>>
        BY <4>1
      <4> QED BY <4>2, <4>3, <4>4, <4>5 DEF Scalars
    <3>6. CASE Read
      BY <3>6 DEF Read, Scalars, logging, conn
    <3> QED BY <1>1, <3>1, <3>2, <3>3, <3>4, <3>5, <3>6 DEF Run
  <2>2. UNCHANGED <<queued, sent, output>>
    BY <1>1 DEF DoLogin, Run, RunStart, RunResponse, EndTold, TlsConnected, SocketClosed,
                Read, logging
  <2> QED BY <2>1, <2>2 DEF Buffered
<1>2. CASE SocketConnected
  <2>1. Scalars'
    BY <1>2 DEF SocketConnected, Scalars, Waiting, Answers
  <2>2. output' = <<>> /\ UNCHANGED <<queued, sent>>
    BY <1>2 DEF SocketConnected
  <2>3. <<>> \in Seq(Printed)
    OBVIOUS
  <2> QED BY <2>1, <2>2, <2>3 DEF Buffered
<1>3. CASE SendStanza
  <2>1. accepted' = accepted + 1 /\ accepted' \in 1 .. MaxSends
    BY <1>3, ConstantsAssumption DEF SendStanza, Scalars
  <2>2. Scalars'
    <3>1. accepted' \in 0 .. MaxSends
      BY <2>1
    <3> QED BY <1>3, <3>1 DEF SendStanza, Scalars, conn
  <2> DEFINE own == <<Own(accepted')>>
  <2>3. own \in Seq(Stanzas) /\ own \in Seq(Printed)
    <3>1. Own(accepted') \in Stanzas
      BY <2>1 DEF Stanzas
    <3> QED BY <3>1, PrintedWhat
  <2>4. App(output) \in Seq(Stanzas)
    BY AppStanzas DEF Buffered
  <2>5. /\ queued' = queued \/ queued' = queued \o own
        /\ output' \in {output, output \o own, <<>>}
        /\ sent' = sent \/ sent' = sent \o App(output) \o own
    BY <1>3 DEF SendStanza
  <2> HIDE DEF own
  <2>6. queued' \in Seq(Stanzas)
    BY <2>3, <2>5, ConcatProperties DEF Buffered
  <2>7. output' \in Seq(Printed)
    <3>1. <<>> \in Seq(Printed)
      OBVIOUS
    <3> QED BY <2>3, <2>5, <3>1, ConcatProperties DEF Buffered
  <2>8. sent' \in Seq(Stanzas)
    <3>1. PICK b : b = App(output)
      OBVIOUS
    <3>2. b \in Seq(Stanzas) /\ sent \in Seq(Stanzas)
      BY <2>4, <3>1 DEF Buffered
    <3>3. sent \o b \in Seq(Stanzas)
      BY <3>2, ConcatProperties
    <3>4. (sent \o b) \o own \in Seq(Stanzas)
      BY <2>3, <3>3, ConcatProperties
    <3>5. sent' = sent \/ sent' = (sent \o b) \o own
      BY <2>5, <3>1
    <3> QED BY <3>2, <3>4, <3>5
  <2> QED BY <2>2, <2>6, <2>7, <2>8 DEF Buffered
<1> QED BY <1>1, <1>2, <1>3

LEMMA LeavesType ==
  ASSUME Scalars, Buffered, DoDisconnect \/ EndRead PROVE Scalars' /\ Buffered'
<1>1. output \in Seq(Printed) /\ state \in {"NONE", "START", "OPENING", "OPEN", "CLOSED"}
      /\ posted \in BOOLEAN
      /\ task \in {"new", "START", "RESPONSE", "ERROR", "aborted", "gone"}
  BY DEF Scalars, Buffered
<1>2. CASE EndRead
  <2>1. Exit(state, saved, output) /\ UNCHANGED <<task, posted, hungUp, error, logging, accepted, saved>>
    BY <1>2 DEF EndRead
  <2> QED BY <1>1, <2>1, ExitType
<1>3. CASE DoDisconnect /\ state # "CLOSED"
  <2> DEFINE out == IF state = "OPEN" THEN output \o <<Msg("end")>> ELSE output
  <2>1. Exit("CLOSED", state, out) /\ UNCHANGED <<hungUp, error, logging, accepted, saved>>
        /\ task' = "aborted" /\ posted' = TRUE
    BY <1>3 DEF DoDisconnect
  <2>2. PICK e : e = Msg("end")
    OBVIOUS
  <2>3. e \in Printed
    BY <2>2, PrintedWhat
  <2>4. output \o <<e>> \in Seq(Printed)
    <3>1. <<e>> \in Seq(Printed)
      BY <2>3
    <3> QED BY <1>1, <3>1, ConcatProperties
  <2>5. out \in Seq(Printed)
    BY <1>1, <2>2, <2>4
  <2> HIDE DEF out
  <2> QED BY <2>1, <2>5, ExitType
<1>4. CASE DoDisconnect /\ state = "CLOSED"
  <2>1. /\ UNCHANGED <<state, output, sent, server, handler, reset, pc, hungUp, error,
                       accepted, saved>>
        /\ UNCHANGED <<login, auth, useTls, tls, encrypted, queued>>
        /\ task' = "aborted" /\ posted' = TRUE /\ sock' = "none"
    BY <1>4 DEF DoDisconnect, logging
  <2> QED BY <2>1 DEF Scalars, Buffered
<1> QED BY <1>2, <1>3, <1>4

\* Every variable of the connection keeps its type, whatever the server offers and
\* sends: the buffers hold only what the engine prints, and stanzas the application
\* has sent.
THEOREM TypeCorrect == Spec => []TypeOK
<1>1. Init => Scalars /\ Buffered
  <2> SUFFICES ASSUME Init PROVE Scalars /\ Buffered
    OBVIOUS
  <2>1. <<>> \in Seq(Stanzas) /\ <<>> \in Seq(Printed)
    OBVIOUS
  <2>2. 0 \in 0 .. MaxSends
    BY ConstantsAssumption
  <2> QED BY <2>1, <2>2 DEF Init, Scalars, Buffered
<1>2. Scalars /\ Buffered /\ IInv /\ Linked /\ Dropping /\ [Next]_vars => (Scalars /\ Buffered)'
  <2> SUFFICES ASSUME Scalars, Buffered, IInv, Linked, Dropping, [Next]_vars
               PROVE  Scalars' /\ Buffered'
    OBVIOUS
  <2>1. CASE Element
    BY <2>1, ElementType DEF Dropping
  <2>2. CASE UNCHANGED vars
    BY <2>2 DEF vars, conn, logging, Scalars, Buffered
  <2> QED BY <2>1, <2>2, OthersType, LeavesType DEF Next
<1>3. Scalars /\ Buffered /\ Linked => TypeOK
  BY TypesAre DEF Linked
<1>4. Init => Dropping
  BY DEF Init, Dropping, Restarts, Contains
<1>5. IInv /\ IInv' /\ Dropping /\ [Next]_vars => Dropping'
  BY DroppingInductive
<1> QED BY <1>1, <1>2, <1>3, <1>4, <1>5, Invariance, TellingInvariant, PTL DEF Spec
=============================================================================
