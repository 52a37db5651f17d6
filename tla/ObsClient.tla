------------------------------- MODULE ObsClient -------------------------------
(* The client of OBS Studio's web-socket server and the built-in action that  *)
(* uses it: it connects when the action is first pressed, answers the Hello   *)
(* and sends requests once OBS identified it. OBS may be started, restarted   *)
(* with other settings or quit at any time; its link ends with an error that  *)
(* the socket reports, or cleanly, which nothing here listens for.            *)
(* src/app/src/obs_client.cpp, builtin_actions_service.cpp                    *)
EXTENDS Integers, Sequences

CONSTANTS Passwords, NoPassword,   \* what OBS or the settings may hold
          MaxFrames                \* the bound on what is on its way

VARIABLES setting,       \* the password in the settings
          state,         \* m_state
          password,      \* m_password
          m_obsConnected, m_obsAuthFailed,   \* of the action
          link,          \* the socket: "none", "opening", "up"
          toClient, toObs,
          obs,           \* its password; "down" when it does not run
          welcome,       \* OBS's side of the link: "new", "identified"
          refused        \* history: it got a request too early, or no password where it asked for one

client == <<state, password, m_obsConnected, m_obsAuthFailed>>
wire == <<link, toClient, toObs, welcome>>
vars == <<setting, client, wire, obs, refused>>

Secrets == Passwords \cup {NoPassword}
Down == "down"

Init ==
  /\ setting \in Secrets /\ obs \in Secrets \cup {Down} /\ refused = FALSE
  /\ state = "Disconnected" /\ password = NoPassword
  /\ m_obsConnected = FALSE /\ m_obsAuthFailed = FALSE
  /\ link = "none" /\ toClient = <<>> /\ toObs = <<>> /\ welcome = "new"
-----------------------------------------------------------------------------
NewLink(l) == link' = l /\ toClient' = <<>> /\ toObs' = <<>> /\ welcome' = "new"

(* Nothing is sent on a socket that is not up.                                *)
SendTextMessage(frame) == toObs' = IF link = "up" THEN Append(toObs, frame) ELSE toObs

SendRequest ==
  /\ state = "Identified" => SendTextMessage([op |-> "Request", auth |-> NoPassword])
  /\ state # "Identified" => UNCHANGED toObs

(* The action is pressed: connect unless that was done or has failed for want *)
(* of a password, then send. A client that has just begun drops the request.  *)
Press ==
  /\ Len(toObs) + Len(toClient) < MaxFrames
  /\ LET lazy == ~m_obsConnected /\ ~m_obsAuthFailed /\ state = "Disconnected"
     IN  /\ lazy => password' = setting /\ state' = "Connecting" /\ NewLink("opening")
         /\ ~lazy => SendRequest /\ UNCHANGED <<password, state, link, toClient, welcome>>
  /\ UNCHANGED <<setting, m_obsConnected, m_obsAuthFailed, obs, refused>>

(* OBS demands a password, and the client has none: it does not go on.        *)
Refuses ==
  /\ state' = "Disconnected" /\ m_obsAuthFailed' = TRUE /\ NewLink("none")
  /\ UNCHANGED <<password, m_obsConnected>>

Identify(auth) ==
  /\ SendTextMessage([op |-> "Identify", auth |-> auth])
  /\ UNCHANGED <<client, link, welcome>>

(* The salt and the challenge make an answer good for one Hello only: what    *)
(* travels is the password it was made with.                                  *)
OnTextMessageReceived ==
  /\ link = "up" /\ toClient # <<>>
  /\ LET frame == Head(toClient)
     IN \/ /\ frame.op = "Hello" /\ frame.auth /\ password = NoPassword /\ Refuses
        \/ /\ frame.op = "Hello" /\ frame.auth /\ password # NoPassword /\ Identify(password)
           /\ toClient' = Tail(toClient)
        \/ frame.op = "Hello" /\ ~frame.auth /\ Identify(NoPassword) /\ toClient' = Tail(toClient)
        \/ /\ frame.op = "Identified" /\ toClient' = Tail(toClient)
           /\ state' = "Identified" /\ m_obsConnected' = TRUE /\ m_obsAuthFailed' = FALSE
           /\ UNCHANGED <<password, link, toObs, welcome>>
        \/ /\ frame.op = "Response" /\ toClient' = Tail(toClient)
           /\ UNCHANGED <<client, link, toObs, welcome>>
  /\ UNCHANGED <<setting, obs, refused>>

(* The socket reports an error: it could not connect, or the link broke.      *)
OnSocketError ==
  /\ link # "none" /\ NewLink("none")
  /\ state' = "Disconnected" /\ m_obsConnected' = FALSE
  /\ UNCHANGED <<setting, password, m_obsAuthFailed, obs, refused>>

(* The user saves a password; the action reads it when it next connects.      *)
ChangeSettings ==
  /\ setting' \in Secrets \ {setting}
  /\ UNCHANGED <<client, wire, obs, refused>>
-----------------------------------------------------------------------------
(* OBS accepts the socket, and says whether it demands a password.            *)
Accept ==
  /\ link = "opening" /\ obs # Down /\ link' = "up"
  /\ toClient' = <<[op |-> "Hello", auth |-> obs # NoPassword]>>
  /\ UNCHANGED <<setting, client, toObs, welcome, obs, refused>>

(* It reads a frame; what is not for it closes the link, cleanly.             *)
ObsReads ==
  /\ link = "up" /\ toObs # <<>> /\ obs # Down
  /\ LET frame == Head(toObs)
         good == frame.op = "Identify" /\ welcome = "new" /\ (obs # NoPassword => frame.auth = obs)
         due == frame.op = "Request" /\ welcome = "identified"
     IN /\ good => /\ welcome' = "identified" /\ toClient' = Append(toClient, [op |-> "Identified", auth |-> FALSE])
                   /\ toObs' = Tail(toObs) /\ UNCHANGED <<link, refused>>
        /\ due => /\ toClient' = Append(toClient, [op |-> "Response", auth |-> FALSE])
                  /\ toObs' = Tail(toObs) /\ UNCHANGED <<link, welcome, refused>>
        /\ ~good /\ ~due => NewLink("none") /\ refused' = (refused \/ frame.op = "Request" \/ frame.auth = NoPassword)
  /\ UNCHANGED <<setting, client, obs>>

(* It quits, cleanly or not, or is started again with other settings.         *)
Quits(cleanly) ==
  /\ obs # Down /\ obs' = Down
  /\ cleanly /\ link = "up" => NewLink("none")
  /\ ~cleanly \/ link # "up" => UNCHANGED wire
  /\ UNCHANGED <<setting, client, refused>>
Starts ==
  /\ obs = Down /\ link # "up" /\ obs' \in Secrets
  /\ UNCHANGED <<setting, client, wire, refused>>

Next ==
  \/ Press \/ OnTextMessageReceived \/ OnSocketError \/ ChangeSettings
  \/ Accept \/ ObsReads \/ Quits(TRUE) \/ Quits(FALSE) \/ Starts
Spec == Init /\ [][Next]_vars
-----------------------------------------------------------------------------
TypeOK ==
  /\ setting \in Secrets /\ password \in Secrets /\ obs \in Secrets \cup {Down}
  /\ state \in {"Disconnected", "Connecting", "Identified"} /\ link \in {"none", "opening", "up"}
  /\ {m_obsConnected, m_obsAuthFailed, refused} \subseteq BOOLEAN
  /\ welcome \in {"new", "identified"} /\ Len(toObs) + Len(toClient) <= MaxFrames + 1

(* The action and the client agree whether they are connected; while the link *)
(* is up OBS has identified a client that says so; and OBS never sees a       *)
(* request it has not let in, nor an Identify without the password it asked   *)
(* for.                                                                       *)
HandshakeIsKept ==
  /\ m_obsConnected <=> state = "Identified"
  /\ state = "Identified" /\ link = "up" => welcome = "identified"
  /\ m_obsAuthFailed => ~m_obsConnected /\ link = "none"
  /\ ~refused
=============================================================================
