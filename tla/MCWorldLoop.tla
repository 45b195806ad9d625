----------------------------- MODULE MCWorldLoop ----------------------------
(***************************************************************************)
(* WorldLoop with small scenarios: packets without consoles, consoles      *)
(* without packets, and a stop in the middle of a connection or a login.   *)
(***************************************************************************)
EXTENDS WorldLoop

Cmd(t, kind, time, lines) == [from |-> t, kind |-> kind, time |-> time, lines |-> lines]

Quiet ==
    [screens |-> {}, packets |-> 0, opcodes |-> {},
     commands |-> [t \in Terminals |-> {}], given |-> [t \in Terminals |-> 0], signals |-> {}]

(* A client logs in and plays, or logs out and in again. *)
Logins ==
    [Quiet EXCEPT !.screens = {"characters", "game"}, !.packets = 3,
                  !.opcodes = {"CHAR_ENUM", "PLAYER_LOGIN", "GUILD_QUERY", "MOVE", "LOGOUT_REQUEST"}]

(* A client in the game changes map, starts to log out and changes its mind. *)
Play ==
    [Quiet EXCEPT !.screens = {"game"}, !.packets = 2, !.opcodes = DOMAIN Opcodes \ {"PLAYER_LOGIN"}]

(* A client sends packets for the game before its login is complete, and the *)
(* server may be stopped meanwhile.                                          *)
StopInLogin ==
    [Quiet EXCEPT !.screens = {"characters"}, !.packets = 4,
                  !.opcodes = {"PLAYER_LOGIN", "MOVE"}, !.signals = {"SHUTDOWN"}]

(* A client connects, and the server may be stopped meanwhile. *)
Connect ==
    [Quiet EXCEPT !.screens = {"connecting"}, !.packets = 2,
                  !.opcodes = {"CHAR_ENUM", "PLAYER_LOGIN", "WARDEN_DATA"}, !.signals = {"SHUTDOWN"}]

(* Shutdowns on the command line, now or later, idle or not, and cancelled. *)
Shutdowns ==
    [Quiet EXCEPT !.screens = {"game"},
                  !.commands["cli"] = {Cmd("cli", k, t, 0) : k \in {"shutdown", "idle"}, t \in {0, 2}}
                                      \cup {Cmd("cli", "restart", 1, 0), Cmd("cli", "cancel", 0, 0)},
                  !.given["cli"] = 2]

(* Remote access with short and long output beside a SOAP request. *)
Remote ==
    [Quiet EXCEPT !.screens = {"characters"},
                  !.commands["ra"] = {Cmd("ra", "info", 0, 2), Cmd("ra", "exit", 0, 0)},
                  !.commands["soap"] = {Cmd("soap", "info", 0, 1)},
                  !.given["ra"] = 2, !.given["soap"] = 1, !.signals = {"RESTART"}]

MCScenarios == {Logins, Play, StopInLogin, Connect, Shutdowns, Remote}
=============================================================================
