----------------------------- MODULE MCAppShell -----------------------------
(* Instances of AppShell for TLC. *)
EXTENDS AppShell

\* "q" quits from the menu and is a fine nickname; " " passes the field's own checks and
\* fails validate_nickname.
Chars == {"q", " "}
Pastes == {"/exit", "/leave"}
Names == {"q"}
=============================================================================
