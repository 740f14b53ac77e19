--------------------------- MODULE MCCredentials ---------------------------
(* Two logins, a removal of the ChatGPT login and a new OpenCode key.      *)
EXTENDS Credentials

KindOf(r) == IF r = "key" THEN "opencode" ELSE "openai"
SetsIt(r) == r # "remove"
=============================================================================
