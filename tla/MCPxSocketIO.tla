---------------------------- MODULE MCPxSocketIO ----------------------------
(***************************************************************************)
(* Protocols to check PxSocketIO with.  They are such as the examples and  *)
(* tests of the repository use: an echo server, a file server, an HTTP     *)
(* server, a talker that speaks first and never listens, a client.         *)
(***************************************************************************)
EXTENDS PxSocketIO

Proto(has, made, data, sent, faults) ==
    [has |-> has, made |-> made, data |-> data, sent |-> sent,
     faults |-> faults]

Echo == Proto({"data_received"}, {}, {"none", "one", "close", "one close",
              "raise"}, {}, {"reset", "accept", "other"})
Greeter == Proto({"data_received", "connection_made", "send_complete",
                  "client_created"},
                 {"none", "close", "raise"}, {"one", "none"},
                 {"none", "close", "raise"}, {"reset"})
Files == Proto({"data_received", "rate_limit"}, {},
               {"none", "file", "file close"}, {}, {"reset"})
Tuples == Proto({"data_received"}, {}, {"one", "many", "file"}, {}, {})
Pages == Proto({"data_received", "http11"}, {}, {"one", "many", "raise"},
               {}, {})
NoPages == Proto({"http11"}, {}, {}, {}, {"reset"})
Static == Proto({"next", "rate_limit"}, {}, {}, {}, {"accept"})
Computed == Proto({"next", "next callable"}, {}, {"raise"}, {}, {"reset"})
Talker == Proto({"initial", "initial callable", "send_complete"}, {"raise"},
                {}, {"none", "one", "one close", "raise"}, {"reset"})
Banner == Proto({"initial", "data_received", "send_complete"}, {},
                {"none", "file"}, {"none", "one"}, {"reset"})
Caller == Proto({"client", "resolve", "initial", "initial callable",
                 "data_received", "connection_made"},
                {"none", "file", "raise"}, {"one", "many", "close"}, {},
                {"accept", "disconnect"})
Dialler == Proto({"client", "data_received", "connection_made"}, {"none"},
                 {"none"}, {}, {"reset", "accept"})

SoundProtocols ==
    {Echo, Greeter, Files, Tuples, Pages, NoPages, Static, Computed, Talker,
     Banner, Caller, Dialler}
ASSUME CarefulAssumption == \A p \in SoundProtocols : Careful(p)

(* README.md, the first example: a greeting from connection_made().        *)
Hello == {Proto({"connection_made", "data_received"}, {"one"}, {"none"}, {},
                {})}
Parting == {Proto({"connection_made", "data_received"}, {"one close"},
                  {"none"}, {}, {})}

(* A greeting, then answers.                                               *)
Greeting == {Proto({"initial", "data_received"}, {}, {"one"}, {}, {})}

(* What a peer can do to an HTTP server, and to static next_bytes_to_send  *)
PagesReset == {Proto({"data_received", "http11"}, {}, {"one", "raise"}, {},
                     {"reset"})}
StaticReset == {Proto({"next"}, {}, {}, {}, {"reset"})}

(* An attribute set in client_created(); an exception_handler(); initial   *)
(* bytes and connection_made(); an error of DisconnectEx()                 *)
Keepers == {Proto({"data_received", "client_created", "keeps"}, {}, {"none"},
                  {}, {})}
Handlers == {Proto({"data_received", "send_complete", "exception_handler"},
                   {}, {"one"}, {"raise"}, {})}
Unmade == {Proto({"initial", "data_received", "connection_made"}, {"none"},
                 {"none"}, {}, {})}
Disconnected == {Proto({"data_received"}, {}, {"close"}, {}, {"disconnect"})}
=============================================================================
