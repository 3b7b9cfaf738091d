------------------------------ MODULE MgStart ------------------------------
(***************************************************************************)
(* mg_start and what undoes it (server/mongoose.c): the options, and the   *)
(* five set_..._option steps, each of which may fail with the earlier ones *)
(* done.  Threads that run between mg_start and mg_stop are MgPool's.      *)
(***************************************************************************)
EXTENDS Integers, Sequences, FiniteSets

CONSTANTS
  PortLists,  \* values of listening_ports: sequences of specifications
  AclLists,   \* values of access_control_list: sequences of entries
  Bits,       \* 32: of an address
  Ports,      \* 65536: port numbers
  MaxOptions  \* bound: options given

Default == <<[ip |-> FALSE, port |-> 1, tail |-> "none"]>>  \* "8080"

\* A specification is [ip_address:]port and a letter after it.
Specs == [ip : BOOLEAN, port : Int, tail : {"none", "s", "r", "x"}]

\* 2 ^ n: how many addresses are the same but for their last n bits
Alike[n \in 0 .. Bits] == IF n = 0 THEN 1 ELSE 2 * Alike[n - 1]
Addresses == 0 .. Alike[Bits] - 1

\* An entry is a sign, an address and the bits of it that count.
Entries == [flag : {"+", "-", "x"}, net : Addresses, slash : 0 .. Bits]
Block(e) == Alike[Bits - e.slash]

MgStartAssumption ==
  /\ Bits \in Nat /\ Ports \in Nat \ {0, 1} /\ MaxOptions \in Nat
  /\ \A l \in PortLists : l \in Seq(Specs)
  /\ \A l \in AclLists : l \in Seq(Entries) /\ l # <<>>

Flags == {"ssl_certificate", "run_as_user", "global_auth_file"}
Options == Flags \union {"listening_ports", "access_control_list"}

VARIABLES pc,         \* the step that mg_start is at, or how it ended
          config,     \* ctx->config; <<>> is NULL
          given,      \* options given so far
          list,       \* listening_ports that set_ports_option has yet to read
          listening,  \* ctx->listening_sockets
          fds,        \* sockets that are open
          heap,       \* what is allocated; the string of an option under its name
          callbacks,  \* OpenSSL calls back with the locks
          uid,        \* run_as_user has been changed to
          failed      \* the step that failed
vars == <<pc, config, given, list, listening, fds, heap, callbacks, uid, failed>>

Init == /\ pc = "calloc" /\ config = [o \in Options |-> <<>>]
        /\ given = 0 /\ list = <<>> /\ listening = <<>>
        /\ fds = {} /\ heap = {} /\ callbacks = FALSE /\ uid = FALSE /\ failed = "none"

-----------------------------------------------------------------------------
(* Conversions.                                                            *)

\* With an address, neither the port nor what follows it is looked at.
ValidSpec(s) == s.ip \/ (s.port \in 1 .. Ports - 1 /\ s.tail # "x")

\* parse_port_string, and the uint16_t of the port
ParsePortString(s) == [is_ssl |-> s.tail = "s", port |-> s.port % Ports]

Matches(e, ip) == e.net = ip - (ip % Block(e))

\* check_acl: from a default of no, if there is a list, to what each match says; <<>> is
\* no list, and an empty one is not among the values.
CheckAcl(l, ip) ==
  LET allowed[i \in 0 .. Len(l)] ==
        IF i = 0 THEN IF l = <<>> THEN "+" ELSE "-"
        ELSE IF Matches(l[i], ip) THEN l[i].flag ELSE allowed[i - 1] IN
  IF \E i \in DOMAIN l : l[i].flag = "x" THEN -1
  ELSE IF allowed[Len(l)] = "+" THEN 1 ELSE 0

-----------------------------------------------------------------------------
(* mg_start.                                                               *)

Fail == /\ pc' = "free" /\ failed' = pc
Goto(step) == pc' = step /\ UNCHANGED failed

Calloc ==
  /\ pc = "calloc"
  /\ \/ pc' = "options" /\ heap' = {"ctx"} /\ UNCHANGED failed
     \/ pc' = "null" /\ failed' = pc /\ UNCHANGED heap
  /\ UNCHANGED <<config, given, list, listening, fds, callbacks, uid>>

Values(o) == CASE o = "listening_ports" -> PortLists
               [] o = "access_control_list" -> AclLists
               [] OTHER -> {<<"value">>}

\* An option that is given twice is freed and taken again.
TakeOption ==
  /\ pc = "options" /\ given < MaxOptions
  /\ \E o \in Options : \E v \in Values(o) :
       /\ config' = [config EXCEPT ![o] = v]
       /\ heap' = heap \union {o}
  /\ given' = given + 1
  /\ UNCHANGED <<pc, list, listening, fds, callbacks, uid, failed>>

\* an unknown name, or one without a value
BadOption ==
  /\ pc = "options" /\ Fail
  /\ UNCHANGED <<config, given, list, listening, fds, heap, callbacks, uid>>

SetDefaults ==
  /\ pc = "options"
  /\ config' = IF config["listening_ports"] # <<>> THEN config
               ELSE [config EXCEPT !["listening_ports"] = Default]
  /\ heap' = heap \union {"listening_ports"}
  /\ Goto("set_gpass_option")
  /\ UNCHANGED <<given, list, listening, fds, callbacks, uid>>

\* the file may not be there
SetGpassOption ==
  /\ pc = "set_gpass_option"
  /\ Goto("set_ssl_option") \/ (config["global_auth_file"] # <<>> /\ Fail)
  /\ UNCHANGED <<config, given, list, listening, fds, heap, callbacks, uid>>

EnterPorts == Goto("set_ports_option") /\ list' = config["listening_ports"]

\* The libraries are loaded, the context made, the certificate read, the locks made.
SetSslOption ==
  /\ pc = "set_ssl_option"
  /\ IF config["ssl_certificate"] = <<>> THEN EnterPorts /\ UNCHANGED <<heap, callbacks>>
     ELSE \/ /\ EnterPorts /\ callbacks' = TRUE
             /\ heap' = heap \union {"ssl_ctx", "ssl_mutexes"}
          \/ /\ Fail /\ heap' \in {heap, heap \union {"ssl_ctx"}}
             /\ UNCHANGED <<callbacks, list>>
  /\ UNCHANGED <<config, given, listening, fds, uid>>

\* A wrong specification, or ssl without ssl_certificate, or socket, setsockopt, bind,
\* listen or realloc that fails: so.sock is closed, and all earlier sockets.
SetPortFails ==
  /\ pc = "set_ports_option" /\ list # <<>>
  /\ fds' = fds \ {listening[i].sock : i \in DOMAIN listening}
  /\ heap' = heap \ {"listening_sockets"} /\ Fail
  /\ UNCHANGED <<config, given, list, listening, callbacks, uid>>

SetPort ==
  /\ pc = "set_ports_option" /\ list # <<>>
  /\ ValidSpec(Head(list))
  /\ LET so == ParsePortString(Head(list))  sock == Cardinality(fds) + 1 IN
     /\ so.is_ssl => "ssl_ctx" \in heap
     /\ fds' = fds \union {sock}
     /\ listening' = Append(listening, [sock |-> sock, is_ssl |-> so.is_ssl, port |-> so.port])
  /\ heap' = heap \union {"listening_sockets"}
  /\ list' = Tail(list)
  /\ UNCHANGED <<pc, config, given, callbacks, uid, failed>>

PortsSet ==
  /\ pc = "set_ports_option" /\ list = <<>> /\ Goto("set_uid_option")
  /\ UNCHANGED <<config, given, list, listening, fds, heap, callbacks, uid>>

\* an unknown user, or no right to become it
SetUidOption ==
  /\ pc = "set_uid_option"
  /\ \/ Goto("set_acl_option") /\ uid' = (config["run_as_user"] # <<>>)
     \/ config["run_as_user"] # <<>> /\ Fail /\ UNCHANGED uid
  /\ UNCHANGED <<config, given, list, listening, fds, heap, callbacks>>

\* The list is read for 127.0.0.1, to see if it can be.
SetAclOption ==
  /\ pc = "set_acl_option"
  /\ IF CheckAcl(config["access_control_list"], 0) = -1 THEN Fail ELSE Goto("running")
  /\ UNCHANGED <<config, given, list, listening, fds, heap, callbacks, uid>>

\* what free_context frees
Freed == Options \union {"ssl_ctx", "ssl_mutexes", "ctx"}

FreeContext ==
  /\ pc = "free" /\ pc' = "null"
  /\ config' = [o \in Options |-> <<>>] /\ heap' = heap \ Freed
  /\ UNCHANGED <<given, list, listening, fds, callbacks, uid, failed>>

\* master_thread closes the sockets and calls uninitialize_ssl, mg_stop free_context.
MgStop ==
  /\ pc = "running" /\ pc' = "stopped"
  /\ fds' = fds \ {listening[i].sock : i \in DOMAIN listening}
  /\ callbacks' = FALSE /\ heap' = heap \ (Freed \union {"listening_sockets"})
  /\ config' = [o \in Options |-> <<>>]
  /\ UNCHANGED <<given, list, listening, uid, failed>>

Next == \/ Calloc \/ TakeOption \/ BadOption \/ SetDefaults \/ SetGpassOption
        \/ SetSslOption \/ SetPortFails \/ SetPort \/ PortsSet \/ SetUidOption
        \/ SetAclOption \/ FreeContext \/ MgStop
Spec == Init /\ [][Next]_vars

-----------------------------------------------------------------------------
(* Properties.                                                             *)

\* When mg_start returns NULL everything it made is undone, but for the sockets, if
\* what failed came after them: free_context does not know of them
\* (mongoose.c:5173-5184, 5086-5108, 4399-4401).
FailureUndoes ==
  pc = "null" =>
    IF failed \in {"set_uid_option", "set_acl_option"}
      THEN heap = {"listening_sockets"} /\ fds = {listening[i].sock : i \in DOMAIN listening}
      ELSE heap = {} /\ fds = {}

\* mg_stop leaves nothing behind, whatever was configured (mongoose.c:5068-5121).
StopUndoes == pc = "stopped" => heap = {} /\ fds = {} /\ ~ callbacks

\* A running server listens on one socket for each specification, in their order; on
\* the port that it says, if it is without an address; and with ssl only if there is a
\* certificate (mongoose.c:4319-4404).
ListensAsTold ==
  LET specs == config["listening_ports"] IN
  pc = "running" =>
    /\ Len(listening) = Len(specs) /\ Cardinality(fds) = Len(specs)
    /\ \A i \in DOMAIN specs :
         /\ specs[i].ip \/ listening[i].port = specs[i].port
         /\ listening[i].is_ssl => specs[i].tail = "s" /\ "ssl_ctx" \in heap /\ callbacks

\* The last entry that an address belongs to decides; where there is none, a list
\* denies and no list allows (mongoose.c:4451-4474).
LastMatchDecides ==
  LET l == config["access_control_list"] IN
  pc = "running" => \A ip \in Addresses :
    LET hits == {i \in DOMAIN l : /\ l[i].net \div Block(l[i]) = ip \div Block(l[i])
                                  /\ l[i].net % Block(l[i]) = 0} IN
    CheckAcl(l, ip) =
      IF hits = {} THEN IF l = <<>> THEN 1 ELSE 0
      ELSE IF l[CHOOSE i \in hits : \A j \in hits : j <= i].flag = "+" THEN 1 ELSE 0

=============================================================================
