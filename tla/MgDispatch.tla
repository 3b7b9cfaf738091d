----------------------------- MODULE MgDispatch -----------------------------
(***************************************************************************)
(* handle_request (server/mongoose.c): which of the server's answers a     *)
(* request gets, and the client that follows its redirects.  The URI is    *)
(* decoded and cleaned in place, in the buffer of the request, but its     *)
(* length is taken before.                                                 *)
(***************************************************************************)
EXTENDS MgUris

CONSTANTS
  Uris,         \* of the first request
  Methods,
  Settings,     \* of the options
  Verdicts,     \* of the users' passwords, the callback, the dates of the client's copy
  Tree,         \* what is under the root: paths, without a slash at the end, to kinds
  Hidden,       \* paths that must_hide_file hides
  Index,        \* INDEX_FILES
  PathMax       \* room in path

Kinds == {"file", "dir", "cgi", "ssi"}

MgDispatchAssumption ==
  /\ Settings \subseteq [ssl_redir : BOOLEAN, document_root : BOOLEAN,
                          put_passwords : BOOLEAN, listing : BOOLEAN]
  /\ Verdicts \subseteq [authorized : BOOLEAN, put_authorized : BOOLEAN,
                          callback : BOOLEAN, websocket : BOOLEAN, not_modified : BOOLEAN]
  /\ \A p \in DOMAIN Tree : Tree[p] \in Kinds
  /\ \A u \in Uris : u \in Seq(Nat) /\ u # <<>> /\ Head(u) = Slash
  /\ PathMax \in Nat /\ \A u \in Uris : Len(u) + 2 < PathMax

VARIABLES conf, says,          \* one of Settings, one of Verdicts
          method, uri, asked,  \* of the request, and the URI the client began with
          path, last,  \* of the file, and the character the code takes for the URI's last
          pc,       \* "ask", "decide", "answered"
          answer
vars == <<conf, says, method, uri, asked, path, last, pc, answer>>

Init == /\ conf \in Settings /\ says \in Verdicts
        /\ method \in Methods /\ asked \in Uris /\ uri = asked
        /\ path = <<>> /\ last = 0 /\ pc = "ask" /\ answer = "none"

-----------------------------------------------------------------------------
(* The file of a URI.                                                      *)

Cleaned(u) == RemoveDoubleDots(Decoded(u, FALSE))

\* without slashes at the end
Bare(p) ==
  SubSeq(p, 1, CHOOSE n \in 0 .. Len(p) : /\ \A i \in n + 1 .. Len(p) : p[i] = Slash
                                          /\ n = 0 \/ p[n] # Slash)

\* mg_stat: a path that ends with a slash is that of a directory
Exists(p) == Bare(p) \in DOMAIN Tree /\ (p # Bare(p) => Tree[Bare(p)] = "dir")
IsDirectory(p) == Exists(p) /\ Tree[Bare(p)] = "dir"

\* convert_uri_to_file_name, without rewrites and packed files: a path that does not
\* exist may be that of a program with PATH_INFO behind it.
FileOf(p) ==
  LET programs == {i \in Positions(p, {Slash}) : i > 2 /\ SubSeq(p, 1, i - 1) \in DOMAIN Tree
                                                 /\ Tree[SubSeq(p, 1, i - 1)] = "cgi"} IN
  IF Exists(p) \/ programs = {} THEN p
  ELSE SubSeq(p, 1, (CHOOSE i \in programs : \A j \in programs : j <= i) - 1)

\* substitute_index_file: the first of the list that fits and exists, or none
IndexFile(p) ==
  LET at == {i \in DOMAIN Index : /\ Len(Index[i]) <= PathMax - (Len(Bare(p)) + 2)
                                  /\ Exists(Bare(p) \o <<Slash>> \o Index[i])} IN
  IF at = {} THEN {} ELSE {Bare(p) \o <<Slash>> \o Index[First(at)]}

\* uri[uri_len - 1]: what is at this place of the buffer after both have been at it
LastByte(u, decoded, cleaned) ==
  LET n == Len(u) IN
  IF n <= Len(cleaned) THEN cleaned[n]
  ELSE IF n = Len(cleaned) + 1 \/ n = Len(decoded) + 1 THEN 0
  ELSE IF n <= Len(decoded) THEN decoded[n]
  ELSE u[n]

-----------------------------------------------------------------------------
PutOrDelete == method \in {"PUT", "DELETE"}

\* The branches, of which the first that applies is taken.
Branches ==
  LET index == IF IsDirectory(path) THEN IndexFile(path) ELSE {}
      kind  == IF ~ Exists(path) THEN "none"
               ELSE Tree[IF index # {} THEN CHOOSE i \in index : TRUE ELSE Bare(path)] IN
  << <<conf.ssl_redir, "https">>,
     <<~ PutOrDelete /\ ~ says.authorized, "401">>,
     <<says.callback, "callback">>,
     <<says.websocket, "websocket">>,
     <<method = "OPTIONS", "options">>,
     <<~ conf.document_root, "404">>,
     <<PutOrDelete /\ (~ conf.put_passwords \/ ~ says.put_authorized), "401">>,
     <<method = "PUT", "put">>,
     <<method = "DELETE", "delete">>,
     <<~ Exists(path) \/ path \in Hidden, "404">>,
     <<IsDirectory(path) /\ last # Slash, "301">>,
     <<method = "PROPFIND", "propfind">>,
     <<IsDirectory(path) /\ index = {}, IF conf.listing THEN "listing" ELSE "403">>,
     <<kind = "cgi" /\ method \notin {"POST", "HEAD", "GET"}, "501">>,
     <<kind = "cgi", IF index = {} THEN "cgi" ELSE "index">>,
     <<kind = "ssi", IF index = {} THEN "ssi" ELSE "index">>,
     <<says.not_modified, "304">>,
     <<TRUE, IF index = {} THEN "file" ELSE "index">> >>

Decision(branches) == branches[First({i \in DOMAIN branches : branches[i][1]})][2]

Location(u) == Append(Cleaned(u), Slash)

\* The URI is taken to a file.
Receive ==
  /\ pc = "ask" /\ pc' = "decide"
  /\ \E decoded \in {Decoded(uri, FALSE)} : \E cleaned \in {RemoveDoubleDots(decoded)} :
       path' = FileOf(cleaned) /\ last' = LastByte(uri, decoded, cleaned)
  /\ UNCHANGED <<conf, says, method, uri, asked, answer>>

\* The request is answered, or the client asks for the Location it is told; what was
\* asked for is still in uri.
Decide ==
  /\ pc = "decide"
  /\ \E branches \in {Branches} : answer' = Decision(branches)
  /\ IF answer' = "301" THEN uri' = Location(uri) /\ pc' = "ask"
     ELSE pc' = "answered" /\ UNCHANGED uri
  /\ UNCHANGED <<conf, says, method, asked, path, last>>

Next == Receive \/ Decide

\* handle_request returns, and the client goes on.
Spec == Init /\ [][Next]_vars /\ WF_vars(Next)

-----------------------------------------------------------------------------
(* Properties.                                                             *)

\* The list of a directory and its index file are sent under a URI that ends with a
\* slash, which their relative links need, although decoding and cleaning have moved
\* the characters the test looks at (mongoose.c:4223-4268).
LinksResolve == answer \in {"listing", "index"} => uri[Len(uri)] = Slash

=============================================================================
