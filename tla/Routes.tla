------------------------------- MODULE Routes -------------------------------
(***************************************************************************)
(* The way of a name from the command line to a handler: the client loads  *)
(* its configuration, writes the name into a URL, the HTTP stack cuts the  *)
(* URL, the router takes it apart again, and the handler and the audit     *)
(* record each get what they take for the name.  Names also arrive in JSON *)
(* bodies, which need no URL, and have to be usable in URLs later.         *)
(*                                                                         *)
(* Every request carries an admin token: who may do what is module Access. *)
(* A name is a sequence of pieces; a piece is a byte, an encoded byte      *)
(* ("%2F"), or a word that the routes also use ("secrets").                *)
(***************************************************************************)
EXTENDS Naturals, Sequences, SequencesExt, FiniteSets

CONSTANTS Names,       \* the names that users type: sequences of pieces
          Urls,        \* the server URLs that may be configured
          MaxProject,  \* 64 in valid_project and truncate_for_log
          MaxKey,      \* 128 in valid_key
          MaxStored,   \* bound: secrets stored
          MaxNames,    \* bound: projects and token names together
          None, Empty, Broken, Failed   \* markers, see load

\* A byte, an encoded byte, or a word.
Pieces == {"a", "b", "-", ".", "v1", "projects", "secrets", "tokens",
           "/", "?", "#", " ", "%61", "%2F"}

ASSUME RoutesAssumption ==
  /\ MaxProject \in Nat \ {0} /\ MaxKey \in Nat \ {0} /\ MaxStored \in Nat /\ MaxNames \in Nat
  /\ None \notin Names /\ \A name \in Names : name \in Seq(Pieces)
  /\ None \notin {"projects", "secrets", "secret", "tokens", "token"}
  /\ \A u \in Urls : u \in [scheme : {"https", "http", "other"},
                            host : {"loopback", "localhost", "remote"},
                            extra : {"none", "userinfo", "query", "fragment"},
                            path : Seq(Pieces \ {"?", "#"}), slashes : Nat]
  /\ \A u \in Urls : u.path # <<>> => u.path[1] = "/" /\ Last(u.path) # "/"

VARIABLES config,    \* the running client's server_url: None, Failed or a URL
          projects,  \* the names of the projects
          stored,    \* the <<project, key>> pairs that have a value
          tokens,    \* the names of active tokens
          last       \* history: the last request and its answer

vars == <<config, projects, stored, tokens, last>>

Init == /\ config = None /\ projects = {} /\ stored = {} /\ tokens = {}
        /\ last = None

-----------------------------------------------------------------------------
(***************************************************************************)
(* Client configuration                                                    *)
(***************************************************************************)
is_loopback_host(u) == u.host \in {"loopback", "localhost"}

validate_server_url(u) ==
  /\ u.scheme = "https" \/ (u.scheme = "http" /\ is_loopback_host(u))
  /\ u.extra = "none"

\* A variable counts when it is set and not empty, else the file's value does.
Or(var, file) == IF var \in {None, Empty} THEN file ELSE var

\* Mutant: one trailing slash is cut off.
trim_end_One(u) == [u EXCEPT !.slashes = IF @ = 0 THEN 0 ELSE @ - 1]

trim_end(u) == [u EXCEPT !.slashes = 0]

\* Mutant: the URL of the file is validated, SECRETS_SERVER_URL is not.
load_EnvUnchecked(envUrl, fileUrl, envToken, fileToken) ==
  LET url == Or(envUrl, fileUrl) token == Or(envToken, fileToken)
  IN  IF fileUrl = Broken \/ url = None \/ token = None
         \/ (url = fileUrl /\ ~validate_server_url(url))
        THEN Failed ELSE trim_end(url)

\* A file that cannot be read or parsed is an error whatever the variables say:
\* fileUrl = Broken.
load(envUrl, fileUrl, envToken, fileToken) ==
  LET url == Or(envUrl, fileUrl) token == Or(envToken, fileToken)
  IN  IF fileUrl = Broken \/ url = None \/ token = None
         \/ ~validate_server_url(url)
        THEN Failed ELSE trim_end(url)

\* A command starts.
Load ==
  /\ config = None
  /\ \E envUrl \in Urls \cup {None, Empty},
        fileUrl \in Urls \cup {None, Broken},
        envToken \in {None, Empty, "variable"}, fileToken \in {None, "file"} :
       config' = load(envUrl, fileUrl, envToken, fileToken)
  /\ last' = None
  /\ UNCHANGED <<projects, stored, tokens>>

-----------------------------------------------------------------------------
(***************************************************************************)
(* From a URL to a route                                                   *)
(***************************************************************************)
Letters == {"a", "b", "-", "v1", "projects", "secrets", "tokens"}

\* percent-decoding, done by axum's Path extractor
Decode(name) == [i \in DOMAIN name |-> CASE name[i] = "%61" -> "a"
                                         [] name[i] = "%2F" -> "/"
                                         [] OTHER -> name[i]]

\* The URLs after the host, which start with the path of the base URL, if it has
\* one, and with the slashes that were left at its end:
\* format!("{}/v1/projects/{}/secrets", base, project) and the other two.
url // segment == url \o <<"/">> \o segment
Start(base) == base.path \o [i \in 1..base.slashes |-> "/"]
SecretsUrl(base, project) ==
  (((Start(base) // <<"v1">>) // <<"projects">>) // project) // <<"secrets">>
SecretUrl(base, project, key) == SecretsUrl(base, project) // key
TokenUrl(base, name) == ((Start(base) // <<"v1">>) // <<"tokens">>) // name

\* http::Uri refuses a space and ends the path at a query or a fragment.
BadUri(url) == Contains(url, " ")
PathOf(url) ==
  LET cuts == {i \in DOMAIN url : url[i] \in {"?", "#"}}
  IN  IF cuts = {} THEN url
      ELSE SubSeq(url, 1, (CHOOSE i \in cuts : \A j \in cuts : i <= j) - 1)

\* path.split('/'): what is before, between and after the slashes.  Cut(path, k)
\* is the place of the k-th slash.
SlashesIn(path) == {i \in DOMAIN path : path[i] = "/"}
Rank(path, i) == Cardinality({j \in SlashesIn(path) : j <= i})
Cut(path, k) ==
  IF k = 0 THEN 0
  ELSE IF k > Cardinality(SlashesIn(path)) THEN Len(path) + 1
  ELSE CHOOSE i \in {j \in SlashesIn(path) : Rank(path, j) = k} : TRUE
Split(path) == [k \in 1..(Cardinality(SlashesIn(path)) + 1) |->
                  SubSeq(path, Cut(path, k - 1) + 1, Cut(path, k) - 1)]

Templates == [projects |-> <<"v1", "projects">>,
              secrets |-> <<"v1", "projects", "{name}", "secrets">>,
              secret |-> <<"v1", "projects", "{name}", "secrets", "{key}">>,
              tokens |-> <<"v1", "tokens">>,
              token |-> <<"v1", "tokens", "{name}">>]
Params == {"{name}", "{key}"}

\* A parameter takes one segment that is not empty, a literal only itself.
Matches(t, segs) ==
  /\ Len(segs) = Len(t) + 1 /\ segs[1] = <<>>
  /\ \A i \in DOMAIN t : IF t[i] \in Params THEN segs[i + 1] # <<>>
                                            ELSE segs[i + 1] = <<t[i]>>

\* The matched route, None if there is none.
Route(segs) ==
  LET found == {t \in DOMAIN Templates : Matches(Templates[t], segs)}
  IN  IF found = {} THEN None ELSE CHOOSE t \in found : TRUE

\* router(): the methods of each route that the clients below use.
Methods == [projects |-> {"POST"}, secrets |-> {"GET"},
            secret |-> {"PUT", "DELETE"}, tokens |-> {"POST"},
            token |-> {"DELETE"}]

\* truncate_for_log, with a byte for every piece.
Truncated(s) ==
  SubSeq(s, 1, IF Len(s) < MaxProject THEN Len(s) ELSE MaxProject)

\* The project that audit_middleware records: the segment as it was sent.
Logged(segs) == IF Route(segs) \in {"secrets", "secret"}
                  THEN Truncated(segs[4]) ELSE None

-----------------------------------------------------------------------------
(***************************************************************************)
(* Handlers                                                                *)
(***************************************************************************)
\* Mutant: the empty name passes.
valid_project_Empty(name) ==
  Len(name) <= MaxProject /\ \A i \in DOMAIN name : name[i] \in Letters

valid_project(name) ==
  /\ name # <<>> /\ Len(name) <= MaxProject
  /\ \A i \in DOMAIN name : name[i] \in Letters

valid_key(key) ==
  /\ key # <<>> /\ Len(key) <= MaxKey
  /\ \A i \in DOMAIN key : key[i] \in Letters \cup {"."}

Answer(status) == [status |-> status, project |-> None, key |-> None]

get_secrets(name) ==
  IF ~valid_project(name) THEN Answer(400)
  ELSE IF name \notin projects THEN Answer(404)
  ELSE [status |-> 200, project |-> name, key |-> None]

\* put_secret, and delete_secret up to the row it deletes.
WithKey(name, key) ==
  IF ~valid_project(name) \/ ~valid_key(key) THEN Answer(400)
  ELSE IF name \notin projects THEN Answer(404)
  ELSE [status |-> 200, project |-> name, key |-> key]

revoke_token(name) ==
  IF valid_project(name) THEN [status |-> 200, project |-> None, key |-> name]
                         ELSE Answer(400)

\* What a request gets: its status, its route, the project and
\* the key (or token) that its handler acts on, the project in its record.
Serve(method, url) ==
  LET segs == Split(PathOf(url))
      route == Route(segs)
      arg(i) == Decode(segs[i])
      answer == IF BadUri(url) THEN Answer(0)      \* Error::Transport
                ELSE IF route = None THEN Answer(404)
                ELSE IF method \notin Methods[route] THEN Answer(405)
                ELSE CASE route = "secrets" -> get_secrets(arg(4))
                       [] route = "secret" -> WithKey(arg(4), arg(6))
                       [] route = "token" -> revoke_token(arg(4))
  IN  [status |-> answer.status, route |-> route,
       project |-> answer.project, key |-> answer.key,
       logged |-> IF BadUri(url) THEN None ELSE Logged(segs)]

Base == config

-----------------------------------------------------------------------------
(***************************************************************************)
(* Commands                                                                *)
(***************************************************************************)
Loaded == config \notin {None, Failed}

\* A request of the running client and its answer r.
Asked(op, project, key, r) ==
  [op |-> op, asked |-> project, askedKey |-> key, url |-> Base,
   status |-> r.status, route |-> r.route, project |-> r.project, key |-> r.key,
   logged |-> r.logged]

\* "secrets get", "list", "export" and "run" fetch a project.
fetch_secrets(project) ==
  /\ Loaded
  /\ last' = Asked("secrets", project, None,
                   Serve("GET", SecretsUrl(Base, project)))
  /\ config' = None
  /\ UNCHANGED <<projects, stored, tokens>>

set_secret(project, key) ==
  LET r == Serve("PUT", SecretUrl(Base, project, key))
  IN  /\ Loaded
      /\ stored' = IF r.status = 200 THEN stored \cup {<<r.project, r.key>>}
                   ELSE stored
      /\ Cardinality(stored') <= MaxStored
      /\ last' = Asked("secret", project, key, r)
      /\ config' = None
      /\ UNCHANGED <<projects, tokens>>

\* Other clients also delete.
delete_secret(project, key) ==
  LET r == Serve("DELETE", SecretUrl(Base, project, key))
      missing == r.status = 200 /\ <<r.project, r.key>> \notin stored
  IN  /\ Loaded
      /\ stored' = stored \ {<<r.project, r.key>>}
      /\ last' = Asked("secret", project, key,
                       [r EXCEPT !.status = IF missing THEN 404 ELSE @])
      /\ config' = None
      /\ UNCHANGED <<projects, tokens>>

token_revoke(name) ==
  LET r == Serve("DELETE", TokenUrl(Base, name))
  IN  /\ Loaded
      /\ tokens' = tokens \ (IF r.status = 200 THEN {r.key} ELSE {})
      /\ last' = Asked("token", None, name, r)
      /\ config' = None
      /\ UNCHANGED <<projects, stored>>

\* The name is in the body.
create_project(name) ==
  /\ Loaded
  /\ projects' = projects \cup (IF valid_project(name) THEN {name} ELSE {})
  /\ Cardinality(projects') + Cardinality(tokens) <= MaxNames
  /\ last' = None
  /\ config' = None
  /\ UNCHANGED <<stored, tokens>>

create_token(name) ==
  /\ Loaded
  /\ tokens' = tokens \cup (IF valid_project(name) THEN {name} ELSE {})
  /\ Cardinality(projects) + Cardinality(tokens') <= MaxNames
  /\ last' = None
  /\ config' = None
  /\ UNCHANGED <<projects, stored>>

\* The command ends with the error of load.
Fail ==
  /\ config = Failed
  /\ config' = None
  /\ UNCHANGED <<projects, stored, tokens, last>>

Next ==
  \/ Load \/ Fail
  \/ \E name \in Names :
       \/ fetch_secrets(name) \/ create_project(name)
       \/ token_revoke(name) \/ create_token(name)
       \/ \E key \in Names : set_secret(name, key) \/ delete_secret(name, key)

Spec == Init /\ [][Next]_vars

-----------------------------------------------------------------------------
(***************************************************************************)
(* What the client makes of a project's keys                               *)
(***************************************************************************)
\* Mutant: the client's rule has no dot.
valid_secret_key_NoDot(key) ==
  /\ key # <<>> /\ Len(key) <= MaxKey
  /\ \A i \in DOMAIN key : key[i] \in Letters

valid_secret_key(key) ==
  /\ key # <<>> /\ Len(key) <= MaxKey
  /\ \A i \in DOMAIN key : key[i] \in Letters \cup {"."}

KeysOf(project) == {pk[2] : pk \in {x \in stored : x[1] = project}}

\* One invalid key fails the whole project: Error::UnexpectedResponse.
secret_map_from_plain(keys) ==
  IF \A k \in keys : valid_secret_key(k) THEN keys ELSE Failed

-----------------------------------------------------------------------------
(***************************************************************************)
(* Properties                                                              *)
(***************************************************************************)

\* Wherever the URL came from, a request and its token go to an https server or
\* to the same host (validate_server_url, after the precedence in load).
TokenStaysSafe ==
  last # None =>
    last.url.scheme = "https" \/ is_loopback_host(last.url)

\* The request names only valid projects, keys and tokens.
Named(r) ==
  /\ r.asked # None => valid_project(r.asked)
  /\ r.askedKey # None => IF r.op = "token" THEN valid_project(r.askedKey)
                                            ELSE valid_key(r.askedKey)

\* The project in a record is the raw segment, the handler's the decoded one: they
\* are the same, or the record shows an escape.
RecordTells(r) ==
  r.project # None =>
    r.logged = r.project \/ \E i \in DOMAIN r.logged : r.logged[i] \in {"%61", "%2F"}

\* A request that names a valid project, key or token reaches its own handler
\* with exactly these names, however many slashes the base URL ended in, and is
\* recorded under exactly this project: no slash, word or length gets in between.
\* If the base URL has a path of its own, which validate_server_url accepts and
\* the server's routes do not have, the request reaches no handler at all: the
\* path and the name together are never taken for another project, key or token.
\* Any other name too is recorded under the project that it got to, if it got to
\* one, unless it was sent escaped, which the record shows.
ValidNamesArrive ==
  last # None =>
    /\ RecordTells(last)
    /\ Named(last) =>
         IF last.url.path = <<>>
           THEN /\ last.route = last.op /\ last.logged = last.asked
                /\ last.status \in {200, 404}
                /\ last.status = 200 =>
                     last.project = last.asked /\ last.key = last.askedKey
           ELSE /\ last.route = None /\ last.logged = None
                /\ last.status \in {0, 404}

Plain == [scheme |-> "https", host |-> "remote", extra |-> "none",
          path |-> <<>>, slashes |-> 0]

\* A project that was created through a JSON body can be read through its URL,
\* and a token that was created so can be revoked: a name that passes validation
\* in a body works in a path.
NamesUsable ==
  /\ \A p \in projects : Serve("GET", SecretsUrl(Plain, p)).project = p
  /\ \A t \in tokens : Serve("DELETE", TokenUrl(Plain, t)).key = t

\* No stored key, whichever URL stored it, makes the client refuse its project:
\* "Same key rules the server enforces on write" (api.rs).
ProjectsReadable ==
  \A p \in projects : secret_map_from_plain(KeysOf(p)) = KeysOf(p)
=============================================================================
