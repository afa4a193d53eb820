------------------------------- MODULE Remote -------------------------------
(****************************************************************************)
(* The commands that use, configure and switch off remote servers:          *)
(* auth/remote.rs, auth/command.rs, auth/configure.rs, auth/bearer.rs,      *)
(* tools/policy.rs and config/mutation.rs, with mcp/client.rs, mcp/http.rs  *)
(* and mcp/tools.rs as they use them.                                       *)
(*                                                                          *)
(* Each command is a process of its own, without the supervisor.  It works  *)
(* on what it once read of the configuration, and reads it again around     *)
(* every wait: other commands replace the files under their lock, people    *)
(* edit them without, trust is given and lost.  The secrets the definitions *)
(* refer to are in the keyring, which no file lock covers.                  *)
(*                                                                          *)
(* The model has one server name, and callers inside one project.  What a   *)
(* command does between two awaits is one step.                             *)
(****************************************************************************)
EXTENDS Naturals, FiniteSets

CONSTANTS
    Processes,  \* commands that run at a time
    Endpoints,  \* URLs a definition may name
    Tools,      \* names of tools
    Keys,       \* keyring references ever drawn: a bound on configurations
    Edits,      \* scope -> definitions people write into its file
    Cursors,    \* cursors servers send
    Pages,      \* limits.pages
    Rounds,     \* rounds of input of a call (16 in the code)
    Targets,    \* what callers enable or disable: a tool, or None for the server
    Offered,    \* process -> commands its caller may ask for
    None        \* no value

Scopes == {"user", "project"}

(* A definition of a file; the content of the file, which its digest stands  *)
(* for, is the definition or nothing of that name.                           *)
Servers == [endpoint : Endpoints, bearer : Keys \cup {None}, enabled : BOOLEAN,
            disabled : SUBSET Tools]
Contents == Servers \cup {None}

Identities == [scope : Scopes, server : Servers]

Policies == {"enable", "disable"}
Requests == {"tools", "tool", "call"}
Commands == Policies \cup Requests \cup {"configure", "logout", "login"}

ASSUME NamesAssumption ==
    None \notin Servers \cup Identities \cup Keys \cup Tools \cup Cursors
ASSUME EditsAssumption ==
    \A s \in Scopes : \A c \in Edits[s] : c \in Servers /\ c.bearer = None
ASSUME TargetsAssumption == Targets \subseteq Tools \cup {None}
ASSUME LimitsAssumption == Pages \in Nat \ {0} /\ Rounds \in Nat \ {0}
ASSUME CommandsAssumption == Offered \in [Processes -> SUBSET Commands]

VARIABLES
    config,     \* scope -> content of its config.json
    approved,   \* the content of the project's file that trust.json approves
    keyring,    \* references that have an item
    revoked,    \* history: references whose item a logout may have removed
    pc,         \* process -> the step its command is at
    job         \* process -> what the command remembers

files == <<config, approved>>
secrets == <<keyring, revoked>>
vars == <<config, approved, keyring, revoked, pc, job>>

(* What a command remembers: the tool and scope it was given, the identity   *)
(* it has read, the definition it will change, the reference it has stored,  *)
(* the request under way, the discovery so far and the rounds of its call.   *)
Jobs ==
    [op : Commands, tool : Tools \cup {None}, scope : Scopes,
     seen : Identities \cup {None}, target : Contents, key : Keys \cup {None},
     request : {"connect", "list", "call"}, names : SUBSET Tools,
     found : SUBSET Tools, cursors : SUBSET Cursors, pages : 0 .. Pages - 1,
     rounds : 0 .. Rounds]

NewJob(op, tool, scope, seen, target) ==
    [op |-> op, tool |-> tool, scope |-> scope, seen |-> seen, target |-> target,
     key |-> None, request |-> "connect", names |-> {}, found |-> {},
     cursors |-> {}, pages |-> 0, rounds |-> 0]

NoJob == NewJob("tools", None, "user", None, None)

----------------------------------------------------------------------------
(* What Effective::load gives.                                               *)

(* A project's definition shadows the user's of the same name, trusted or    *)
(* not.                                                                      *)
Source == IF config["project"] # None THEN "project" ELSE "user"

Identity == [scope |-> Source, server |-> config[Source]]

Authorized ==
    /\ config[Source] # None
    /\ Source = "project" => approved = config["project"]

(* AuthorizedServer::require_enabled.                                        *)
Enabled(tool) == config[Source].enabled /\ tool \notin config[Source].disabled

Admissible(tool) == Authorized /\ Enabled(tool)

(* recheck: the identity, of which the content is a part, is still the one   *)
(* that was read, and it is authorized and enabled now.                      *)
Recheck(j) == Admissible(None) /\ Identity = j.seen

(* The closure of invoke.                                                    *)
RecheckCall(j) == Recheck(j) /\ Enabled(j.tool)

----------------------------------------------------------------------------
(* The next step of a command, or its end.                                   *)
Goto(p, step) == pc' = [pc EXCEPT ![p] = step]
Update(p, j) == job' = [job EXCEPT ![p] = j]
End(p) == Goto(p, "idle") /\ Update(p, NoJob)

Quiet == UNCHANGED <<files, secrets>>

(* A step that goes on only if a check holds.                                *)
Proceed(check, p, step, j) ==
    \/ check /\ Goto(p, step) /\ Update(p, j)
    \/ ~check /\ End(p)

----------------------------------------------------------------------------
(* Requests to a remote server.                                              *)

(* execute, invoke_command, request: the first reads, before the command     *)
(* waits for the maintenance lock.                                           *)
Invoke(p, op, tool) ==
    /\ pc[p] = "idle" /\ op \in Requests \cap Offered[p]
    /\ op = "tools" <=> tool = None
    /\ Admissible(IF op = "call" THEN tool ELSE None)
    /\ Goto(p, "admit") /\ Update(p, NewJob(op, tool, "user", None, None))
    /\ Quiet

ToolOf(j) == IF j.op \in Policies THEN None ELSE j.tool

(* remote::execute: what it reads now it will hold on to.  For a policy      *)
(* command this is the listing of all tools.                                 *)
Admit(p) ==
    /\ pc[p] = "admit"
    /\ Proceed(Admissible(ToolOf(job[p])), p, "options", [job[p] EXCEPT !.seen = Identity])
    /\ Quiet

(* configured_options: the secrets are read, which awaits the keyring.       *)
Options(p) ==
    /\ pc[p] = "options"
    /\ Proceed(job[p].seen.server.bearer \in keyring \cup {None}, p, "authorize", job[p])
    /\ Quiet

(* Configured::authorization before the provider is asked, which may read    *)
(* the keyring and refresh a token.                                          *)
Authorize(p) ==
    /\ pc[p] = "authorize"
    /\ Proceed(Recheck(job[p]), p, "provider", job[p])
    /\ Quiet

(* Mutant: the policy is not read again after the provider was asked.        *)
SendUnchecked(p) ==
    /\ pc[p] = "provider" /\ Goto(p, "sent") /\ Quiet /\ UNCHANGED job

(* Configured::authorization after it, and the request.                      *)
Send(p) ==
    /\ pc[p] = "provider"
    /\ Proceed(Recheck(job[p]), p, "sent", job[p])
    /\ Quiet

Awaits(p, request) == pc[p] = "sent" /\ job[p].request = request

(* Client::connect: the server's description is valid.                       *)
Connected(p) ==
    /\ Awaits(p, "connect")
    /\ Goto(p, "authorize") /\ Update(p, [job[p] EXCEPT !.request = "list"])
    /\ Quiet

(* append_tools: names are unique over all pages; `good' are the tools whose *)
(* header annotations are valid.                                             *)
AppendTools(p, new, good) ==
    [job[p] EXCEPT !.names = @ \cup new, !.found = @ \cup good, !.pages = @ + 1]

(* Of a discovery only the usable tools are kept.                            *)
Finished(j) == [j EXCEPT !.names = {}, !.cursors = {}, !.pages = 0]

(* discover_tools asks for another page if the cursor is a new one and the   *)
(* limit of pages is not reached.                                            *)
Continues(p, cursor) ==
    /\ cursor \notin job[p].cursors
    /\ job[p].pages + 1 < Pages

(* A page of tools: the last one, one of several, or one that ends the       *)
(* discovery with an error.                                                  *)
Page(p, new, good, cursor) ==
    /\ Awaits(p, "list") /\ good \subseteq new
    /\ \/ /\ new \cap job[p].names = {} /\ cursor = None
          /\ Goto(p, "listed") /\ Update(p, Finished(AppendTools(p, new, good)))
       \/ /\ new \cap job[p].names = {} /\ cursor # None
          /\ Proceed(Continues(p, cursor), p, "authorize",
                [AppendTools(p, new, good) EXCEPT !.cursors = @ \cup {cursor}])
       \/ new \cap job[p].names # {} /\ End(p)
    /\ Quiet

(* remote::execute and validate_tool after a listing: once more the policy   *)
(* must be the one of before.                                                *)
Listed(p) ==
    /\ pc[p] = "listed" /\ job[p].op # "call"
    /\ Proceed(/\ job[p].op \in Policies
          /\ Recheck(job[p]) /\ job[p].tool \in job[p].found,
          p, "commit", [job[p] EXCEPT !.seen = None, !.request = "connect", !.found = {}])
    /\ Quiet

(* invoke: the tool exists and its use is still allowed.                     *)
Select(p) ==
    /\ pc[p] = "listed" /\ job[p].op = "call"
    /\ Proceed(/\ job[p].tool \in job[p].found
          /\ Admissible(job[p].tool) /\ Identity = job[p].seen,
          p, "round", [job[p] EXCEPT !.request = "call", !.found = {}])
    /\ Quiet

(* Mutant: a call without a limit.                                           *)
RoundUnlimited(p) ==
    /\ pc[p] = "round"
    /\ Proceed(RecheckCall(job[p]), p, "authorize", job[p])
    /\ Quiet

(* call_tool_checked: the closure of invoke, before each request.            *)
Round(p) ==
    /\ pc[p] = "round"
    /\ Proceed(job[p].rounds < Rounds /\ RecheckCall(job[p]),
               p, "authorize", [job[p] EXCEPT !.rounds = @ + 1])
    /\ Quiet

(* The result of a call, or a request for input that a terminal shows; it is *)
(* shown only under the policy in force (call_tool_checked,                  *)
(* continue_request).                                                        *)
CallAnswered(p) ==
    /\ Awaits(p, "call")
    /\ \/ End(p)
       \/ Proceed(RecheckCall(job[p]), p, "round", job[p])
    /\ Quiet

(* 401 and 403: under a policy that changed meanwhile the refusal is not     *)
(* reported to the provider.  Nothing is sent again.                         *)
Challenged(p) ==
    /\ pc[p] = "sent"
    /\ Proceed(Recheck(job[p]), p, "challenged", job[p])
    /\ Quiet

Answer(p) ==
    \/ Connected(p)
    \/ \E new, good \in SUBSET Tools, cursor \in Cursors \cup {None} :
         Page(p, new, good, cursor)
    \/ CallAnswered(p)
    \/ Challenged(p)

----------------------------------------------------------------------------
(* Commands that change a definition.                                        *)

(* enable and disable: the target is the definition of the given scope; a    *)
(* tool that is not among the disabled ones must be one the server lists.    *)
(* For that the target must be the definition in force.                      *)
Policy(p, op, tool, scope) ==
    /\ pc[p] = "idle" /\ op \in Policies \cap Offered[p]
    /\ config[scope] # None
    /\ \/ /\ tool \in config[scope].disabled \cup {None}
          /\ Goto(p, "commit")
       \/ /\ tool \notin config[scope].disabled \cup {None}
          /\ Authorized /\ Source = scope
          /\ Goto(p, "admit")
    /\ Update(p, NewJob(op, tool, scope, None, config[scope]))
    /\ Quiet

(* auth configure: the target is the definition in force, in the scope the   *)
(* caller named.                                                             *)
Configure(p, scope) ==
    /\ pc[p] = "idle" /\ "configure" \in Offered[p]
    /\ Authorized /\ Source = scope
    /\ Goto(p, "prompt")
    /\ Update(p, NewJob("configure", None, scope, Identity, config[scope]))
    /\ Quiet

(* References are random and never drawn twice.                              *)
Fresh(k) == k \notin keyring \cup revoked /\ \A q \in Processes : job[q].key # k

(* Mutant: the item is not read back.                                        *)
SaveUnread(p, k) ==
    /\ pc[p] = "prompt" /\ Fresh(k)
    /\ keyring' \in {keyring, keyring \cup {k}}
    /\ Goto(p, "commit") /\ Update(p, [job[p] EXCEPT !.key = k])
    /\ UNCHANGED <<files, revoked>>

(* configure::save: the user enters the secret, and its item is written and  *)
(* read back.                                                                *)
Save(p, k) ==
    /\ pc[p] = "prompt" /\ Fresh(k)
    /\ keyring' = keyring \cup {k}
    /\ Goto(p, "commit") /\ Update(p, [job[p] EXCEPT !.key = k])
    /\ UNCHANGED <<files, revoked>>

(* The write is carried out, but fails or is not seen to.                    *)
SaveFailed(p, k) ==
    /\ pc[p] = "prompt" /\ Fresh(k)
    /\ keyring' = keyring \cup {k}
    /\ End(p)
    /\ UNCHANGED <<files, revoked>>

(* What a command makes of the definition it finds.                          *)
Changed(j, current) ==
    IF j.op = "configure" THEN [j.target EXCEPT !.bearer = j.key]
    ELSE IF j.tool = None THEN [current EXCEPT !.enabled = (j.op = "enable")]
    ELSE IF j.op = "enable" THEN [current EXCEPT !.disabled = @ \ {j.tool}]
    ELSE [current EXCEPT !.disabled = @ \cup {j.tool}]

(* Effective::mutate_with_deadline before it waits for the file's lock, and  *)
(* what configure::execute reads before it: a project's file must be the one *)
(* that was read, and trusted.                                               *)
Prepare(p) ==
    /\ pc[p] = "commit"
    /\ job[p].op = "configure" => Authorized /\ Identity = job[p].seen
    /\ job[p].scope = "project" => config["project"] = job[p].target /\ approved = job[p].target
    /\ Goto(p, "update")
    /\ Quiet /\ UNCHANGED job

(* Mutant: the definition found under the lock is not compared.              *)
UnmovedUnchecked(j) == config[j.scope] # None

(* The comparison that every caller of mutate_with_deadline makes under the  *)
(* lock, with check_project_bytes for a project.                             *)
Unmoved(j) == config[j.scope] = j.target

(* The commit of policy::run and configure::execute.  The new content of a   *)
(* project's file has to be approved again.                                  *)
Commit(p) ==
    /\ pc[p] = "update" /\ Unmoved(job[p])
    /\ config' = [config EXCEPT ![job[p].scope] = Changed(job[p], @)]
    /\ End(p)
    /\ UNCHANGED <<approved, secrets>>

----------------------------------------------------------------------------
(* Credentials of one definition.                                            *)

(* auth logout of a definition with a bearer token; bearer::execute removes  *)
(* the item.                                                                 *)
Logout(p) ==
    /\ pc[p] = "idle" /\ "logout" \in Offered[p]
    /\ Authorized /\ config[Source].bearer # None
    /\ Goto(p, "logout")
    /\ Update(p, NewJob("logout", None, Source, Identity, None))
    /\ Quiet

(* The recheck after the wait for the maintenance lock.                      *)
CheckLogout(p) ==
    /\ pc[p] = "logout" /\ Recheck(job[p])
    /\ Goto(p, "remove")
    /\ revoked' = revoked \cup {job[p].seen.server.bearer}
    /\ UNCHANGED <<files, keyring, job>>

(* The removal, whether it is then seen to have worked or not.               *)
Remove(p) ==
    /\ pc[p] = "remove"
    /\ keyring' = keyring \ {job[p].seen.server.bearer}
    /\ End(p)
    /\ UNCHANGED <<files, revoked>>

(* auth login of a definition without a bearer token; Credentials has the    *)
(* record it writes.                                                         *)
Login(p) ==
    /\ pc[p] = "idle" /\ "login" \in Offered[p]
    /\ Admissible(None) /\ config[Source].bearer = None
    /\ Goto(p, "register")
    /\ Update(p, NewJob("login", None, Source, Identity, None))
    /\ Quiet

(* Provider::login_with: the policy is read again before the browser opens,  *)
(* when it returns and when the token has been exchanged.                    *)
LoginStep(p) ==
    /\ \E step \in {<<"register", "browser">>, <<"browser", "exchange">>,
                    <<"exchange", "stored">>} :
         /\ pc[p] = step[1]
         /\ Proceed(Recheck(job[p]), p, step[2], job[p])
    /\ Quiet

(* A deadline, Ctrl-C, a failed step, a refused answer or a lost one.        *)
Fail(p) == pc[p] # "idle" /\ End(p) /\ Quiet

----------------------------------------------------------------------------
(* The files change under the commands.                                      *)
Edit(scope, content) ==
    /\ config' = [config EXCEPT ![scope] = content]
    /\ UNCHANGED <<approved, secrets, pc, job>>

(* trust::run; who approves what the file was before approves nothing of     *)
(* what it is now.                                                           *)
Approve ==
    /\ config["project"] # None
    /\ approved' = config["project"]
    /\ UNCHANGED <<config, secrets, pc, job>>

Init ==
    /\ config = [s \in Scopes |-> None]
    /\ approved = None
    /\ keyring = {} /\ revoked = {}
    /\ pc = [p \in Processes |-> "idle"]
    /\ job = [p \in Processes |-> NoJob]

Begin(p) ==
    \/ \E op \in Requests, tool \in Tools \cup {None} : Invoke(p, op, tool)
    \/ \E op \in Policies, tool \in Targets, scope \in Scopes :
         Policy(p, op, tool, scope)
    \/ \E scope \in Scopes : Configure(p, scope)
    \/ Logout(p) \/ Login(p)

(* What a command does on its own.                                           *)
Step(p) ==
    \/ Admit(p) \/ Options(p) \/ Authorize(p) \/ Send(p)
    \/ Listed(p) \/ Select(p) \/ Round(p)
    \/ Prepare(p) \/ Commit(p) \/ CheckLogout(p)

(* What waits for the keyring, for people or for another host.               *)
Outside(p) ==
    \/ \E k \in Keys : Save(p, k) \/ SaveFailed(p, k)
    \/ Remove(p) \/ LoginStep(p) \/ Fail(p)

Next ==
    \/ \E p \in Processes :
         Begin(p) \/ Step(p) \/ Answer(p) \/ Outside(p)
    \/ \E scope \in Scopes : \E content \in Edits[scope] \cup {None} : Edit(scope, content)
    \/ Approve

Spec == Init /\ [][Next]_vars

(* The points of a command that sends requests.                              *)
Requesting == {"admit", "options", "authorize", "provider", "sent", "listed", "round"}
PCs == Requesting \cup {"idle", "prompt", "commit", "update", "challenged",
                     "logout", "remove", "register",
                     "browser", "exchange", "stored"}

(* A command goes on when it can, and a server answers.  Deadlines end only  *)
(* the waits for people, the keyring and the provider of tokens.             *)
Fairness ==
    \A p \in Processes :
        /\ WF_vars(Step(p)) /\ WF_vars(Answer(p))
        /\ WF_vars(pc[p] \notin Requesting /\ Fail(p))

FairSpec == Spec /\ Fairness

----------------------------------------------------------------------------
(* What a command has at a step that presupposes it.                         *)
Fits(step, j) ==
    /\ step \in Requesting \ {"admit"} => j.seen \in Identities
    /\ step \in {"logout", "remove"} =>
         j.seen \in Identities /\ j.seen.server.bearer # None
    /\ step \in {"prompt", "commit", "update"} => j.target \in Servers
    /\ step \in {"commit", "update"} => j.op \in Policies \cup {"configure"}
    /\ step \in {"commit", "update"} /\ j.op = "configure" => j.key \in Keys
    /\ step = "prompt" => j.op = "configure"
    /\ step \in Requesting /\ j.op \in Policies => j.target \in Servers

TypeOK ==
    /\ config \in [Scopes -> Contents]
    /\ approved \in Contents
    /\ keyring \subseteq Keys /\ revoked \subseteq Keys
    /\ pc \in [Processes -> PCs]
    /\ job \in [Processes -> Jobs]
    /\ \A p \in Processes : Fits(pc[p], job[p])

(* A request leaves for the endpoint and with the secrets that the trusted   *)
(* and enabled definition names at that moment, and a call only while its    *)
(* tool is enabled, however long the provider took (Configured).             *)
SentCurrent ==
    [][\A p \in Processes : pc[p] = "provider" /\ pc'[p] = "sent" =>
         /\ Admissible(None)
         /\ config[Source].endpoint = job[p].seen.server.endpoint
         /\ config[Source].bearer = job[p].seen.server.bearer
         /\ job[p].request = "call" => Enabled(job[p].tool)]_vars

(* A definition never refers to an item that is not in the keyring, unless a *)
(* logout has removed it: an item is written and read back before its        *)
(* reference is, and a reference is not used twice (configure::execute).     *)
ReferenceStored ==
    \A s \in Scopes : config[s] # None =>
        config[s].bearer \in keyring \cup revoked \cup {None}

(* The fields of a definition a command is about.                            *)
Own(j) ==
    IF j.op = "configure" THEN {"bearer"}
    ELSE IF j.tool = None THEN {"enabled"} ELSE {"disabled"}

(* A command that changes a definition changes nothing that it is not about, *)
(* whatever other commands and editors wrote while it waited for a server, a *)
(* prompt or the keyring (mutate_with_deadline).                             *)
NothingLost ==
    [][\A p \in Processes, s \in Scopes :
         pc[p] = "update" /\ pc'[p] = "idle" /\ config'[s] # config[s] =>
             /\ config[s] # None /\ config'[s] # None
             /\ \A field \in DOMAIN config[s] \ Own(job[p]) :
                  config'[s][field] = config[s][field]]_vars

(* A server that answers every request, with any page, cursor or demand for  *)
(* input, cannot keep a command from ending (discover_tools,                 *)
(* call_tool_checked).                                                       *)
CommandsEnd == \A p \in Processes : pc[p] # "idle" ~> pc[p] = "idle"
=============================================================================
