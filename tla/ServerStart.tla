----------------------------- MODULE ServerStart -----------------------------
(***************************************************************************)
(* How a server comes up, from the lines of its configuration to the parts *)
(* of ServerApp, and how it checks a password afterwards: against the      *)
(* table of test_user.txt, or over MySQL with the password of the          *)
(* configuration, which is kept scrambled.                                 *)
(***************************************************************************)
EXTENDS ScrambledString, SequencesExt, FiniteSetsExt, TLC

CONSTANTS
    Sections,       \* names of sections, known ones and others
    Values,         \* values of a key; an empty text is 0
    MaxPort,        \* 65535 in the code
    DefaultThreshold,
    DbPassword,     \* the database's password, as it is configured
    Registries,     \* contents of test_user.txt or of user_auth
    Colon,          \* the character that divides a salt from a hash
    Sha256Hex(_)    \* the hash of a text, as a text

ASSUME StartAssumption ==
    /\ {"mode", "mysql", "server"} \subseteq Sections
    /\ Values \subseteq Nat
    /\ MaxPort \in Nat \ {0} /\ DefaultThreshold \in Nat \ {0}
    /\ DbPassword \in Seq(Bit) \ {<< >>}

(* A line has a name and one text for the password; what it is a writing   *)
(* of is not marked in it.                                                 *)
Text == Seq(Nat) \ {<< >>}
UserLines == [name : Text, stored : Seq(Nat)]

ASSUME RegistryAssumption == Registries \subseteq Seq(UserLines)

VARIABLES
    stage,      \* "config", "auth", "dirs", "ready" or "failed"
    section,    \* of the line read last
    config,     \* ServerConfig, a number for each key
    secret,     \* what the scrambled password would be read as
    turned,     \* history: it was turned around since it was set
    registered, \* history: the users as they were written down, in order
    users       \* what the auth provider finds under a name

startVars == <<stage, section, config, secret, turned, registered, users>>

SectionOf == [mode |-> "mode", mysql_ip |-> "mysql", mysql_port |-> "mysql",
              mysql_database |-> "mysql", mysql_username |-> "mysql",
              mysql_password |-> "mysql", list_port |-> "server",
              rotation_threshold |-> "server"]
ConfigKeys == DOMAIN SectionOf

StartTypeOK ==
    /\ stage \in {"config", "auth", "dirs", "ready", "failed"}
    /\ section \in Sections \cup {"none"}
    /\ config \in [ConfigKeys -> Values \cup {0, DefaultThreshold}]
    /\ secret \in Seq(Bit)
    /\ turned \in BOOLEAN

Unset == [k \in ConfigKeys |-> IF k = "rotation_threshold"
                               THEN DefaultThreshold ELSE 0]

StartInit ==
    /\ stage = "config"
    /\ section = "none"
    /\ config = Unset
    /\ secret = << >>
    /\ turned = FALSE
    /\ registered = << >>
    /\ users = << >>

Mode == IF config["mode"] = 1 THEN "demo" ELSE "mysql"

(* ScrambledString::set and, after a read, get: the text is scrambled anew *)
(* and may from then on be read as another one.                            *)
Scramble(text, before) ==
    \E s \in Scrambled(text) :
       /\ secret' = Decrypt(s)
       /\ turned' = (before \/ s.perm = 1)
-----------------------------------------------------------------------------
(* ParseIni, one line after the other; blank lines and comments change     *)
(* nothing.                                                                *)

ReadSection(name) ==
    /\ stage = "config"
    /\ section' = name
    /\ UNCHANGED <<stage, config, secret, turned, registered, users>>

ParseUint16(value, old) == IF value <= MaxPort THEN value ELSE old

(* ApplyKV: a key counts in its own section only, the last one wins, and a *)
(* port that cannot be read changes nothing.                               *)
ApplyKV(key, value) ==
    /\ stage = "config"
    /\ IF SectionOf[key] # section THEN UNCHANGED <<config, secret, turned>>
       ELSE /\ config' = [config EXCEPT ![key] =
                            IF key \in {"mysql_port", "list_port"}
                            THEN ParseUint16(value, @) ELSE value]
            /\ IF key = "mysql_password"
               THEN Scramble(IF value = 0 THEN << >> ELSE DbPassword, FALSE)
               ELSE UNCHANGED <<secret, turned>>
    /\ UNCHANGED <<stage, section, registered, users>>

(* A file that is not there, or a line without '='. *)
BadConfig ==
    /\ stage = "config"
    /\ stage' = "failed"
    /\ UNCHANGED <<section, config, secret, turned, registered, users>>

MySqlKeys == {"mysql_ip", "mysql_port", "mysql_database", "mysql_username",
              "mysql_password"}

(* LoadConfig after the last line. *)
EndOfConfig ==
    /\ stage = "config"
    /\ stage' = IF \/ config["list_port"] = 0
                   \/ Mode = "mysql" /\ \E k \in MySqlKeys : config[k] = 0
                THEN "failed" ELSE "auth"
    /\ config' = [config EXCEPT !["rotation_threshold"] =
                    IF @ = 0 THEN DefaultThreshold ELSE @]
    /\ UNCHANGED <<section, secret, turned, registered, users>>
-----------------------------------------------------------------------------
(* The auth provider *)

Emplace_Replaces(table, user) ==    \* mutant: a later line replaces an earlier
    [name \in DOMAIN table \cup {user.name} |->
       IF name = user.name THEN user.stored ELSE table[name]]

(* emplace leaves the user that is already in the table. *)
Emplace(table, user) ==
    [name \in DOMAIN table \cup {user.name} |->
       IF name \in DOMAIN table THEN table[name] ELSE user.stored]

(* LoadDemoUsers, one line after the other. *)
TableOf(list) ==
    LET table[i \in 0..Len(list)] ==
          IF i = 0 THEN << >> ELSE Emplace(table[i - 1], list[i])
    IN  table[Len(list)]

(* MakeAuthProvider; a line of test_user.txt is divided at its first colon *)
(* and has something on both sides, a database's rows have a name once.    *)
(* What the other parts take over from the configuration is not told apart *)
(* any more.                                                               *)
MakeAuthProvider ==
    /\ stage = "auth"
    /\ \E list \in Registries :
          /\ Mode = "demo" => \A i \in DOMAIN list :
                                 /\ Colon \notin Range(list[i].name)
                                 /\ list[i].stored # << >>
          /\ Mode = "mysql" => \A i, j \in DOMAIN list :
                                  list[i].name = list[j].name => i = j
          /\ registered' = list
          /\ users' = TableOf(list)
    /\ stage' = "dirs"
    /\ config' = [Unset EXCEPT !["mode"] = IF Mode = "demo" THEN 1 ELSE 0]
    /\ section' = "none"
    /\ IF Mode = "demo" THEN secret' = << >> /\ turned' = FALSE
       ELSE UNCHANGED <<secret, turned>>

(* The file is missing or a line of it has no password. *)
BadUserFile ==
    /\ stage = "auth" /\ Mode = "demo"
    /\ stage' = "failed"
    /\ UNCHANGED <<section, config, secret, turned, registered, users>>

(* The rest of ServerApp::Init: only the storage directory can fail. *)
CreateParts ==
    /\ stage = "dirs"
    /\ stage' \in {"ready", "failed"}
    /\ UNCHANGED <<section, config, secret, turned, registered, users>>

ServerInit ==
    \/ \E name \in Sections : ReadSection(name)
    \/ \E key \in ConfigKeys, value \in Values : ApplyKV(key, value)
    \/ BadConfig
    \/ EndOfConfig
    \/ MakeAuthProvider
    \/ BadUserFile
    \/ CreateParts
-----------------------------------------------------------------------------
(* Passwords *)

(* The stored text itself is right, whatever it is a writing of; then the  *)
(* first colon decides how it is read.                                     *)
VerifyPassword(input, stored) ==
    LET colon == SelectInSeq(stored, LAMBDA b : b = Colon) IN
    \/ stored = input
    \/ /\ colon # 0
       /\ Sha256Hex(SubSeq(stored, 1, colon - 1) \o input)
             = SubSeq(stored, colon + 1, Len(stored))
    \/ colon = 0 /\ stored = Sha256Hex(input)

(* Every use of the MySQL provider reads its copy of the password once;    *)
(* ApiService's own copy goes the same way and is not kept track of.       *)
ReadSecret ==
    IF Mode = "mysql" THEN Scramble(secret, turned)
    ELSE UNCHANGED <<secret, turned>>

(* What a question to the provider can come to: a database that is sent a  *)
(* wrong password denies the connection, and any statement may fail.       *)
Outcomes(yes) ==
    IF Mode = "mysql" /\ secret # DbPassword THEN {"denied"}
    ELSE (IF Mode = "mysql" THEN {"failed"} ELSE {})
            \cup {IF yes THEN "accepted" ELSE "refused"}

(* Validate, and the derivation of keys after it.  The demo provider       *)
(* compares the texts.                                                     *)
Verdicts(name, password) ==
    Outcomes(/\ name \in DOMAIN users
             /\ IF Mode = "demo" THEN users[name] = password
                ELSE VerifyPassword(password, users[name])
             /\ << >> \notin {name, password})

UserExists(name) == Outcomes(name \in DOMAIN users /\ name # << >>)
=============================================================================
