------------------------------- MODULE FakeShell -------------------------------
(***************************************************************************)
(* The fake Debian shell of the SSH and Telnet honeypots                   *)
(* (honeypots/common/fakeshell.py).  A path as typed is its parts between  *)
(* slashes, as "/".split() gives them: /etc is <<"", "etc">>, ~/x is       *)
(* <<"~", "x">>.  A resolved path is its names from the root: / is <<>>.   *)
(***************************************************************************)
EXTENDS Integers, SequencesExt

CONSTANT Lines       \* lines that clients type: [cmd, args], see Ls, Cat and Cd

Home == <<"home", "admin">>

\* _DIRS: what each directory is said to hold.
Dirs ==
  <<>> :> {"bin", "boot", "dev", "etc", "home", "lib", "proc", "root", "sbin",
           "srv", "tmp", "usr", "var"}
  @@ <<"etc">> :> {"passwd", "hostname", "os-release", "crontab", "ssh", "nginx"}
  @@ <<"etc", "ssh">> :> {"sshd_config"}
  @@ <<"etc", "nginx">> :> {"nginx.conf"}
  @@ <<"proc">> :> {"cpuinfo", "meminfo", "version"}
  @@ <<"var">> :> {"www", "log"}
  @@ <<"var", "www">> :> {"html"}
  @@ <<"var", "www", "html">> :> {"index.html", "config.php"}
  @@ <<"var", "log">> :> {"auth.log", "syslog"}
  @@ <<"home">> :> {"admin"}
  @@ Home :> {"Documents", "projects", ".ssh", ".bash_history", ".bashrc",
              ".profile", ".gitconfig", ".viminfo", ".lesshst",
              ".sudo_as_admin_successful", "notes.txt", "todo.txt"}
  @@ Home \o <<".ssh">> :> {"known_hosts", "authorized_keys", "id_rsa",
                            "id_rsa.pub", "config"}
  @@ Home \o <<"Documents">> :> {"passwords.txt", "budget_2026.csv",
                                 "rapport_secu.txt", "contacts.csv",
                                 "meeting_notes.md"}
  @@ Home \o <<"projects">> :> {"webapp", "api", "scripts"}
  @@ Home \o <<"projects", "webapp">> :> {".env", "docker-compose.yml", "app.py",
                                          "README.md", "requirements.txt"}
  @@ Home \o <<"projects", "api">> :> {"main.py", "config.yml", ".env"}
  @@ Home \o <<"projects", "scripts">> :> {"backup.sh", "deploy.sh", "restore_db.sh"}

\* The keys of _FAKE_FILES_CONTENT, directory by directory.
Content ==
  <<"etc">> :> {"passwd", "hostname", "os-release", "crontab"}
  @@ <<"etc", "ssh">> :> {"sshd_config"}
  @@ <<"etc", "nginx">> :> {"nginx.conf"}
  @@ <<"proc">> :> {"cpuinfo", "meminfo", "version"}
  @@ <<"var", "www", "html">> :> {"index.html", "config.php"}
  @@ <<"var", "log">> :> {"auth.log", "syslog"}
  @@ Home :> {".bash_history", ".bashrc", ".profile", ".gitconfig", ".viminfo",
              ".lesshst", ".sudo_as_admin_successful", "notes.txt", "todo.txt"}
  @@ Home \o <<".ssh">> :> {"known_hosts", "authorized_keys", "id_rsa",
                            "id_rsa.pub", "config"}
  @@ Home \o <<"Documents">> :> {"passwords.txt", "budget_2026.csv",
                                 "rapport_secu.txt", "contacts.csv",
                                 "meeting_notes.md"}
  @@ Home \o <<"projects", "webapp">> :> {".env", "docker-compose.yml", "app.py",
                                          "README.md", "requirements.txt"}
  @@ Home \o <<"projects", "api">> :> {"main.py", "config.yml", ".env"}
  @@ Home \o <<"projects", "scripts">> :> {"backup.sh", "deploy.sh", "restore_db.sh"}

IsDir(path) == path \in DOMAIN Dirs
IsFile(path) ==
  path # <<>> /\ Front(path) \in DOMAIN Content /\ Last(path) \in Content[Front(path)]

\* Names that begin with a dot.
Hidden == {".ssh", ".bash_history", ".bashrc", ".profile", ".gitconfig", ".viminfo",
           ".lesshst", ".sudo_as_admin_successful", ".env"}

-----------------------------------------------------------------------------
(* _resolve.                                                               *)

\* One part of a path in posixpath.normpath: the root is its own parent.
Step(path, part) ==
  CASE part \in {"", "."} -> path
    [] part = ".." -> IF path = <<>> THEN <<>> ELSE Front(path)
    [] OTHER -> Append(path, part)

\* normpath keeps exactly two leading slashes: //etc is not /etc, and no key of
\* _DIRS or _FAKE_FILES_CONTENT begins that way.
TwoSlashes(target) ==
  /\ Len(target) > 2 /\ target[1] = "" /\ target[2] = ""
  /\ target[3] # "" \/ Len(target) = 3

\* The absolute, normalised path of a target: ~, absolute or relative.
Resolve(cwd, target) ==
  CASE Head(target) = "~" -> FoldLeft(Step, Home, Tail(target))
    [] TwoSlashes(target) -> <<"//">> \o FoldLeft(Step, <<>>, target)
    [] Head(target) = "" /\ ~TwoSlashes(target) -> FoldLeft(Step, <<>>, target)
    [] OTHER -> FoldLeft(Step, cwd, target)

-----------------------------------------------------------------------------
(* run: a line is [cmd, args], where args are paths (options are folded    *)
(* into the command: "ll" stands for `ll` and `ls -a`).                    *)

\* _ls: the names it prints, or whether it found a file or nothing.
Ls(cwd, line) ==
  LET target == IF line.args = <<>> THEN cwd ELSE Resolve(cwd, Head(line.args))
  IN  CASE IsDir(target) -> Dirs[target] \ (IF line.cmd = "ll" THEN {} ELSE Hidden)
        [] ~IsDir(target) /\ IsFile(target) -> "the file"
        [] OTHER -> "No such file or directory"

\* _cat, one answer per argument.
Cat(cwd, line) ==
  [i \in DOMAIN line.args |->
     LET target == Resolve(cwd, line.args[i])
     IN  CASE IsFile(target) -> "content"
           [] ~IsFile(target) /\ IsDir(target) -> "Is a directory"
           [] OTHER -> "No such file or directory"]

\* Mutant of Cd: the directory changes even where there is none.
CdAnywhere(cwd, line) ==
  IF line.args = <<>> THEN Home ELSE Resolve(cwd, Head(line.args))

\* _cd: the current directory afterwards.
Cd(cwd, line) ==
  IF line.args = <<>> THEN Home
  ELSE LET target == Resolve(cwd, Head(line.args))
       IN  IF IsDir(target) THEN target ELSE cwd

\* "__EXIT__".
Exits(line) == line.cmd \in {"exit", "logout", "quit"}

\* The current directory after a line; only cd moves it.
CwdAfter(cwd, line) == IF line.cmd = "cd" THEN Cd(cwd, line) ELSE cwd
=============================================================================
