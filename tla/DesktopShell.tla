---------------------------- MODULE DesktopShell ----------------------------
(***************************************************************************)
(* electron/main.js: the desktop application starts the server as a child  *)
(* process, waits until its port answers, shows it in a window that closes *)
(* to the tray, and takes the server down when it quits.                   *)
(*                                                                         *)
(* Event handlers of the main process run one at a time, so each is one    *)
(* action.  The child process, the port, the timers and the user act in    *)
(* between.  app.quit(), app.exit(), windows and ChildProcess events are   *)
(* Electron's and Node's, modelled from how main.js uses them.             *)
(***************************************************************************)
EXTENDS Naturals

CONSTANTS
  Window, NoWindow,
  Modes,       \* values of isDev
  MaxRetries   \* probes of checkServerAvailability

ASSUME DesktopShellAssumption ==
  /\ NoWindow \notin Window
  /\ Modes \subseteq BOOLEAN
  /\ MaxRetries \in Nat \ {0}

VARIABLES
  isDev,          \* NODE_ENV is development
  taken,          \* another process answers on the port, in development
                  \* the one of the front end
  startup,        \* the promise of startServer
  attempt,        \* currentAttempt
  probes,         \* requests of tryConnect on their way
  timers,         \* calls of tryConnect that are scheduled
  serverProcess,  \* the variable refers to a child process
  child,          \* that process
  code,           \* its exit code, until the close event is handled
  shutdown,       \* the close listener and the timer of before-quit are set
  isQuitting,
  dialogs,        \* message boxes on the screen
  tray,
  window,         \* every BrowserWindow
  mainWindow,
  app

probing == <<attempt, probes, timers>>

shellVars == <<isDev, taken, startup, probing, serverProcess, child, code,
               shutdown, isQuitting, dialogs, tray, window, mainWindow, app>>

uiVars == <<isQuitting, dialogs, tray, window, mainWindow>>
serverVars == <<isDev, taken, startup, probing, serverProcess, child, code>>

Code == {"none", "zero", "signal", "failure"}  \* signal: code is null
Dialog == {"crash", "crashLog", "startup", "startupLog"}

(* The state space, with mainWindow never a window that is gone: its       *)
(* methods would throw.  A probe that times out is followed by two, so     *)
(* there may be nearly twice maxRetries of them, and no more.              *)
ShellOK ==
  /\ isDev \in BOOLEAN /\ taken \in BOOLEAN
  /\ startup \in {"none", "pending", "resolved", "rejected"}
  /\ attempt \in 0..(2 * MaxRetries - 1) /\ probes \in Nat /\ timers \in Nat
  /\ serverProcess \in BOOLEAN
  /\ child \in {"none", "starting", "listening", "exited"}
  /\ code \in Code
  /\ shutdown \in BOOLEAN /\ isQuitting \in BOOLEAN /\ tray \in BOOLEAN
  /\ dialogs \subseteq Dialog
  /\ window \in [Window -> {"gone", "hidden", "shown"}]
  /\ mainWindow \in {NoWindow} \cup {w \in Window : window[w] # "gone"}
  /\ app \in {"running", "exited"}

ShellInit ==
  /\ isDev \in Modes /\ taken \in BOOLEAN
  /\ startup = "none" /\ attempt = 0 /\ probes = 0 /\ timers = 0
  /\ serverProcess = FALSE /\ child = "none" /\ code = "none"
  /\ shutdown = FALSE /\ isQuitting = FALSE
  /\ dialogs = {} /\ tray = FALSE
  /\ window = [w \in Window |-> "gone"] /\ mainWindow = NoWindow
  /\ app = "running"

-----------------------------------------------------------------------------
(* Windows.                                                                *)

createWindow(w) ==
  /\ window[w] = "gone"
  /\ window' = [window EXCEPT ![w] = "shown"]
  /\ mainWindow' = w

\* Seeded fault: the closed handler leaves the variable alone.
WindowClosed_Kept(w) == mainWindow

(* The closed handler, which every window has.                             *)
WindowClosed(w) == NoWindow

(* The close handler of window w hides whatever mainWindow refers to.      *)
closeWindow(w) ==
  IF isQuitting
  THEN /\ window' = [window EXCEPT ![w] = "gone"]
       /\ mainWindow' = WindowClosed(w)
  ELSE /\ window' = [window EXCEPT ![mainWindow] = "hidden"]
       /\ UNCHANGED mainWindow

(* BrowserWindow.getAllWindows() is empty.                                 *)
NoWindows == {w \in Window : window[w] # "gone"} = {}

-----------------------------------------------------------------------------
(* Quitting.  Without a handler that prevents it, quit closes the windows  *)
(* and gives up when one of them objects.                                  *)

\* Seeded fault: quit is prevented and nothing is set up to end it.
beforeQuit_Stays ==
  /\ serverProcess
  /\ UNCHANGED <<window, mainWindow, app, shutdown>>

beforeQuit ==
  /\ serverProcess
  /\ shutdown' = TRUE
  /\ UNCHANGED <<window, mainWindow, app>>

quitWindows ==
  /\ ~serverProcess
  /\ IF isQuitting' \/ NoWindows
     THEN /\ app' = "exited"
          /\ window' = [w \in Window |-> "gone"] /\ mainWindow' = NoWindow
     ELSE /\ window' = [window EXCEPT ![mainWindow] = "hidden"]
          /\ UNCHANGED <<mainWindow, app>>
  /\ UNCHANGED shutdown

quit == beforeQuit \/ quitWindows

exit ==
  /\ app' = "exited"
  /\ window' = [w \in Window |-> "gone"] /\ mainWindow' = NoWindow

\* Seeded fault: a server that ignores SIGTERM is left alone.
KillTimer_ExitOnly ==
  /\ app = "running" /\ shutdown
  /\ exit
  /\ UNCHANGED <<serverVars, isQuitting, dialogs, tray, shutdown>>

(* Five seconds after before-quit.                                         *)
KillTimer ==
  /\ app = "running" /\ shutdown
  /\ child' = IF serverProcess /\ child # "none" THEN "exited" ELSE child
  /\ exit
  /\ UNCHANGED <<isDev, taken, startup, probing, serverProcess, code,
                 isQuitting, dialogs, tray, shutdown>>

ClickQuit ==
  /\ app = "running" /\ tray
  /\ isQuitting' = TRUE
  /\ quit
  /\ UNCHANGED <<serverVars, dialogs, tray>>

(* Cmd+Q, or the operating system.                                         *)
SystemQuit ==
  /\ app = "running"
  /\ UNCHANGED isQuitting
  /\ quit
  /\ UNCHANGED <<serverVars, dialogs, tray>>

-----------------------------------------------------------------------------
(* startServer.                                                            *)

whenReady ==
  /\ app = "running" /\ startup = "none"
  /\ startup' = "pending"
  /\ serverProcess' = ~isDev
  /\ child' = IF isDev THEN "none" ELSE "starting"
  /\ attempt' = 1 /\ probes' = 1 /\ UNCHANGED timers
  /\ UNCHANGED <<isDev, taken, code, uiVars, shutdown, app>>

(* startServer rejects, once: the catch of whenReady.                      *)
StartFailed ==
  IF startup = "pending"
  THEN /\ startup' = "rejected"
       /\ dialogs' = dialogs \cup {"startup"}
  ELSE UNCHANGED <<startup, dialogs>>

Answers == taken \/ child = "listening"

(* The port answers, whoever listens there; only the first answer counts.  *)
ServerAvailable ==
  /\ app = "running" /\ probes > 0
  /\ Answers
  /\ probes' = probes - 1
  /\ IF startup = "pending"
     THEN /\ startup' = "resolved"
          /\ tray' = TRUE
          /\ \E w \in Window : createWindow(w)
     ELSE UNCHANGED <<startup, tray, window, mainWindow>>
  /\ UNCHANGED <<isDev, taken, attempt, timers, serverProcess, child, code,
                 isQuitting, dialogs, shutdown, app>>

(* n handlers run on a probe that got no answer: each rejects, or          *)
(* schedules another attempt.                                              *)
NoAnswer(n) ==
  /\ app = "running" /\ probes > 0
  /\ probes' = probes - 1
  /\ IF attempt >= MaxRetries
     THEN StartFailed /\ UNCHANGED timers
     ELSE timers' = timers + n /\ UNCHANGED <<startup, dialogs>>
  /\ UNCHANGED <<isDev, taken, attempt, serverProcess, child, code, isQuitting,
                 tray, window, mainWindow, shutdown, app>>

(* Nobody listens: the error handler.                                      *)
ProbeFails == ~Answers /\ NoAnswer(1)

(* No answer in ten seconds: the timeout handler, whose destroy() makes    *)
(* the error handler run as well.                                          *)
ProbeTimesOut == NoAnswer(2)

tryConnect ==
  /\ app = "running" /\ timers > 0
  /\ timers' = timers - 1 /\ probes' = probes + 1 /\ attempt' = attempt + 1
  /\ UNCHANGED <<isDev, taken, startup, serverProcess, child, code, uiVars,
                 shutdown, app>>

(* The binary cannot be run: an error event, then a close event.           *)
SpawnError ==
  /\ app = "running" /\ child = "starting"
  /\ child' = "exited" /\ code' = "failure"
  /\ StartFailed
  /\ UNCHANGED <<isDev, taken, probing, serverProcess, isQuitting, tray,
                 window, mainWindow, shutdown, app>>

-----------------------------------------------------------------------------
(* The child process.                                                      *)

ServerListens ==
  /\ child = "starting" /\ ~taken
  /\ child' = "listening"
  /\ UNCHANGED <<isDev, taken, startup, probing, serverProcess, code, uiVars,
                 shutdown, app>>

(* By itself, killed by a signal (SIGTERM included), or failing, as it     *)
(* must when its port is taken.                                            *)
ServerExits(c) ==
  /\ app = "running"
  /\ child \in {"starting", "listening"}
  /\ child' = "exited" /\ code' = c
  /\ UNCHANGED <<isDev, taken, startup, probing, serverProcess, uiVars,
                 shutdown, app>>

(* The close event: the listener of startServer, then that of before-quit. *)
ServerClosed ==
  /\ app = "running" /\ code # "none"
  /\ code' = "none"
  /\ dialogs' = IF code = "failure" THEN dialogs \cup {"crash"} ELSE dialogs
  /\ IF shutdown
     THEN exit /\ serverProcess' = FALSE
     ELSE /\ IF code # "failure" /\ mainWindow # NoWindow
             THEN closeWindow(mainWindow)
             ELSE UNCHANGED <<window, mainWindow>>
          /\ UNCHANGED <<app, serverProcess>>
  /\ UNCHANGED <<isDev, taken, startup, probing, child, isQuitting, tray, shutdown>>

-----------------------------------------------------------------------------
(* The user.                                                               *)

(* Either button of a message box ends in quit, one after a second box.    *)
AnswerDialog(d) ==
  /\ app = "running" /\ d \in dialogs
  /\ \/ /\ d \in {"crash", "startup"}
        /\ dialogs' = (dialogs \ {d}) \cup
                        {IF d = "crash" THEN "crashLog" ELSE "startupLog"}
        /\ UNCHANGED <<isQuitting, window, mainWindow, shutdown, app>>
     \/ /\ dialogs' = dialogs \ {d}
        /\ isQuitting' = (isQuitting \/ d \in {"crash", "crashLog"})
        /\ quit
  /\ UNCHANGED <<serverVars, tray>>

UserCloses(w) ==
  /\ app = "running" /\ window[w] = "shown"
  /\ closeWindow(w)
  /\ UNCHANGED <<serverVars, isQuitting, dialogs, tray, shutdown, app>>

(* The menu entry shows the window; a click on the icon also hides it.     *)
ClickTray ==
  /\ app = "running" /\ tray
  /\ IF mainWindow = NoWindow
     THEN \E w \in Window : createWindow(w)
     ELSE /\ \E v \in {"shown", "hidden"} : window' = [window EXCEPT ![mainWindow] = v]
          /\ UNCHANGED mainWindow
  /\ UNCHANGED <<serverVars, isQuitting, dialogs, tray, shutdown, app>>

(* macOS: the dock icon is clicked, perhaps while the server starts.       *)
activate ==
  /\ app = "running" /\ startup # "none" /\ NoWindows
  /\ \E w \in Window : createWindow(w)
  /\ UNCHANGED <<serverVars, isQuitting, dialogs, tray, shutdown, app>>

-----------------------------------------------------------------------------
Probe == ServerAvailable \/ ProbeFails \/ ProbeTimesOut

Main == whenReady \/ Probe \/ tryConnect \/ KillTimer \/ ServerClosed

ShellNext ==
  \/ Main \/ SpawnError \/ ServerListens
  \/ \E c \in {"zero", "signal", "failure"} : ServerExits(c)
  \/ ClickQuit \/ SystemQuit \/ ClickTray \/ activate
  \/ \E d \in Dialog : AnswerDialog(d)
  \/ \E w \in Window : UserCloses(w)

ShellSpec == ShellInit /\ [][ShellNext]_shellVars

(* The event loop runs its handlers and timers, and somebody answers the   *)
(* message boxes.  The server owes nothing.                                *)
ShellFairSpec ==
  /\ ShellSpec
  /\ WF_shellVars(whenReady) /\ WF_shellVars(Probe) /\ WF_shellVars(tryConnect)
  /\ WF_shellVars(KillTimer) /\ WF_shellVars(ServerClosed)
  /\ \A d \in Dialog : WF_shellVars(AnswerDialog(d) /\ dialogs' \subseteq dialogs)

-----------------------------------------------------------------------------
(* The application never leaves its server behind: not when the server     *)
(* ignores SIGTERM, not when it is quit twice, before the port answers or  *)
(* while a dialog is open.                                                 *)
NoOrphanServer == app = "exited" => child \notin {"starting", "listening"}

(* Once the user has been told of a failure, or has chosen Quit, the       *)
(* installed application ends, whatever the server does.                   *)
FailureEnds == ~isDev /\ (dialogs # {} \/ isQuitting) ~> app = "exited"

=============================================================================
