-------------------------- MODULE LSPSessionProofs --------------------------
(***************************************************************************)
(* Proofs of the safety invariants of LSPSession, for all files, contents  *)
(* and bounds.                                                             *)
(*                                                                         *)
(* An edit runs only after the indexer was initialized because of what the *)
(* threads before the processing thread do: the client sends its first     *)
(* edit after `initialized`, the preprocessor drops what comes before it   *)
(* and enqueues in order, and the typechecker pushes the task of the       *)
(* indexer to the front.  Handshake follows that one message through the   *)
(* queue of messages, Stage follows it, and the task it turns into,        *)
(* through the rest of the server.  Ending says which thread may have      *)
(* ended, and Sent and Texts follow the texts of the files from editor and *)
(* disk to the typechecker.                                                *)
(***************************************************************************)
EXTENDS LSPSession, TLAPS

\* Most leaves are first-order: Zenon is the backend, SMT where arithmetic or
\* sequences are at work.
USE ZenonT(20)
-----------------------------------------------------------------------------
(* The inductive invariant                                                 *)

\* The types that the other parts of the invariant need: of the world and the
\* tables, of the messages and of the tasks.
WorldTypes ==
    /\ client \in {"new", "waits", "answered", "ready", "gone"}
    /\ openFiles \in [Files -> Contents \cup {None}]
    /\ buffer \in [Files -> Contents \cup {None}]
    /\ disk \in [Files -> Contents \cup {None}]
    /\ tcFiles \in FileTable
    /\ indexerFiles \in FileTable
    /\ changed \subseteq Files /\ told \subseteq Files
    /\ unseen \subseteq Files /\ unread \subseteq Files
    /\ watchman \in {"starts", "runs", "waits", "ended"}
    /\ watchman # "waits" => told = {}
    /\ reader \in {"runs", "ended"}

MessageTypes ==
    /\ messages \in Seq(Messages)
    /\ \A i \in 1 .. Len(messages) :
          messages[i].kind \in {"open", "change"} => messages[i].text \in Contents

TaskTypes ==
    /\ tasks \in Seq(Tasks)
    /\ \A i \in 1 .. Len(tasks) : IsTask(tasks[i]) /\ tasks[i] # NoTask
    /\ IsTask(task) /\ IsTask(preTask)
    /\ pre \in {"pops", "enqueues", "ended"}
    /\ pre = "enqueues" <=> preTask # NoTask
    /\ main \in {"idle", "runs", "initializes", "resumes", "after", "joinPreprocessor",
                 "joinReader", "joinWatchman", "done"}
    /\ main \notin {"runs", "initializes", "resumes", "after"} => task = NoTask

Types == WorldTypes /\ MessageTypes /\ TaskTypes

FromClient(m) == m.kind \in {"open", "change", "close"}

\* `initialized` is sent once, before every edit, and Watchman waits for it; after
\* `exit` nothing else comes from the client.
Handshake ==
    /\ \A i, j \in 1 .. Len(messages) :
          messages[i].kind = "initialized" /\ messages[j].kind = "initialized" => i = j
    /\ \A i \in 1 .. Len(messages) :
          /\ messages[i].kind = "initialized" => ~initialized /\ client \in {"ready", "gone"}
          /\ messages[i].kind = "watchman" => initialized \/ pre = "ended"
          /\ FromClient(messages[i]) /\ ~initialized
                => \E j \in 1 .. i - 1 : messages[j].kind = "initialized"
          /\ messages[i].kind = "exit"
                => /\ client = "gone"
                   /\ \A j \in i + 1 .. Len(messages) : messages[j].kind = "watchman"
    /\ initialized => client \in {"ready", "gone"}
    /\ client = "ready" /\ ~initialized
          => \E j \in 1 .. Len(messages) : messages[j].kind = "initialized"
    /\ notified => initialized \/ pre = "ended"

\* Tasks that neither initialize nor need what is initialized, and those that do
\* not initialize.
Early(t) == t.kind \in {"none", "initialize"}
Later(t) == t.kind \in {"none", "initialize", "edit"}

NotInitializing == main \notin {"initializes", "resumes"}

\* The message has not been preprocessed, ...
BeforeIt ==
    /\ ~initialized /\ ~indexerReady
    /\ Early(task) /\ Early(preTask) /\ \A i \in 1 .. Len(tasks) : Early(tasks[i])
    /\ NotInitializing
\* ... its task is about to be enqueued, ...
Enqueued ==
    /\ initialized /\ ~indexerReady
    /\ Early(task) /\ preTask.kind = "initialized"
    /\ \A i \in 1 .. Len(tasks) : Early(tasks[i])
    /\ NotInitializing
\* ... is in the queue, with no edit before it, ...
Waiting ==
    /\ initialized /\ ~indexerReady
    /\ Early(task) /\ Later(preTask)
    /\ \E k \in 1 .. Len(tasks) :
          /\ tasks[k].kind = "initialized"
          /\ \A i \in 1 .. k - 1 : Early(tasks[i])
          /\ \A i \in k + 1 .. Len(tasks) : Later(tasks[i])
    /\ NotInitializing
\* ... runs, ...
Running ==
    /\ initialized /\ ~indexerReady
    /\ task.kind = "initialized" /\ main \in {"runs", "initializes"}
    /\ Later(preTask) /\ \A i \in 1 .. Len(tasks) : Later(tasks[i])
\* ... has pushed the task of the indexer to the front, ...
Pushed ==
    /\ initialized /\ ~indexerReady
    /\ tasks # <<>> /\ tasks[1].kind = "indexerInitialization"
    /\ tasks[1].files = tcFiles /\ unread = {}
    /\ Later(preTask) /\ \A i \in 2 .. Len(tasks) : Later(tasks[i])
    /\ main \in {"resumes", "after", "idle"}
    /\ task.kind \in {"none", "initialized"}
\* ... which runs, ...
Giving ==
    /\ initialized /\ ~indexerReady
    /\ main = "runs" /\ task.kind = "indexerInitialization"
    /\ task.files = tcFiles /\ unread = {}
    /\ Later(preTask) /\ \A i \in 1 .. Len(tasks) : Later(tasks[i])
\* ... and is done: both tables agree, and only edits follow.
Given ==
    /\ initialized /\ indexerReady
    /\ indexerFiles = tcFiles /\ unread = {}
    /\ main = "runs" => Later(task)
    /\ Later(preTask) /\ \A i \in 1 .. Len(tasks) : Later(tasks[i])
    /\ NotInitializing

Stage == BeforeIt \/ Enqueued \/ Waiting \/ Running \/ Pushed \/ Giving \/ Given

\* The preprocessor ends after the client, unless Watchman died, and the
\* processing thread after the preprocessor.
Ending ==
    /\ terminated <=> pre = "ended"
    /\ main \in {"joinPreprocessor", "joinReader", "joinWatchman", "done"}
          => terminated /\ tasks = <<>>
    /\ ~failed /\ terminate /\ pre # "ended" => client = "gone"
    /\ ~failed /\ pre = "ended"
          => /\ client = "gone"
             /\ \A i \in 1 .. Len(messages) : messages[i].kind = "watchman"

\* What the editor has is what the last message about the file says, and what the
\* preprocessor knows once there is none.
About(m, f) == FromClient(m) /\ f \in m.files
TextOf(m) == IF m.kind = "close" THEN None ELSE m.text
Sent ==
    \A f \in Files :
        /\ \A i \in 1 .. Len(messages) :
              /\ About(messages[i], f)
              /\ \A j \in i + 1 .. Len(messages) : ~About(messages[j], f)
              => buffer[f] = TextOf(messages[i])
        /\ (\A i \in 1 .. Len(messages) : ~About(messages[i], f))
              => openFiles[f] = buffer[f]

\* The file changed on disk and will be read again.
Pending(f) ==
    \/ f \in unseen \cup changed \cup told
    \/ \E i \in 1 .. Len(messages) : messages[i].kind = "watchman" /\ f \in messages[i].files

\* What the preprocessor knows of the file: the editor's text if it is open, else
\* the one on disk.
Known(f, file) ==
    IF openFiles[f] # None
    THEN file.text = openFiles[f] /\ file.open
    ELSE /\ ~file.open
         /\ \/ Pending(f)
            \/ file.text = ReadFile(f)
            \/ file.text = None /\ disk[f] = None

\* The edit that holds a text of the file.
Has(t, f) == t.kind = "edit" /\ f \in DOMAIN t.files

\* The newest edit of a file, from the end of the queue to the typechecker, has
\* what the preprocessor knows.
Texts ==
    \A f \in Files :
        /\ f \in unread => ~tcFiles[f].open
        /\ Has(preTask, f) => Known(f, preTask.files[f])
        /\ ~Has(preTask, f) =>
              /\ \A i \in 1 .. Len(tasks) :
                    /\ Has(tasks[i], f)
                    /\ \A j \in i + 1 .. Len(tasks) : ~Has(tasks[j], f)
                    => Known(f, tasks[i].files[f])
              /\ (\A i \in 1 .. Len(tasks) : ~Has(tasks[i], f)) =>
                    /\ main = "runs" /\ Has(task, f) => Known(f, task.files[f])
                    /\ ~(main = "runs" /\ Has(task, f))
                          => \/ f \in unread /\ openFiles[f] = None
                             \/ Known(f, tcFiles[f])

IInv == Types /\ Handshake /\ Stage /\ Ending /\ Sent /\ Texts

-----------------------------------------------------------------------------
(* What the parts of the invariant depend on                               *)

\* The types of the messages depend on nothing but the messages.
LEMMA MessageTypesFrame ==
    ASSUME MessageTypes, UNCHANGED messages
    PROVE  MessageTypes'
  BY DEF MessageTypes

\* The types of the tasks depend on where the tasks are.
LEMMA TaskTypesFrame ==
    ASSUME TaskTypes, UNCHANGED <<tasks, task, preTask, pre, main>>
    PROVE  TaskTypes'
  BY SMT DEF TaskTypes, IsTask

\* What Handshake depends on.
LEMMA HandshakeFrame ==
    ASSUME Handshake, UNCHANGED <<messages, initialized, client, pre>>,
           notified' => notified \/ initialized \/ pre = "ended"
    PROVE  Handshake'
  BY SMT DEF Handshake

\* What Stage depends on.
LEMMA StageFrame ==
    ASSUME Stage, UNCHANGED <<initialized, indexerReady, task, preTask, tasks, main, tcFiles,
                              indexerFiles, unread>>
    PROVE  Stage'
  BY SMT DEF Stage, BeforeIt, Enqueued, Waiting, Running, Pushed, Giving, Given, Early, Later,
         NotInitializing

\* What Ending depends on.
LEMMA EndingFrame ==
    ASSUME Ending, UNCHANGED <<terminated, pre, main, tasks, failed, terminate, client, messages>>
    PROVE  Ending'
  BY DEF Ending

\* What Sent depends on.
LEMMA SentFrame ==
    ASSUME Sent, UNCHANGED <<messages, buffer, openFiles>>
    PROVE  Sent'
  BY SMTT(30) DEF Sent, About, TextOf, FromClient

\* What is pending may become more.
LEMMA KnownKeeps ==
    ASSUME NEW f, NEW file, Known(f, file), Pending(f) => Pending(f)',
           UNCHANGED <<openFiles, disk>>
    PROVE  Known(f, file)'
  BY DEF Known, ReadFile

\* What Texts depends on; as above, more files may be pending.
LEMMA TextsFrame ==
    ASSUME Texts, \A f \in Files : Pending(f) => Pending(f)',
           UNCHANGED <<openFiles, disk, unread, tcFiles, preTask, tasks, main, task>>
    PROVE  Texts'
  BY SMT DEF Texts, Known, Has, ReadFile

\* Whether a file is pending depends on what Watchman and the messages say.
LEMMA PendingFrame ==
    ASSUME UNCHANGED <<unseen, changed, told, messages>>, NEW f
    PROVE  Pending(f) <=> Pending(f)'
  BY DEF Pending

-----------------------------------------------------------------------------
(* A message more, a message less                                          *)

\* Append, element by element.
LEMMA AppendFacts ==
    ASSUME NEW q \in Seq(Messages), NEW m \in Messages
    PROVE  /\ Append(q, m) \in Seq(Messages)
           /\ Len(Append(q, m)) = Len(q) + 1
           /\ \A i \in 1 .. Len(q) : Append(q, m)[i] = q[i]
           /\ Append(q, m)[Len(q) + 1] = m
  BY SMT

\* Tail, element by element.
LEMMA TailFacts ==
    ASSUME NEW S, NEW q \in Seq(S), q # <<>>
    PROVE  /\ Tail(q) \in Seq(S)
           /\ Len(Tail(q)) = Len(q) - 1
           /\ Len(q) \in Nat \ {0}
           /\ \A i \in 1 .. Len(q) - 1 : Tail(q)[i] = q[i + 1]
           /\ q[1] \in S
  BY SMT

\* A message is made of its parts.
LEMMA MessageType ==
    ASSUME NEW kind \in {"initialize", "initialized", "open", "change", "close", "watchman",
                         "pause", "resume", "exit"},
           NEW fs \in SUBSET Files, NEW text \in Contents \cup {None}
    PROVE  /\ Message(kind, fs, text) \in Messages
           /\ Message(kind, fs, text).kind = kind
           /\ Message(kind, fs, text).files = fs
           /\ Message(kind, fs, text).text = text
  BY DEF Message, Messages

\* A file stays pending when a message is added.
LEMMA PendingAppend ==
    ASSUME messages \in Seq(Messages), NEW m \in Messages, messages' = Append(messages, m),
           UNCHANGED <<unseen, changed, told>>, NEW f, Pending(f)
    PROVE  Pending(f)'
  BY AppendFacts, SMT DEF Pending

\* The messages keep their types when one is added.
LEMMA MessageTypesAppend ==
    ASSUME MessageTypes, NEW m \in Messages, messages' = Append(messages, m),
           m.kind \in {"open", "change"} => m.text \in Contents
    PROVE  MessageTypes'
  BY AppendFacts, SMT DEF MessageTypes

\* didOpen, didChange and didClose: what the editor has is what its last message
\* says.
LEMMA ClientEditsKeeps ==
    ASSUME IInv, NEW kind \in {"open", "change", "close"}, NEW f \in Files,
           NEW text \in Contents, ClientEdits(kind, f, text)
    PROVE  IInv'
  <1> DEFINE m == Message(kind, {f}, text)
             new == IF kind = "close" THEN None ELSE text
  <1>1. /\ m \in Messages /\ m.kind = kind /\ m.files = {f} /\ m.text = text
        /\ messages' = Append(messages, m)
    BY MessageType, SMT DEF ClientEdits, Read
  <1>2. /\ messages \in Seq(Messages)
        /\ new \in Contents \cup {None} /\ new = TextOf(m)
    BY <1>1 DEF IInv, Types, MessageTypes, TextOf
  <1> HIDE DEF m
  <1>3. /\ buffer' \in [Files -> Contents \cup {None}]
        /\ \A g \in Files : buffer'[g] = IF g = f THEN new ELSE buffer[g]
    <2>1. buffer \in [Files -> Contents \cup {None}] /\ buffer' = [buffer EXCEPT ![f] = new]
      BY DEF IInv, Types, WorldTypes, ClientEdits
    <2> HIDE DEF new
    <2>2. QED
      BY <1>2, <2>1
  <1> HIDE DEF new
  <1>4. Types'
    <2>1. WorldTypes'
      BY <1>3 DEF IInv, Types, WorldTypes, ClientEdits, Read, watchVars, preVars, mainVars
    <2>2. QED
      BY <1>1, <2>1, MessageTypesAppend, TaskTypesFrame
      DEF IInv, Types, ClientEdits, preVars, queueVars, mainVars
  <1>5. Handshake'
    <2>1. /\ client = "ready" /\ Handshake
          /\ UNCHANGED <<client, initialized, pre, notified>>
      BY DEF IInv, ClientEdits, Read, preVars
    <2>2. QED
      BY <1>1, <1>2, <2>1, AppendFacts, SMT DEF Handshake, FromClient
  <1>6. Stage'
    BY StageFrame DEF IInv, ClientEdits, preVars, queueVars, mainVars
  <1>7. Ending'
    BY <1>1, <1>2, AppendFacts
    DEF IInv, Ending, ClientEdits, Read, watchVars, preVars, queueVars, mainVars
  <1>8. Sent'
    <2> SUFFICES ASSUME NEW g \in Files
                 PROVE  /\ \A i \in 1 .. Len(messages') :
                              /\ About(messages'[i], g)
                              /\ \A j \in i + 1 .. Len(messages') : ~About(messages'[j], g)
                              => buffer'[g] = TextOf(messages'[i])
                        /\ (\A i \in 1 .. Len(messages') : ~About(messages'[i], g))
                              => openFiles'[g] = buffer'[g]
      BY DEF Sent, About, TextOf, FromClient
    <2>1. About(m, g) <=> g = f
      BY <1>1 DEF About, FromClient
    <2>2. openFiles' = openFiles /\ Sent
      BY DEF IInv, ClientEdits, preVars
    <2>3. CASE g = f
      BY <1>1, <1>2, <1>3, <2>1, <2>3, AppendFacts, SMT
    <2>4. CASE g # f
      <3>1. buffer'[g] = buffer[g]
        BY <1>3, <2>4
      <3>2. \A i \in 1 .. Len(messages') :
               About(messages'[i], g) => i \in 1 .. Len(messages) /\ messages'[i] = messages[i]
        BY <1>1, <1>2, <2>1, <2>4, AppendFacts, SMT
      <3>3. Len(messages) \in Nat /\ Len(messages') = Len(messages) + 1
            /\ \A i \in 1 .. Len(messages) : messages'[i] = messages[i]
        BY <1>1, <1>2, AppendFacts, SMT
      <3>4. QED
        BY <2>2, <3>1, <3>2, <3>3, SMT DEF Sent
    <2>5. QED
      BY <2>3, <2>4
  <1>9. Texts'
    BY <1>1, <1>2, TextsFrame, PendingAppend
    DEF IInv, ClientEdits, watchVars, preVars, queueVars, mainVars
  <1>10. QED
    BY <1>4, <1>5, <1>6, <1>7, <1>8, <1>9 DEF IInv

\* The client's other messages: `initialized` goes ahead of every edit, and `exit`
\* is its last.
LEMMA ClientSendsKeeps ==
    ASSUME IInv,
           \/ ClientInitializes \/ ClientIsInitialized \/ ClientExits
           \/ \E kind \in {"pause", "resume"} : ClientPauses(kind)
    PROVE  IInv'
  <1>1. PICK kind \in {"initialize", "initialized", "exit", "pause", "resume"} :
           /\ Read(Message(kind, {}, None))
           /\ \/ kind = "initialize" /\ client = "new" /\ client' = "waits"
              \/ kind = "initialized" /\ client = "answered" /\ client' = "ready"
              \/ kind = "exit" /\ client # "gone" /\ client' = "gone"
              \/ kind \in {"pause", "resume"} /\ client # "gone" /\ client' = client
    BY DEF ClientInitializes, ClientIsInitialized, ClientExits, ClientPauses
  <1>2. UNCHANGED <<disk, buffer, watchVars, preVars, queueVars, mainVars>>
    BY DEF ClientInitializes, ClientIsInitialized, ClientExits, ClientPauses
  <1> DEFINE m == Message(kind, {}, None)
  <1>3. /\ m \in Messages /\ m.kind = kind /\ messages' = Append(messages, m)
        /\ UNCHANGED <<reader, terminate, notified>>
        /\ messages \in Seq(Messages)
    BY <1>1, MessageType, SMT DEF Read, IInv, Types, MessageTypes
  <1> HIDE DEF m
  <1> USE DEF IInv, watchVars, preVars, queueVars, mainVars
  <1>4. Types'
    BY <1>1, <1>2, <1>3, MessageTypesAppend, TaskTypesFrame DEF Types, WorldTypes
  <1>5. Handshake'
    BY <1>1, <1>2, <1>3, AppendFacts, SMT DEF Handshake, FromClient
  <1>6. Stage'
    BY <1>2, StageFrame
  <1>7. Ending'
    BY <1>1, <1>2, <1>3, AppendFacts DEF Ending
  <1>8. Sent'
    BY <1>2, <1>3, AppendFacts, SMTT(30) DEF Sent, About, FromClient, TextOf
  <1>9. Texts'
    BY <1>2, <1>3, TextsFrame, PendingAppend
  <1>10. QED
    BY <1>4, <1>5, <1>6, <1>7, <1>8, <1>9

\* The input ends, with or without `exit`.
LEMMA ClientVanishesKeeps ==
    ASSUME IInv, ClientVanishes \/ ReaderEnds
    PROVE  IInv'
  <1>1. /\ UNCHANGED <<disk, buffer, watchVars, messages, notified, preVars, queueVars, mainVars>>
        /\ reader' \in {"runs", "ended"}
        /\ \/ client' = "gone"
           \/ UNCHANGED <<client, terminate>>
    BY DEF ClientVanishes, ReaderEnds, worldVars
  <1> USE DEF IInv, watchVars, preVars, queueVars, mainVars
  <1>2. Types'
    BY <1>1, MessageTypesFrame, TaskTypesFrame DEF Types, WorldTypes
  <1>3. Handshake'
    BY <1>1, SMT DEF Handshake
  <1>4. Stage'
    BY <1>1, StageFrame
  <1>5. Ending'
    BY <1>1, SMT DEF Ending
  <1>6. Sent'
    BY <1>1, SentFrame
  <1>7. Texts'
    BY <1>1, TextsFrame, PendingFrame
  <1>8. QED
    BY <1>2, <1>3, <1>4, <1>5, <1>6, <1>7

\* A file that changes on disk is pending.
LEMMA DiskChangesKeeps ==
    ASSUME IInv, NEW f \in Files, NEW text \in (Contents \ {Empty}) \cup {None},
           DiskChanges(f, text)
    PROVE  IInv'
  <1>1. UNCHANGED <<client, buffer, watchman, failed, told, messageVars, preVars, queueVars,
                    mainVars>>
    BY DEF DiskChanges
  <1>2. /\ disk' \in [Files -> Contents \cup {None}]
        /\ \A g \in Files : disk'[g] = disk[g] \/ g = f
        /\ f \in unseen' \cup changed'
        /\ unseen \subseteq unseen' /\ changed \subseteq changed'
        /\ unseen' \subseteq Files /\ changed' \subseteq Files
    BY DEF DiskChanges, IInv, Types, WorldTypes
  <1> USE DEF IInv, messageVars, preVars, queueVars, mainVars
  <1>3. Types'
    BY <1>1, <1>2, MessageTypesFrame, TaskTypesFrame DEF Types, WorldTypes
  <1>4. Handshake'
    BY <1>1, HandshakeFrame
  <1>5. Stage'
    BY <1>1, StageFrame
  <1>6. Ending'
    BY <1>1, EndingFrame
  <1>7. Sent'
    BY <1>1, SentFrame
  <1>8. Texts'
    <2>1. \A g \in Files : Pending(g) => Pending(g)'
      BY <1>1, <1>2 DEF Pending
    <2>2. Pending(f)'
      BY <1>2 DEF Pending
    <2>3. ASSUME NEW g \in Files, NEW file, Known(g, file)
          PROVE  Known(g, file)'
      BY <1>1, <1>2, <2>1, <2>2, <2>3 DEF Known, ReadFile
    <2>4. UNCHANGED <<openFiles, unread, tcFiles, preTask, tasks, main, task>>
      BY <1>1
    <2>5. QED
      BY <2>3, <2>4 DEF Texts, Has
  <1>9. QED
    BY <1>3, <1>4, <1>5, <1>6, <1>7, <1>8

-----------------------------------------------------------------------------
(* The Watchman thread                                                     *)

\* Watchman's message keeps the files that it names pending.
LEMMA WatchmanEnqueuesKeeps ==
    ASSUME IInv, WatchmanEnqueues
    PROVE  IInv'
  <1> DEFINE m == Message("watchman", told, None)
  <1>1. /\ m \in Messages /\ m.kind = "watchman" /\ m.files = told
        /\ messages' = Append(messages, m)
        /\ messages \in Seq(Messages)
    BY MessageType, SMT DEF WatchmanEnqueues, IInv, Types, MessageTypes, WorldTypes
  <1> HIDE DEF m
  <1> USE DEF IInv, WatchmanEnqueues, worldVars, preVars, queueVars, mainVars
  <1>2. Types'
    BY <1>1, MessageTypesAppend, TaskTypesFrame DEF Types, WorldTypes
  <1>3. Handshake'
    BY <1>1, AppendFacts, SMT DEF Handshake, FromClient
  <1>4. Stage'
    BY StageFrame
  <1>5. Ending'
    BY <1>1, AppendFacts, SMT DEF Ending
  <1>6. Sent'
    BY <1>1, AppendFacts, SMT DEF Sent, About, FromClient, TextOf
  <1>7. Texts'
    <2>1. \A f \in Files : Pending(f) => Pending(f)'
      BY <1>1, AppendFacts, SMT DEF Pending
    <2>2. QED
      BY <2>1, TextsFrame
  <1>8. QED
    BY <1>2, <1>3, <1>4, <1>5, <1>6, <1>7

\* The thread of Watchman, up to that message.
LEMMA WatchmanKeeps ==
    ASSUME IInv, WatchmanSubscribes \/ WatchmanTells \/ WatchmanFails \/ WatchmanStops
    PROVE  IInv'
  <1>1. /\ UNCHANGED <<worldVars, unseen, reader, messages, notified, preVars, queueVars,
                       mainVars>>
        /\ failed' \/ UNCHANGED <<failed, terminate>>
        /\ changed \cup told = changed' \cup told'
        /\ watchman' \in {"runs", "waits", "ended"}
        /\ watchman' # "waits" => told' = {}
    BY DEF WatchmanSubscribes, WatchmanTells, WatchmanFails, WatchmanStops, messageVars, IInv,
           Types, WorldTypes
  <1> USE DEF IInv, worldVars, preVars, queueVars, mainVars
  <1>2. Types'
    BY <1>1, MessageTypesFrame, TaskTypesFrame DEF Types, WorldTypes
  <1>3. Handshake'
    BY <1>1, HandshakeFrame
  <1>4. Stage'
    BY <1>1, StageFrame
  <1>5. Ending'
    BY <1>1, SMT DEF Ending
  <1>6. Sent'
    BY <1>1, SentFrame
  <1>7. Texts'
    <2>1. \A f \in Files : Pending(f) => Pending(f)'
      BY <1>1 DEF Pending
    <2>2. QED
      BY <1>1, <2>1, TextsFrame
  <1>8. QED
    BY <1>2, <1>3, <1>4, <1>5, <1>6, <1>7

-----------------------------------------------------------------------------
(* The preprocessor thread                                                 *)

\* A task is made of its parts.
LEMMA FilesType ==
    ASSUME NEW fs, DOMAIN fs \subseteq Files, fs \in [DOMAIN fs -> File],
           NEW kind \in {"none", "initialize", "initialized", "indexerInitialization", "edit"}
    PROVE  [kind |-> kind, files |-> fs] \in Tasks
  <1>1. fs \in UNION {[gs -> File] : gs \in SUBSET Files}
    <2>1. [DOMAIN fs -> File] \in {[gs -> File] : gs \in SUBSET Files}
      OBVIOUS
    <2>2. QED
      BY <2>1
  <1>2. QED
    BY <1>1 DEF Tasks

\* ... and has them.
LEMMA TaskFields ==
    ASSUME NEW t \in Tasks
    PROVE  /\ DOMAIN t.files \subseteq Files
           /\ t.files \in [DOMAIN t.files -> File]
           /\ t.kind \in {"none", "initialize", "initialized", "indexerInitialization", "edit"}
           /\ t = [kind |-> t.kind, files |-> t.files]
  BY DEF Tasks

\* The tasks of the handshake have no files.
LEMMA HandshakeTask ==
    ASSUME NEW kind \in {"none", "initialize", "initialized"}
    PROVE  IsTask([kind |-> kind, files |-> NoFiles])
  <1>1. DOMAIN NoFiles = {} /\ NoFiles \in [DOMAIN NoFiles -> File]
    BY DEF NoFiles
  <1>2. [kind |-> kind, files |-> NoFiles] \in Tasks
    BY <1>1, FilesType
  <1>3. QED
    BY <1>2 DEF IsTask

\* The first message is gone.
Popped ==
    /\ Len(messages) \in Nat \ {0}
    /\ Len(messages') = Len(messages) - 1
    /\ \A i \in 1 .. Len(messages') :
          i + 1 \in 2 .. Len(messages) /\ messages'[i] = messages[i + 1]
    /\ \A i \in 2 .. Len(messages) :
          i - 1 \in 1 .. Len(messages') /\ messages[i] = messages'[i - 1]

\* The preprocessor takes a message.
LEMMA PopTypes ==
    ASSUME MessageTypes, messages # <<>>, messages' = Tail(messages)
    PROVE  /\ MessageTypes'
           /\ messages[1] \in Messages
           /\ messages[1].kind \in {"open", "change"} => messages[1].text \in Contents
           /\ Popped
  BY TailFacts, SMT DEF MessageTypes, Popped

\* ... and has seen `initialized` if that was it.
LEMMA PopHandshake ==
    ASSUME Popped, Handshake, UNCHANGED <<client, notified>>, pre = "pops",
           initialized' <=> (initialized \/ messages[1].kind = "initialized")
    PROVE  Handshake'
  <1>1. \A i, j \in 1 .. Len(messages') :
           messages'[i].kind = "initialized" /\ messages'[j].kind = "initialized" => i = j
    BY SMT DEF Popped, Handshake
  <1>2. ASSUME NEW i \in 1 .. Len(messages')
        PROVE  /\ messages'[i].kind = "initialized" =>
                     ~initialized' /\ client' \in {"ready", "gone"}
               /\ messages'[i].kind = "watchman" => initialized' \/ pre' = "ended"
               /\ messages'[i].kind = "exit"
                     => /\ client' = "gone"
                        /\ \A j \in i + 1 .. Len(messages') : messages'[j].kind = "watchman"
    <2>1. PICK k \in 2 .. Len(messages) : k = i + 1 /\ messages'[i] = messages[k]
      BY DEF Popped
    <2>2. /\ messages[k].kind = "initialized" => ~initialized /\ client \in {"ready", "gone"}
          /\ messages[k].kind = "watchman" => initialized \/ pre = "ended"
          /\ messages[k].kind = "exit"
                => /\ client = "gone"
                   /\ \A j \in k + 1 .. Len(messages) : messages[j].kind = "watchman"
          /\ messages[k].kind = "initialized" => messages[1].kind # "initialized"
      BY SMT DEF Popped, Handshake
    <2>3. (\A j \in k + 1 .. Len(messages) : messages[j].kind = "watchman")
             => \A j \in i + 1 .. Len(messages') : messages'[j].kind = "watchman"
      BY <2>1, SMTT(30) DEF Popped
    <2>4. QED
      BY <2>1, <2>2, <2>3
  <1>3. ASSUME NEW i \in 1 .. Len(messages'), FromClient(messages'[i]), ~initialized'
        PROVE  \E j \in 1 .. i - 1 : messages'[j].kind = "initialized"
    <2>1. PICK k \in 1 .. Len(messages) : k = i + 1 /\ messages'[i] = messages[k]
      BY SMT DEF Popped
    <2>2. PICK j \in 1 .. k - 1 : messages[j].kind = "initialized"
      BY <1>3, <2>1 DEF Handshake
    <2>3. j # 1
      BY <1>3, <2>2
    <2>4. j - 1 \in 1 .. i - 1 /\ messages'[j - 1] = messages[j]
      BY <2>1, <2>3, SMTT(30) DEF Popped
    <2>5. QED
      BY <2>2, <2>4
  <1>4. initialized' => client' \in {"ready", "gone"}
    BY SMT DEF Popped, Handshake
  <1>5. client' = "ready" /\ ~initialized'
           => \E j \in 1 .. Len(messages') : messages'[j].kind = "initialized"
    BY SMT DEF Popped, Handshake
  <1>6. notified' => initialized' \/ pre' = "ended"
    BY DEF Handshake
  <1>7. QED
    BY <1>1, <1>2, <1>3, <1>4, <1>5, <1>6 DEF Handshake, FromClient

\* ... files that it is not about, or that it is not Watchman's for, stay pending.
LEMMA PopPending ==
    ASSUME Popped, NEW f, messages[1].kind # "watchman" \/ f \notin messages[1].files,
           UNCHANGED <<changed, told>>, f \in unseen => f \in unseen'
    PROVE  Pending(f) => Pending(f)'
  BY SMTT(30) DEF Popped, Pending

\* ... and knows the text that it says.
LEMMA PopSent ==
    ASSUME Popped, Sent, UNCHANGED buffer,
           \A f \in Files : openFiles'[f] = IF About(messages[1], f) THEN TextOf(messages[1])
                                            ELSE openFiles[f]
    PROVE  Sent'
  <1> SUFFICES ASSUME NEW f \in Files
               PROVE  /\ \A i \in 1 .. Len(messages') :
                            /\ About(messages'[i], f)
                            /\ \A j \in i + 1 .. Len(messages') : ~About(messages'[j], f)
                            => buffer[f] = TextOf(messages'[i])
                      /\ (\A i \in 1 .. Len(messages') : ~About(messages'[i], f))
                            => openFiles'[f] = buffer[f]
    BY DEF Sent, About, TextOf, FromClient
  <1>1. ASSUME NEW i \in 1 .. Len(messages'), About(messages'[i], f),
               \A j \in i + 1 .. Len(messages') : ~About(messages'[j], f)
        PROVE  buffer[f] = TextOf(messages'[i])
    <2>1. PICK k \in 1 .. Len(messages) : k = i + 1 /\ messages'[i] = messages[k]
      BY SMT DEF Popped
    <2>2. \A j \in k + 1 .. Len(messages) : ~About(messages[j], f)
      BY <1>1, <2>1, SMT DEF Popped
    <2>3. QED
      BY <1>1, <2>1, <2>2 DEF Sent
  <1>2. ASSUME \A i \in 1 .. Len(messages') : ~About(messages'[i], f)
        PROVE  openFiles'[f] = buffer[f]
    <2>1. 1 \in 1 .. Len(messages) /\ \A j \in 2 .. Len(messages) : ~About(messages[j], f)
      BY <1>2, SMT DEF Popped
    <2>2. QED
      BY <2>1, SMT DEF Sent
  <1>3. QED
    BY <1>1, <1>2

\* Messages before `initialized` are dropped, pause and resume make no task.
LEMMA EarlyMessagesKeep ==
    ASSUME IInv, PreprocessTooEarly \/ PreprocessPause
    PROVE  IInv'
  <1> DEFINE m == messages[1]
  <1>1. /\ pre = "pops" /\ messages # <<>> /\ messages' = Tail(messages)
        /\ m.kind \in {"open", "change", "close", "watchman", "pause", "resume"}
        /\ UNCHANGED <<worldVars, watchVars, reader, terminate, notified, preVars, tasks,
                       terminated, mainVars>>
        /\ ~initialized \/ m.kind \in {"pause", "resume"}
    <2>1. MessageTypes /\ (PreprocessTooEarly \/ PreprocessPause)
      BY DEF IInv, Types
    <2>2. NextMessage
      BY DEF PreprocessTooEarly, PreprocessPause
    <2>3. m \in Messages
      BY <2>1, <2>2, PopTypes DEF NextMessage
    <2>4. QED
      BY <2>2, <2>3 DEF NextMessage, PreprocessTooEarly, PreprocessPause, MayRun, Messages,
                        queueVars
  <1>2. MessageTypes' /\ Popped
    BY <1>1, PopTypes DEF IInv, Types
  <1>3. m.kind \in {"pause", "resume"}
    <2>1. 1 \in 1 .. Len(messages)
      BY <1>2, SMT DEF Popped
    <2>2. QED
      BY <1>1, <2>1, SMT DEF IInv, Handshake, FromClient
  <1> HIDE DEF m
  <1> USE DEF IInv, worldVars, watchVars, preVars, mainVars
  <1>4. Types'
    BY <1>1, <1>2, TaskTypesFrame DEF Types, WorldTypes
  <1>5. Handshake'
    BY <1>1, <1>2, <1>3, PopHandshake DEF m
  <1>6. Stage'
    BY <1>1, StageFrame
  <1>7. Ending'
    BY <1>1 DEF Ending
  <1>8. Sent'
    BY <1>1, <1>2, <1>3, PopSent DEF m, About, FromClient
  <1>9. Texts'
    BY <1>1, <1>2, <1>3, PopPending, TextsFrame DEF m
  <1>10. QED
    BY <1>4, <1>5, <1>6, <1>7, <1>8, <1>9

\* The tasks of initialize and of `initialized`, in that order.
LEMMA PreprocessHandshakeKeeps ==
    ASSUME IInv, PreprocessHandshake
    PROVE  IInv'
  <1> DEFINE m == messages[1]
  <1>1. /\ pre = "pops" /\ messages # <<>> /\ messages' = Tail(messages)
        /\ m.kind \in {"initialize", "initialized"}
        /\ initialized' <=> (initialized \/ m.kind = "initialized")
        /\ preTask' = [kind |-> m.kind, files |-> NoFiles]
        /\ pre' = "enqueues"
        /\ UNCHANGED <<worldVars, watchVars, reader, terminate, notified, openFiles, queueVars,
                       mainVars>>
    BY DEF PreprocessHandshake, NextMessage
  <1>2. MessageTypes' /\ Popped
    BY <1>1, PopTypes DEF IInv, Types
  <1>3. m.kind = "initialized" => ~initialized
    <2>1. 1 \in 1 .. Len(messages)
      BY <1>2, SMT DEF Popped
    <2>2. QED
      BY <2>1 DEF IInv, Handshake
  <1>4. preTask = NoTask
    BY <1>1 DEF IInv, Types, TaskTypes
  <1>5. IsTask(preTask') /\ preTask' # NoTask /\ preTask'.kind = m.kind
    BY <1>1, HandshakeTask DEF NoTask
  <1> HIDE DEF m
  <1> USE DEF IInv, worldVars, watchVars, queueVars, mainVars
  <1>6. Types'
    <2>1. TaskTypes'
      BY <1>1, <1>5 DEF Types, TaskTypes, IsTask
    <2>2. QED
      BY <1>1, <1>2, <2>1 DEF Types, WorldTypes
  <1>7. Handshake'
    BY <1>1, <1>2, PopHandshake DEF m
  <1>8. Stage'
    <2>1. CASE m.kind = "initialized"
      BY <1>1, <1>3, <1>4, <1>5, <2>1
      DEF Stage, BeforeIt, Enqueued, Waiting, Running, Pushed, Giving, Given, Early,
          NotInitializing
    <2>2. CASE m.kind = "initialize"
      BY <1>1, <1>4, <1>5, <2>2
      DEF Stage, BeforeIt, Enqueued, Waiting, Running, Pushed, Giving, Given, Early, Later,
          NotInitializing, NoTask
    <2>3. QED
      BY <1>1, <2>1, <2>2
  <1>9. Ending'
    BY <1>1 DEF Ending
  <1>10. Sent'
    BY <1>1, <1>2, PopSent DEF m, About, FromClient
  <1>11. Texts'
    <2>1. \A f \in Files : Pending(f) => Pending(f)'
      BY <1>1, <1>2, PopPending DEF m
    <2>2. \A f \in Files : ~Has(preTask, f) /\ ~Has(preTask', f)
      BY <1>1, <1>4, <1>5 DEF Has, NoTask
    <2>3. ASSUME NEW f \in Files, NEW file, Known(f, file)
          PROVE  Known(f, file)'
      BY <1>1, <2>1, <2>3, KnownKeeps
    <2>4. UNCHANGED <<openFiles, unread, tcFiles, tasks, main, task>>
      BY <1>1
    <2>5. QED
      BY <2>2, <2>3, <2>4 DEF Texts, Has
  <1>12. QED
    BY <1>6, <1>7, <1>8, <1>9, <1>10, <1>11

\* readFile returns a content, the empty one if there is no file.
LEMMA ReadFileType ==
    ASSUME WorldTypes, NEW f \in Files
    PROVE  ReadFile(f) \in Contents
  BY SessionAssumption DEF WorldTypes, ReadFile

\* canonicalizeEdits: an edit has the files of its message, without those that
\* Watchman names and the editor has open.
LEMMA EditFacts ==
    ASSUME WorldTypes, NEW m \in Messages, IsEdit(m),
           m.kind \in {"open", "change"} => m.text \in Contents
    PROVE  /\ DOMAIN EditOf(m) \subseteq Files
           /\ EditOf(m) \in [DOMAIN EditOf(m) -> File]
           /\ \A f \in Files : f \in DOMAIN EditOf(m)
                 <=> f \in m.files /\ (m.kind = "watchman" => openFiles[f] = None)
           /\ \A f \in DOMAIN EditOf(m) :
                 /\ EditOf(m)[f].text \in Contents
                 /\ EditOf(m)[f].open <=> m.kind \in {"open", "change"}
                 /\ EditOf(m)[f].text = IF m.kind \in {"open", "change"} THEN m.text
                                        ELSE ReadFile(f)
  <1>1. m.files \subseteq Files
    BY DEF Messages
  <1>2. ASSUME NEW fs, fs \subseteq Files
        PROVE  /\ DOMAIN FromDisk(fs) = fs
               /\ FromDisk(fs) \in [fs -> File]
               /\ \A f \in fs : /\ FromDisk(fs)[f].text = ReadFile(f)
                                /\ ~FromDisk(fs)[f].open
                                /\ ReadFile(f) \in Contents
    BY <1>2, ReadFileType DEF FromDisk, File
  <1>3. CASE m.kind \in {"open", "change"}
    <2>1. EditOf(m) = [f \in m.files |-> [text |-> m.text, open |-> TRUE]]
      BY <1>3 DEF EditOf
    <2>2. QED
      BY <1>1, <1>3, <2>1, SMT DEF File
  <1>4. CASE m.kind = "close"
    <2>1. EditOf(m) = FromDisk(m.files)
      BY <1>4 DEF EditOf
    <2>2. QED
      BY <1>1, <1>2, <1>4, <2>1, SMT
  <1>5. CASE m.kind = "watchman"
    <2>1. EditOf(m) = FromDisk({f \in m.files : openFiles[f] = None})
      BY <1>5 DEF EditOf
    <2>2. QED
      BY <1>1, <1>2, <1>5, <2>1, SMT
  <1>6. QED
    BY <1>3, <1>4, <1>5 DEF IsEdit

\* An edit has what the preprocessor knows of its files.
LEMMA PreprocessEditKeeps ==
    ASSUME IInv, PreprocessEdit
    PROVE  IInv'
  <1> DEFINE m == messages[1]
             e == EditOf(m)
  <1>1. /\ pre = "pops" /\ messages # <<>> /\ messages' = Tail(messages)
        /\ initialized /\ IsEdit(m)
        /\ preTask' = [kind |-> "edit", files |-> e]
        /\ openFiles' = OpenAfter(m)
        /\ unseen' = unseen \ {f \in DOMAIN e : ~e[f].open}
        /\ pre' = "enqueues"
        /\ UNCHANGED <<worldVars, watchman, failed, changed, told, reader, terminate,
                       notified, initialized, queueVars, mainVars>>
    BY DEF PreprocessEdit, NextMessage, MayRun, IsEdit
  <1>2. /\ MessageTypes' /\ Popped
        /\ m \in Messages /\ m.files \subseteq Files
        /\ m.kind \in {"open", "change"} => m.text \in Contents
    BY <1>1, PopTypes DEF IInv, Types, Messages
  <1>3. /\ DOMAIN e \subseteq Files
        /\ e \in [DOMAIN e -> File]
        /\ \A f \in Files : f \in DOMAIN e
              <=> f \in m.files /\ (m.kind = "watchman" => openFiles[f] = None)
        /\ \A f \in DOMAIN e :
              /\ e[f].text \in Contents
              /\ e[f].open <=> m.kind \in {"open", "change"}
              /\ e[f].text = IF m.kind \in {"open", "change"} THEN m.text ELSE ReadFile(f)
    BY <1>1, <1>2, EditFacts DEF IInv, Types
  <1>4. preTask = NoTask
    BY <1>1 DEF IInv, Types, TaskTypes
  <1> HIDE DEF e
  <1>5. /\ IsTask(preTask') /\ preTask' # NoTask
        /\ preTask'.kind = "edit" /\ preTask'.files = e
    <2>1. preTask' \in Tasks
      BY <1>1, <1>3, FilesType
    <2>2. QED
      BY <1>1, <1>3, <2>1 DEF IsTask, NoTask
  <1>6. /\ openFiles' \in [Files -> Contents \cup {None}]
        /\ \A f \in Files : openFiles'[f] = IF About(m, f) THEN TextOf(m) ELSE openFiles[f]
    <2>1. m.kind \in {"open", "change", "close", "watchman"}
      BY <1>1 DEF IsEdit
    <2>2. openFiles \in [Files -> Contents \cup {None}]
      BY DEF IInv, Types, WorldTypes
    <2>3. openFiles' = [f \in Files |-> IF f \notin m.files \/ m.kind = "watchman"
                                        THEN openFiles[f]
                                        ELSE IF m.kind = "close" THEN None ELSE m.text]
      BY <1>1 DEF OpenAfter
    <2> HIDE DEF m
    <2>4. QED
      BY <1>2, <2>1, <2>2, <2>3 DEF About, FromClient, TextOf
  <1>7. unseen' \subseteq unseen /\ \A f \in Files \ DOMAIN e : f \in unseen => f \in unseen'
    BY <1>1
  <1> HIDE DEF m
  <1> USE DEF IInv, worldVars, queueVars, mainVars
  <1>8. Types'
    <2>1. TaskTypes'
      BY <1>1, <1>5 DEF Types, TaskTypes, IsTask
    <2>2. WorldTypes'
      BY <1>1, <1>6, <1>7 DEF Types, WorldTypes
    <2>3. QED
      BY <1>2, <2>1, <2>2 DEF Types
  <1>9. Handshake'
    <2>1. messages[1].kind # "initialized"
      BY <1>1 DEF IsEdit, m
    <2>2. QED
      BY <1>1, <1>2, <2>1, PopHandshake
  <1>10. Stage'
    BY <1>1, <1>4, <1>5
    DEF Stage, BeforeIt, Enqueued, Waiting, Running, Pushed, Giving, Given, Early, Later,
        NotInitializing, NoTask
  <1>11. Ending'
    <2>1. UNCHANGED <<terminated, main, tasks, failed, terminate, client>>
      BY <1>1
    <2>2. QED
      BY <1>1, <2>1, SMT DEF Ending
  <1>12. Sent'
    BY <1>1, <1>2, <1>6, PopSent DEF m
  <1>13. Texts'
    <2>1. ASSUME NEW f \in Files, f \notin DOMAIN e, NEW file, Known(f, file)
          PROVE  Known(f, file)'
      <3>1. CASE m.kind = "watchman" /\ f \in m.files
        BY <1>1, <1>3, <1>6, <2>1, <3>1 DEF Known, About, FromClient
      <3>2. CASE m.kind # "watchman" \/ f \notin m.files
        <4>1. Pending(f) => Pending(f)'
          BY <1>1, <1>2, <1>7, <2>1, <3>2, PopPending DEF m
        <4>2. openFiles'[f] = openFiles[f]
          BY <1>3, <1>6, <2>1, <3>2 DEF About
        <4>3. QED
          BY <1>1, <2>1, <4>1, <4>2 DEF Known, ReadFile
      <3>3. QED
        BY <3>1, <3>2
    <2>2. ASSUME NEW f \in DOMAIN e, NEW file, file = e[f]
          PROVE  Known(f, file)'
      <3>1. f \in Files /\ f \in m.files
        BY <1>3
      <3>2. CASE m.kind \in {"open", "change"}
        BY <1>2, <1>3, <1>6, <2>2, <3>1, <3>2, SessionAssumption
        DEF Known, About, FromClient, TextOf
      <3>3. CASE m.kind \notin {"open", "change"}
        <4>1. openFiles'[f] = None
          BY <1>1, <1>3, <1>6, <3>1, <3>3 DEF About, FromClient, TextOf, IsEdit
        <4>2. QED
          BY <1>1, <1>3, <2>2, <3>3, <4>1 DEF Known, ReadFile
      <3>4. QED
        BY <3>2, <3>3
    <2>3. \A f \in Files : f \notin DOMAIN e /\ openFiles[f] = None => openFiles'[f] = None
      BY <1>3, <1>6 DEF About, FromClient
    <2>4. UNCHANGED <<unread, tcFiles, tasks, main, task>>
      BY <1>1
    <2>5. \A f \in Files : ~Has(preTask, f) /\ (Has(preTask', f) <=> f \in DOMAIN e)
      BY <1>4, <1>5 DEF Has, NoTask
    <2>6. QED
      BY <1>5, <2>1, <2>2, <2>3, <2>4, <2>5 DEF Texts, Has
  <1>14. QED
    BY <1>8, <1>9, <1>10, <1>11, <1>12, <1>13

\* `exit` ends the preprocessor, and only Watchman's messages are left.
LEMMA PreprocessExitKeeps ==
    ASSUME IInv, PreprocessExit
    PROVE  IInv'
  <1>1. /\ pre = "pops" /\ messages # <<>> /\ messages' = Tail(messages)
        /\ messages[1].kind = "exit"
        /\ terminated' /\ terminate' /\ pre' = "ended"
        /\ UNCHANGED <<worldVars, watchVars, reader, notified, initialized, openFiles,
                       preTask, tasks, paused, mainVars>>
    BY DEF PreprocessExit, NextMessage
  <1>2. MessageTypes' /\ Popped
    BY <1>1, PopTypes DEF IInv, Types
  <1> USE DEF IInv, worldVars, watchVars, mainVars
  <1>3. Types'
    <2>1. TaskTypes'
      BY <1>1 DEF Types, TaskTypes, IsTask
    <2>2. QED
      BY <1>1, <1>2, <2>1 DEF Types, WorldTypes
  <1>4. Handshake'
    BY <1>1, <1>2, PopHandshake
  <1>5. Stage'
    BY <1>1, StageFrame
  <1>6. Ending'
    <2>1. /\ client = "gone"
          /\ \A j \in 2 .. Len(messages) : messages[j].kind = "watchman"
      BY <1>1, <1>2, SMT DEF Handshake, Popped
    <2>2. \A i \in 1 .. Len(messages') : messages'[i].kind = "watchman"
      BY <1>2, <2>1 DEF Popped
    <2>3. UNCHANGED <<client, main, tasks>>
      BY <1>1
    <2>4. QED
      BY <1>1, <2>1, <2>2, <2>3 DEF Ending
  <1>7. Sent'
    BY <1>1, <1>2, PopSent DEF About, FromClient
  <1>8. Texts'
    BY <1>1, <1>2, PopPending, TextsFrame
  <1>9. QED
    BY <1>3, <1>4, <1>5, <1>6, <1>7, <1>8

\* ... and so does the end of the input.
LEMMA PreprocessorEndsKeeps ==
    ASSUME IInv, PreprocessorEnds
    PROVE  IInv'
  <1>1. /\ pre = "pops" /\ terminate /\ messages = <<>>
        /\ pre' = "ended" /\ terminated'
        /\ UNCHANGED <<worldVars, watchVars, messageVars, initialized, openFiles,
                       preTask, tasks, paused, mainVars>>
    BY DEF PreprocessorEnds, Drained
  <1> USE DEF IInv, worldVars, watchVars, messageVars, mainVars
  <1>2. Types'
    <2>1. TaskTypes'
      BY <1>1 DEF Types, TaskTypes, IsTask
    <2>2. QED
      BY <1>1, <2>1, MessageTypesFrame DEF Types, WorldTypes
  <1>3. Handshake'
    BY <1>1, SMT DEF Handshake
  <1>4. Stage'
    BY <1>1, StageFrame
  <1>5. Ending'
    BY <1>1, SMT DEF Ending
  <1>6. Sent'
    BY <1>1, SentFrame
  <1>7. Texts'
    BY <1>1, PendingFrame, TextsFrame
  <1>8. QED
    BY <1>2, <1>3, <1>4, <1>5, <1>6, <1>7

\* Over takes the newer file where there is one.
LEMMA OverType ==
    ASSUME NEW new, DOMAIN new \subseteq Files, new \in [DOMAIN new -> File],
           NEW old, DOMAIN old \subseteq Files, old \in [DOMAIN old -> File]
    PROVE  /\ DOMAIN Over(new, old) = DOMAIN new \cup DOMAIN old
           /\ Over(new, old) \in [DOMAIN Over(new, old) -> File]
           /\ \A f \in DOMAIN new \cup DOMAIN old :
                 Over(new, old)[f] = IF f \in DOMAIN new THEN new[f] ELSE old[f]
  BY DEF Over

\* mergeFileChanges: the newer edit's files over those of the older one.
LEMMA MergedFacts ==
    ASSUME NEW older, IsTask(older), older.kind = "edit",
           NEW newer, IsTask(newer), newer.kind = "edit"
    PROVE  /\ IsTask(Merged(older, newer))
           /\ Merged(older, newer).kind = "edit"
           /\ \A f \in Files : /\ Has(Merged(older, newer), f) <=> Has(older, f) \/ Has(newer, f)
                               /\ Has(newer, f) =>
                                    Merged(older, newer).files[f] = newer.files[f]
                               /\ Has(older, f) /\ ~Has(newer, f) =>
                                    Merged(older, newer).files[f] = older.files[f]
  <1> DEFINE fs == Over(newer.files, older.files)
  <1>1. /\ older \in Tasks /\ newer \in Tasks
        /\ \A f \in DOMAIN older.files : older.files[f].text \in Contents
        /\ \A f \in DOMAIN newer.files : newer.files[f].text \in Contents
    BY DEF IsTask
  <1>2. Merged(older, newer) = [kind |-> "edit", files |-> fs]
    <2>1. older = [kind |-> "edit", files |-> older.files]
      BY <1>1, TaskFields
    <2>2. QED
      BY <2>1, SMT DEF Merged
  <1>3. /\ DOMAIN fs = DOMAIN newer.files \cup DOMAIN older.files
        /\ DOMAIN fs \subseteq Files
        /\ fs \in [DOMAIN fs -> File]
        /\ \A f \in DOMAIN fs :
              fs[f] = IF f \in DOMAIN newer.files THEN newer.files[f] ELSE older.files[f]
    <2>1. /\ DOMAIN newer.files \subseteq Files /\ newer.files \in [DOMAIN newer.files -> File]
          /\ DOMAIN older.files \subseteq Files /\ older.files \in [DOMAIN older.files -> File]
      BY <1>1, TaskFields
    <2>2. QED
      BY <2>1 DEF Over
  <1> HIDE DEF fs
  <1>4. Merged(older, newer) \in Tasks
    BY <1>2, <1>3, FilesType
  <1>5. \A f \in DOMAIN fs : fs[f].text \in Contents
    BY <1>1, <1>3
  <1>6. QED
    BY <1>2, <1>3, <1>4, <1>5, SMT DEF IsTask, Has

\* What the queue looks like after preTask went into it.
LEMMA EnqueueFacts ==
    ASSUME TaskTypes, PreprocessorEnqueues
    PROVE  /\ tasks' \in Seq(Tasks)
           /\ Len(tasks) \in Nat /\ Len(tasks') \in {Len(tasks), Len(tasks) + 1}
           /\ Len(tasks') \in Nat \ {0}
           /\ \A i \in 1 .. Len(tasks') : IsTask(tasks'[i]) /\ tasks'[i] # NoTask
           /\ \A i \in 1 .. Len(tasks) : tasks'[i].kind = tasks[i].kind
           /\ \A i \in 1 .. Len(tasks) - 1 : tasks'[i] = tasks[i]
           /\ Len(tasks') = Len(tasks) + 1 =>
                 /\ tasks'[Len(tasks')] = preTask
                 /\ Len(tasks) # 0 => tasks'[Len(tasks)] = tasks[Len(tasks)]
           /\ Len(tasks') = Len(tasks) =>
                 /\ preTask.kind = "edit" /\ tasks[Len(tasks)].kind = "edit"
                 /\ tasks'[Len(tasks)] = Merged(tasks[Len(tasks)], preTask)
  <1> DEFINE n == Len(tasks)
  <1>1. /\ tasks \in Seq(Tasks) /\ n \in Nat
        /\ \A i \in 1 .. n : IsTask(tasks[i]) /\ tasks[i] # NoTask
        /\ IsTask(preTask) /\ preTask # NoTask /\ preTask \in Tasks
    BY SMT DEF TaskTypes, PreprocessorEnqueues, IsTask
  <1>2. CASE preTask.kind = "edit" /\ tasks # <<>> /\ tasks[n].kind = "edit"
    <2> DEFINE t == Merged(tasks[n], preTask)
    <2>1. n # 0
      BY <1>1, <1>2, SMT
    <2>2. tasks' = [tasks EXCEPT ![n] = t]
      BY <1>1, <1>2 DEF PreprocessorEnqueues
    <2>3. IsTask(t) /\ t.kind = "edit" /\ t \in Tasks
      <3>1. IsTask(t) /\ t.kind = "edit"
        BY <1>1, <1>2, <2>1, MergedFacts, SMT
      <3>2. QED
        BY <3>1 DEF IsTask
    <2>4. t # NoTask
      BY <2>3, SMT DEF NoTask
    <2> HIDE DEF t
    <2>5. /\ tasks' \in Seq(Tasks) /\ Len(tasks') = n
          /\ \A i \in 1 .. n : tasks'[i] = IF i = n THEN t ELSE tasks[i]
      BY <1>1, <2>2, <2>3, <2>1, SMT
    <2>6. /\ \A i \in 1 .. n : IsTask(tasks'[i]) /\ tasks'[i] # NoTask
          /\ \A i \in 1 .. n : tasks'[i].kind = tasks[i].kind
          /\ \A i \in 1 .. n - 1 : tasks'[i] = tasks[i]
          /\ tasks'[n] = t
      BY <1>1, <1>2, <2>3, <2>4, <2>5, <2>1, SMT
    <2>7. tasks'[n] = Merged(tasks[n], preTask)
      BY <2>6 DEF t
    <2>8. QED
      BY <1>1, <1>2, <2>5, <2>6, <2>7, <2>1, SMT
  <1>3. CASE ~(preTask.kind = "edit" /\ tasks # <<>> /\ tasks[n].kind = "edit")
    <2>1. tasks' = Append(tasks, preTask)
      BY <1>3 DEF PreprocessorEnqueues
    <2>2. /\ tasks' \in Seq(Tasks) /\ Len(tasks') = n + 1
          /\ \A i \in 1 .. n : tasks'[i] = tasks[i]
          /\ tasks'[n + 1] = preTask
      BY <1>1, <2>1, SMT
    <2>3. \A i \in 1 .. n + 1 : IsTask(tasks'[i]) /\ tasks'[i] # NoTask
      BY <1>1, <2>2, SMT
    <2> HIDE DEF n
    <2>4. QED
      BY <1>1, <2>2, <2>3, SMT DEF n
  <1>4. QED
    BY <1>2, <1>3

\* The task joins the queue, or the edit at its end.
LEMMA PreprocessorEnqueuesKeeps ==
    ASSUME IInv, PreprocessorEnqueues
    PROVE  IInv'
  <1> DEFINE n == Len(tasks)
             n2 == Len(tasks')
  <1>1. n \in Nat /\ n2 \in Nat \ {0} /\ n2 \in {n, n + 1}
    BY EnqueueFacts DEF IInv, Types
  <1>2. /\ tasks' \in Seq(Tasks)
        /\ \A i \in 1 .. n2 : IsTask(tasks'[i]) /\ tasks'[i] # NoTask
    BY EnqueueFacts DEF IInv, Types
  <1>3. \A i \in 1 .. n : tasks'[i].kind = tasks[i].kind
    BY EnqueueFacts DEF IInv, Types
  <1>4. \A i \in 1 .. n - 1 : tasks'[i] = tasks[i]
    BY EnqueueFacts DEF IInv, Types
  <1>5. n2 = n + 1 => tasks'[n2] = preTask /\ (n # 0 => tasks'[n] = tasks[n])
    BY EnqueueFacts DEF IInv, Types
  <1>6. n2 = n => /\ preTask.kind = "edit" /\ tasks[n].kind = "edit"
                  /\ tasks'[n] = Merged(tasks[n], preTask)
    BY EnqueueFacts DEF IInv, Types
  <1>7. /\ pre = "enqueues" /\ pre' = "pops" /\ preTask' = NoTask
        /\ UNCHANGED <<worldVars, watchVars, messageVars, initialized, openFiles, paused,
                       terminated, mainVars>>
        /\ IsTask(preTask) /\ \A i \in 1 .. n : IsTask(tasks[i])
    BY DEF PreprocessorEnqueues, IInv, Types, TaskTypes
  <1>8. IsTask(NoTask)
    BY HandshakeTask DEF NoTask
  <1> HIDE DEF n, n2
  <1> USE DEF IInv, worldVars, watchVars, messageVars, mainVars
  <1>9. Types'
    <2>1. TaskTypes'
      BY <1>1, <1>2, <1>7, <1>8 DEF Types, TaskTypes, IsTask, n2
    <2>2. QED
      BY <1>7, <2>1, MessageTypesFrame DEF Types, WorldTypes
  <1>10. Handshake'
    BY <1>7, SMT DEF Handshake
  <1>11. Stage'
    <2>1. UNCHANGED <<initialized, indexerReady, task, main, tcFiles, indexerFiles, unread>>
      BY <1>7
    <2>2. Early(preTask') /\ Later(preTask')
      BY <1>7 DEF Early, Later, NoTask
    <2>3. \A i \in 1 .. n2 : \/ i \in 1 .. n /\ tasks'[i].kind = tasks[i].kind
                             \/ i = n + 1 /\ tasks'[i] = preTask
      <3>1. \A i \in 1 .. n2 : i \in 1 .. n \/ (i = n2 /\ n2 = n + 1)
        BY <1>1, SMT
      <3>2. QED
        BY <1>3, <1>5, <3>1
    <2>4. CASE BeforeIt
      BY <2>1, <2>2, <2>3, <2>4 DEF Stage, BeforeIt, Early, NotInitializing, n, n2
    <2>5. CASE Enqueued
      <3>1. n2 = n + 1 /\ n2 \in 1 .. n2 /\ tasks'[n2].kind = "initialized"
        BY <1>1, <1>5, <1>6, <2>5, SMT DEF Enqueued
      <3>2. \A i \in 1 .. n2 - 1 : i \in 1 .. n /\ Early(tasks'[i])
        BY <1>1, <1>3, <2>5, <3>1, SMT DEF Enqueued, Early, n
      <3>3. \A i \in n2 + 1 .. n2 : Later(tasks'[i])
        BY <1>1, SMT
      <3>4. QED
        BY <2>1, <2>2, <2>5, <3>1, <3>2, <3>3 DEF Enqueued, Stage, Waiting, NotInitializing, n2,
           Early, Later
    <2>6. CASE Waiting
      <3>1. PICK k \in 1 .. n :
               /\ tasks[k].kind = "initialized"
               /\ \A i \in 1 .. k - 1 : Early(tasks[i])
               /\ \A i \in k + 1 .. n : Later(tasks[i])
        BY <2>6 DEF Waiting, n
      <3>2. /\ k \in 1 .. n2 /\ tasks'[k].kind = "initialized"
            /\ \A i \in 1 .. k - 1 : Early(tasks'[i])
        BY <1>1, <1>3, <3>1, SMT DEF Early
      <3>3. \A i \in k + 1 .. n2 : Later(tasks'[i])
        BY <1>1, <2>3, <2>6, <3>1, SMT DEF Later, Waiting
      <3>4. QED
        BY <2>1, <2>2, <2>6, <3>2, <3>3 DEF Stage, Waiting, NotInitializing, n2, Early, Later
    <2>7. CASE Running
      BY <2>1, <2>2, <2>3, <2>7 DEF Stage, Running, Later, n, n2
    <2>8. CASE Pushed
      <3>1. n # 0 /\ tasks[1] = tasks'[1]
        BY <1>1, <1>4, <1>5, <1>6, <2>8, SMT DEF Pushed, n
      <3>2. tasks' # <<>>
        BY <1>1, <1>2, SMT DEF n2
      <3>3. \A i \in 2 .. n2 : Later(tasks'[i])
        BY <1>1, <2>3, <2>8, SMT DEF Later, Pushed, n
      <3>4. QED
        BY <2>1, <2>2, <2>8, <3>1, <3>2, <3>3 DEF Stage, Pushed, n2, Later
    <2>9. CASE Giving
      BY <2>1, <2>2, <2>3, <2>9 DEF Stage, Giving, Later, n, n2
    <2>10. CASE Given
      BY <2>1, <2>2, <2>3, <2>10 DEF Stage, Given, Later, NotInitializing, n, n2
    <2>11. QED
      BY <2>4, <2>5, <2>6, <2>7, <2>8, <2>9, <2>10 DEF Stage
  <1>12. Ending'
    BY <1>7 DEF Ending
  <1>13. Sent'
    BY <1>7, SentFrame
  <1>14. Texts'
    <2>1. ASSUME NEW f \in Files
          PROVE  /\ \A i \in 1 .. n2 :
                       Has(tasks'[i], f) <=> \/ i \in 1 .. n /\ Has(tasks[i], f)
                                             \/ i = n2 /\ Has(preTask, f)
                 /\ Has(preTask, f) => tasks'[n2].files[f] = preTask.files[f]
                 /\ \A i \in 1 .. n :
                       Has(tasks[i], f) /\ ~Has(preTask, f) =>
                          tasks'[i].files[f] = tasks[i].files[f]
      <3>1. CASE n2 = n
        <4>1. /\ Has(tasks'[n], f) <=> Has(tasks[n], f) \/ Has(preTask, f)
              /\ Has(preTask, f) => tasks'[n].files[f] = preTask.files[f]
              /\ Has(tasks[n], f) /\ ~Has(preTask, f) =>
                    tasks'[n].files[f] = tasks[n].files[f]
          BY <1>1, <1>6, <1>7, <3>1, MergedFacts, SMTT(30)
        <4>2. QED
          BY <1>1, <1>4, <3>1, <4>1, SMTT(30)
      <3>2. CASE n2 = n + 1
        BY <1>1, <1>4, <1>5, <3>2, SMT
      <3>3. QED
        BY <1>1, <3>1, <3>2
    <2>2. ASSUME NEW f \in Files, NEW file, Known(f, file)
          PROVE  Known(f, file)'
      BY <1>7, <2>2, KnownKeeps, PendingFrame
    <2>3. UNCHANGED <<openFiles, unread, tcFiles, main, task>>
      BY <1>7
    <2>4. \A f : ~Has(preTask', f)
      BY <1>7 DEF Has, NoTask
    <2>5. SUFFICES ASSUME NEW f \in Files
          PROVE  /\ f \in unread => ~tcFiles[f].open
                 /\ \A i \in 1 .. n2 :
                       /\ Has(tasks'[i], f)
                       /\ \A j \in i + 1 .. n2 : ~Has(tasks'[j], f)
                       => Known(f, tasks[i].files[f])'
                 /\ (\A i \in 1 .. n2 : ~Has(tasks'[i], f)) =>
                       /\ main = "runs" /\ Has(task, f) => Known(f, task.files[f])'
                       /\ ~(main = "runs" /\ Has(task, f))
                             => \/ f \in unread /\ openFiles[f] = None
                                \/ Known(f, tcFiles[f])'
      BY <2>3, <2>4 DEF Texts, Has, n2
    <2>6. f \in unread => ~tcFiles[f].open
      BY DEF Texts
    <2>7. CASE Has(preTask, f)
      <3>1. Known(f, preTask.files[f])
        BY <2>7 DEF Texts
      <3>2. ASSUME NEW i, i = n2
            PROVE  Has(tasks'[i], f) /\ Known(f, tasks[i].files[f])'
        BY <1>1, <2>1, <2>2, <2>7, <3>1, <3>2, SMTT(30)
      <3>3. QED
        BY <1>1, <2>6, <3>2, SMT
    <2>8. CASE ~Has(preTask, f)
      <3>1. \A i \in 1 .. n2 : Has(tasks'[i], f) => i \in 1 .. n /\ Has(tasks[i], f)
                                                  /\ tasks'[i].files[f] = tasks[i].files[f]
        BY <1>1, <2>1, <2>8
      <3>2. QED
        BY <1>1, <2>1, <2>2, <2>3, <2>6, <2>8, <3>1, SMT DEF Texts, n
    <2>9. QED
      BY <2>7, <2>8
  <1>15. QED
    BY <1>9, <1>10, <1>11, <1>12, <1>13, <1>14

-----------------------------------------------------------------------------
(* The processing thread                                                   *)

\* The first task is gone.
PoppedTask ==
    /\ Len(tasks) \in Nat \ {0}
    /\ Len(tasks') = Len(tasks) - 1
    /\ \A i \in 1 .. Len(tasks') : i + 1 \in 2 .. Len(tasks) /\ tasks'[i] = tasks[i + 1]
    /\ \A i \in 2 .. Len(tasks) : i - 1 \in 1 .. Len(tasks') /\ tasks[i] = tasks'[i - 1]

\* The processing thread takes the first task.
LEMMA PopFacts ==
    ASSUME TaskTypes, Pop
    PROVE  /\ TaskTypes'
           /\ PoppedTask
           /\ tasks # <<>> /\ task' = tasks[1] /\ task = NoTask
           /\ main = "idle" /\ main' = "runs"
           /\ UNCHANGED <<worldVars, watchVars, messageVars, preVars, paused, terminated,
                          unread, tcFiles, indexerFiles, indexerReady>>
  <1>1. /\ tasks # <<>> /\ task' = tasks[1] /\ task = NoTask
        /\ main = "idle" /\ main' = "runs"
        /\ UNCHANGED <<worldVars, watchVars, messageVars, preVars, paused, terminated,
                       unread, tcFiles, indexerFiles, indexerReady>>
    BY DEF Pop, TaskTypes
  <1>2. tasks' \in Seq(Tasks) /\ PoppedTask
    BY TailFacts, SMT DEF Pop, TaskTypes, PoppedTask
  <1>3. TaskTypes'
    <2>1. IsTask(task') /\ \A i \in 1 .. Len(tasks') : IsTask(tasks'[i]) /\ tasks'[i] # NoTask
      BY <1>1, <1>2, SMT DEF TaskTypes, PoppedTask
    <2>2. QED
      BY <1>1, <1>2, <2>1 DEF TaskTypes, preVars, IsTask
  <1>4. QED
    BY <1>1, <1>2, <1>3

\* ... which, of the tasks with a text of a file, is the oldest.
LEMMA PopKeeps ==
    ASSUME IInv, Pop
    PROVE  IInv'
  <1>1. /\ tasks # <<>> /\ task' = tasks[1] /\ task = NoTask
        /\ main = "idle" /\ main' = "runs"
        /\ UNCHANGED <<worldVars, watchVars, messageVars, preVars, paused, terminated,
                       unread, tcFiles, indexerFiles, indexerReady>>
    BY PopFacts DEF IInv, Types
  <1>2. Len(tasks) \in Nat \ {0} /\ Len(tasks') = Len(tasks) - 1
    BY PopFacts DEF IInv, Types, PoppedTask
  <1>3. \A i \in 1 .. Len(tasks') : i + 1 \in 2 .. Len(tasks) /\ tasks'[i] = tasks[i + 1]
    BY PopFacts DEF IInv, Types, PoppedTask
  <1>4. \A i \in 2 .. Len(tasks) : i - 1 \in 1 .. Len(tasks') /\ tasks[i] = tasks'[i - 1]
    BY PopFacts DEF IInv, Types, PoppedTask
  <1>5. TaskTypes'
    BY PopFacts DEF IInv, Types
  <1> USE DEF IInv, worldVars, watchVars, messageVars, preVars
  <1>6. Types'
    BY <1>1, <1>5, MessageTypesFrame DEF Types, WorldTypes
  <1>7. Handshake'
    BY <1>1, HandshakeFrame
  <1>8. Stage'
    <2>1. 1 \in 1 .. Len(tasks)
      BY <1>2, SMT
    <2>2. /\ UNCHANGED <<initialized, preTask, unread, tcFiles, indexerFiles, indexerReady>>
          /\ task' = tasks[1] /\ main = "idle" /\ main' = "runs"
      BY <1>1
    <2>3. CASE BeforeIt
      BY <1>2, <1>3, <2>1, <2>2, <2>3, SMTT(30) DEF Stage, BeforeIt, Early, NotInitializing
    <2>4. CASE Enqueued
      BY <1>2, <1>3, <2>1, <2>2, <2>4, SMT DEF Stage, Enqueued, Early, NotInitializing
    <2>5. CASE Waiting
      <3>1. PICK k \in 1 .. Len(tasks) :
               /\ tasks[k].kind = "initialized"
               /\ \A i \in 1 .. k - 1 : Early(tasks[i])
               /\ \A i \in k + 1 .. Len(tasks) : Later(tasks[i])
        BY <2>5 DEF Waiting
      <3>2. CASE k = 1
        <4>1. \A i \in 1 .. Len(tasks') : Later(tasks'[i])
          BY <1>2, <1>3, <3>1, <3>2, SMTT(30)
        <4>2. QED
          BY <2>2, <2>5, <3>1, <3>2, <4>1, SMTT(30) DEF Stage, Waiting, Running, Later
      <3>3. CASE k # 1
        <4>1. Early(task')
          BY <2>2, <3>1, <3>3, SMTT(30) DEF Early
        <4>2. PICK n \in 1 .. Len(tasks') : n = k - 1 /\ tasks'[n] = tasks[k]
          BY <1>2, <1>4, <3>1, <3>3, SMT
        <4>3. ASSUME NEW i \in 1 .. n - 1
              PROVE  Early(tasks'[i])
          <5>1. i + 1 \in 1 .. k - 1 /\ tasks'[i] = tasks[i + 1]
            BY <1>2, <1>3, <4>2, SMT
          <5>2. QED
            BY <3>1, <5>1
        <4>4. \A i \in n + 1 .. Len(tasks') : Later(tasks'[i])
          BY <1>2, <1>3, <3>1, <4>2, SMTT(30)
        <4>5. QED
          <5>1. \E l \in 1 .. Len(tasks') :
                   /\ tasks'[l].kind = "initialized"
                   /\ \A i \in 1 .. l - 1 : Early(tasks'[i])
                   /\ \A i \in l + 1 .. Len(tasks') : Later(tasks'[i])
            BY <3>1, <4>2, <4>3, <4>4
          <5>2. initialized' /\ ~indexerReady' /\ Later(preTask') /\ NotInitializing'
            BY <2>2, <2>5 DEF Waiting, Later, NotInitializing
          <5>3. QED
            BY <4>1, <5>1, <5>2 DEF Stage, Waiting, Early, Later
      <3>4. QED
        BY <3>2, <3>3
    <2>6. CASE Pushed
      <3>1. \A i \in 1 .. Len(tasks') : Later(tasks'[i])
        BY <1>2, <1>3, <2>6 DEF Pushed
      <3>2. QED
        BY <2>2, <2>6, <3>1, SMT DEF Stage, Pushed, Giving, Later
    <2>7. CASE Given
      <3>1. Later(task') /\ \A i \in 1 .. Len(tasks') : Later(tasks'[i])
        BY <1>2, <1>3, <2>1, <2>2, <2>7, SMT DEF Given
      <3>2. QED
        BY <2>2, <2>7, <3>1 DEF Stage, Given, Later, NotInitializing
    <2>8. QED
      BY <1>1, <2>3, <2>4, <2>5, <2>6, <2>7 DEF Stage, Running, Giving
  <1>9. Ending'
    BY <1>1 DEF Ending
  <1>10. Sent'
    BY <1>1, SentFrame
  <1>11. Texts'
    <2>1. ASSUME NEW f \in Files, NEW file, Known(f, file)
          PROVE  Known(f, file)'
      BY <1>1, <2>1, KnownKeeps, PendingFrame
    <2>2. UNCHANGED <<openFiles, unread, tcFiles, preTask>>
      BY <1>1
    <2>3. SUFFICES ASSUME NEW f \in Files
          PROVE  /\ f \in unread => ~tcFiles[f].open
                 /\ Has(preTask, f) => Known(f, preTask.files[f])'
                 /\ ~Has(preTask, f) =>
                       /\ \A i \in 1 .. Len(tasks') :
                             /\ Has(tasks'[i], f)
                             /\ \A j \in i + 1 .. Len(tasks') : ~Has(tasks'[j], f)
                             => Known(f, tasks[i].files[f])'
                       /\ (\A i \in 1 .. Len(tasks') : ~Has(tasks'[i], f)) =>
                             /\ Has(task', f) => Known(f, task.files[f])'
                             /\ ~Has(task', f) => \/ f \in unread /\ openFiles[f] = None
                                                  \/ Known(f, tcFiles[f])'
      BY <1>1, <2>2 DEF Texts, Has
    <2>4. /\ f \in unread => ~tcFiles[f].open
          /\ Has(preTask, f) => Known(f, preTask.files[f])'
      BY <2>1, <2>2 DEF Texts
    <2>5. ASSUME ~Has(preTask, f), NEW i \in 1 .. Len(tasks'), Has(tasks'[i], f),
                 \A j \in i + 1 .. Len(tasks') : ~Has(tasks'[j], f)
          PROVE  Known(f, tasks[i].files[f])'
      <3>1. PICK k \in 1 .. Len(tasks) : k = i + 1 /\ tasks'[i] = tasks[k]
        BY <1>2, <1>3, SMT
      <3>2. ASSUME NEW j \in k + 1 .. Len(tasks)
            PROVE  ~Has(tasks[j], f)
        <4>1. j \in 2 .. Len(tasks) /\ j - 1 \in i + 1 .. Len(tasks')
          BY <1>2, <3>1, SMT
        <4>2. tasks[j] = tasks'[j - 1]
          BY <1>4, <4>1
        <4>3. QED
          BY <2>5, <4>1, <4>2
      <3>3. Known(f, tasks[k].files[f])
        BY <2>5, <3>1, <3>2 DEF Texts
      <3>4. QED
        BY <2>1, <3>1, <3>3
    <2>6. ASSUME ~Has(preTask, f), \A i \in 1 .. Len(tasks') : ~Has(tasks'[i], f)
          PROVE  /\ Has(task', f) => Known(f, task.files[f])'
                 /\ ~Has(task', f) => \/ f \in unread /\ openFiles[f] = None
                                      \/ Known(f, tcFiles[f])'
      <3>1. 1 \in 1 .. Len(tasks) /\ \A j \in 2 .. Len(tasks) : ~Has(tasks[j], f)
        BY <1>2, <1>4, <2>6, SMT
      <3>2. CASE Has(tasks[1], f)
        <4>1. Known(f, tasks[1].files[f])
          BY <2>6, <3>1, <3>2, SMT DEF Texts
        <4>2. QED
          BY <1>1, <2>1, <3>2, <4>1
      <3>3. CASE ~Has(tasks[1], f)
        <4>1. \A j \in 1 .. Len(tasks) : ~Has(tasks[j], f)
          BY <3>1, <3>3, SMT
        <4>2. (f \in unread /\ openFiles[f] = None) \/ Known(f, tcFiles[f])
          BY <1>1, <2>6, <4>1 DEF Texts
        <4>3. QED
          BY <1>1, <2>1, <2>2, <3>3, <4>2
      <3>4. QED
        BY <3>2, <3>3
    <2>7. QED
      BY <2>4, <2>5, <2>6
  <1>12. QED
    BY <1>6, <1>7, <1>8, <1>9, <1>10, <1>11

\* initialize changes no file.
LEMMA RunInitializeKeeps ==
    ASSUME IInv, RunInitialize
    PROVE  IInv'
  <1>1. /\ main = "runs" /\ task.kind = "initialize" /\ main' = "after"
        /\ client' = IF client = "waits" THEN "answered" ELSE client
        /\ UNCHANGED <<events, disk, buffer, watchVars, messageVars, preVars, queueVars, task,
                       unread, tcFiles, indexerFiles, indexerReady>>
    BY DEF RunInitialize, Runs
  <1> USE DEF IInv, watchVars, messageVars, preVars, queueVars
  <1>2. Types'
    <2>1. TaskTypes'
      BY <1>1 DEF Types, TaskTypes, IsTask
    <2>2. QED
      BY <1>1, <2>1, MessageTypesFrame DEF Types, WorldTypes
  <1>3. Handshake'
    BY <1>1, SMT DEF Handshake
  <1>4. Stage'
    BY <1>1 DEF Stage, BeforeIt, Enqueued, Waiting, Running, Pushed, Giving, Given, Early, Later,
                NotInitializing
  <1>5. Ending'
    BY <1>1 DEF Ending
  <1>6. Sent'
    BY <1>1, SentFrame
  <1>7. Texts'
    <2>1. ASSUME NEW f \in Files, NEW file, Known(f, file)
          PROVE  Known(f, file)'
      BY <1>1, <2>1, KnownKeeps, PendingFrame
    <2>2. UNCHANGED <<openFiles, unread, tcFiles, preTask, tasks, task>>
      BY <1>1
    <2>3. QED
      BY <1>1, <2>1, <2>2 DEF Texts, Has
  <1>8. QED
    BY <1>2, <1>3, <1>4, <1>5, <1>6, <1>7

\* The typechecker begins to read the files of the workspace.
LEMMA IndexInitializedKeeps ==
    ASSUME IInv, IndexInitialized
    PROVE  IInv'
  <1>1. /\ main = "runs" /\ task.kind = "initialized" /\ main' = "initializes"
        /\ UNCHANGED <<worldVars, watchVars, messageVars, preVars, tasks, terminated, task,
                       unread, tcFiles, indexerFiles, indexerReady>>
    BY DEF IndexInitialized, Runs
  <1> USE DEF IInv, worldVars, watchVars, messageVars, preVars
  <1>2. Types'
    <2>1. TaskTypes'
      BY <1>1 DEF Types, TaskTypes, IsTask
    <2>2. QED
      BY <1>1, <2>1, MessageTypesFrame DEF Types, WorldTypes
  <1>3. Handshake'
    BY <1>1, HandshakeFrame
  <1>4. Stage'
    BY <1>1 DEF Stage, BeforeIt, Enqueued, Waiting, Running, Pushed, Giving, Given, Early, Later
  <1>5. Ending'
    BY <1>1 DEF Ending
  <1>6. Sent'
    BY <1>1, SentFrame
  <1>7. Texts'
    <2>1. ASSUME NEW f \in Files, NEW file, Known(f, file)
          PROVE  Known(f, file)'
      BY <1>1, <2>1, KnownKeeps, PendingFrame
    <2>2. UNCHANGED <<openFiles, unread, tcFiles, preTask, tasks, task>>
      BY <1>1
    <2>3. QED
      BY <1>1, <2>1, <2>2 DEF Texts, Has
  <1>8. QED
    BY <1>2, <1>3, <1>4, <1>5, <1>6, <1>7

\* ... reads each as it is on disk,
LEMMA InitializeReadsKeeps ==
    ASSUME IInv, NEW f \in Files, InitializeReads(f)
    PROVE  IInv'
  <1> DEFINE file == [text |-> ReadFile(f), open |-> FALSE]
  <1>1. /\ main = "initializes" /\ f \in unread
        /\ unread' = unread \ {f}
        /\ tcFiles' = [tcFiles EXCEPT ![f] = file]
        /\ unseen' = IF Queued(f) THEN unseen ELSE unseen \ {f}
        /\ UNCHANGED <<worldVars, watchman, failed, changed, told, messageVars, preVars,
                       queueVars, main, task, indexerFiles, indexerReady>>
    BY DEF InitializeReads
  <1>2. file \in File /\ file.text = ReadFile(f) /\ ~file.open
    BY ReadFileType DEF IInv, Types, File
  <1> HIDE DEF file
  <1>3. /\ tcFiles' \in FileTable
        /\ tcFiles'[f] = file
        /\ \A g \in Files : g # f => tcFiles'[g] = tcFiles[g]
    BY <1>1, <1>2 DEF IInv, Types, WorldTypes, FileTable
  <1> USE DEF IInv, worldVars, messageVars, preVars, queueVars
  <1>4. /\ unseen' \subseteq Files /\ unread' \subseteq Files
        /\ \A g \in Files :
              g # f => (g \in unseen <=> g \in unseen') /\ (g \in unread <=> g \in unread')
        /\ f \notin unread'
        /\ Queued(f) => unseen' = unseen
    BY <1>1 DEF Types, WorldTypes
  <1>5. Types'
    <2>1. TaskTypes'
      BY <1>1, TaskTypesFrame DEF Types
    <2>2. QED
      BY <1>1, <1>3, <1>4, <2>1, MessageTypesFrame DEF Types, WorldTypes
  <1>6. Handshake'
    BY <1>1, HandshakeFrame
  <1>7. Running
    BY <1>1 DEF Stage, BeforeIt, Enqueued, Waiting, Pushed, Giving, Given, NotInitializing
  <1>8. Stage'
    BY <1>1, <1>7 DEF Stage, Running, Later
  <1>9. Ending'
    BY <1>1, EndingFrame
  <1>10. Sent'
    BY <1>1, SentFrame
  <1>11. Texts'
    <2>1. Queued(f) <=> Has(preTask, f) \/ \E i \in 1 .. Len(tasks) : Has(tasks[i], f)
      <3>1. /\ IsTask(preTask) /\ \A i \in 1 .. Len(tasks) : IsTask(tasks[i])
            /\ Later(preTask) /\ \A i \in 1 .. Len(tasks) : Later(tasks[i])
        BY <1>7 DEF Types, TaskTypes, Running
      <3>2. ASSUME NEW t, IsTask(t), Later(t)
            PROVE  Has(t, f) <=> f \in DOMAIN t.files
        BY <3>2 DEF Has, IsTask, Later, NoFiles
      <3>3. QED
        BY <3>1, <3>2 DEF Queued
    <2>2. ASSUME NEW g \in Files, g # f \/ Queued(f), NEW v, Known(g, v)
          PROVE  Known(g, v)'
      <3>1. Pending(g) => Pending(g)'
        BY <1>1, <1>4, <2>2 DEF Pending
      <3>2. QED
        BY <1>1, <2>2, <3>1, KnownKeeps
    <2>3. ~Has(task, f) /\ \A g : ~Has(task, g)
      BY <1>7 DEF Has, Running
    <2>4. UNCHANGED <<openFiles, disk, main, preTask, tasks, task>>
      BY <1>1
    <2>5. SUFFICES ASSUME NEW g \in Files
          PROVE  /\ g \in unread' => ~tcFiles'[g].open
                 /\ Has(preTask, g) => Known(g, preTask.files[g])'
                 /\ ~Has(preTask, g) =>
                       /\ \A i \in 1 .. Len(tasks) :
                             /\ Has(tasks[i], g)
                             /\ \A j \in i + 1 .. Len(tasks) : ~Has(tasks[j], g)
                             => Known(g, tasks[i].files[g])'
                       /\ (\A i \in 1 .. Len(tasks) : ~Has(tasks[i], g)) =>
                             \/ g \in unread' /\ openFiles[g] = None
                             \/ Known(g, tcFiles[g])'
      BY <2>3, <2>4 DEF Texts, Has
    <2>6. CASE g # f
      BY <1>3, <1>4, <2>2, <2>3, <2>4, <2>6 DEF Texts
    <2>7. CASE g = f /\ Queued(f)
      BY <1>4, <2>1, <2>2, <2>4, <2>7 DEF Texts
    <2>8. CASE g = f /\ ~Queued(f)
      <3>1. openFiles[f] = None
        <4>1. \/ f \in unread /\ openFiles[f] = None
              \/ Known(f, tcFiles[f]) /\ ~tcFiles[f].open
          BY <1>1, <2>1, <2>3, <2>8 DEF Texts
        <4>2. QED
          BY <4>1 DEF Known
      <3>2. Known(f, tcFiles[f])'
        BY <1>2, <1>3, <2>4, <3>1 DEF Known, ReadFile
      <3>3. QED
        BY <1>4, <2>1, <2>8, <3>2
    <2>9. QED
      BY <2>6, <2>7, <2>8
  <1>12. QED
    BY <1>5, <1>6, <1>8, <1>9, <1>10, <1>11

\* ... and pushes the task of the indexer to the front of the queue,
LEMMA PushFacts ==
    ASSUME TaskTypes, tcFiles \in FileTable, InitializeEnds
    PROVE  /\ tasks' \in Seq(Tasks)
           /\ Len(tasks) \in Nat /\ Len(tasks') = Len(tasks) + 1
           /\ tasks'[1].kind = "indexerInitialization" /\ tasks'[1].files = tcFiles
           /\ IsTask(tasks'[1]) /\ tasks'[1] # NoTask
           /\ \A i \in 2 .. Len(tasks') : i - 1 \in 1 .. Len(tasks) /\ tasks'[i] = tasks[i - 1]
           /\ \A i \in 1 .. Len(tasks) : i + 1 \in 2 .. Len(tasks') /\ tasks'[i + 1] = tasks[i]
  <1> DEFINE t == [kind |-> "indexerInitialization", files |-> tcFiles]
  <1>1. tasks' = <<t>> \o tasks
    BY DEF InitializeEnds, WithIndexerInitialization
  <1>2. t \in Tasks /\ t.kind = "indexerInitialization" /\ t.files = tcFiles
    BY FilesType DEF FileTable
  <1>3. IsTask(t) /\ t # NoTask
    BY <1>2 DEF IsTask, NoTask
  <1>4. tasks \in Seq(Tasks)
    BY DEF TaskTypes
  <1> HIDE DEF t
  <1>5. /\ tasks' \in Seq(Tasks)
        /\ Len(tasks) \in Nat /\ Len(tasks') = Len(tasks) + 1
        /\ tasks'[1] = t
        /\ \A i \in 2 .. Len(tasks') : i - 1 \in 1 .. Len(tasks) /\ tasks'[i] = tasks[i - 1]
        /\ \A i \in 1 .. Len(tasks) : i + 1 \in 2 .. Len(tasks') /\ tasks'[i + 1] = tasks[i]
    BY <1>1, <1>2, <1>4, SMT
  <1>6. QED
    BY <1>2, <1>3, <1>5

\* ... with what it read, before any edit runs.
LEMMA InitializeEndsKeeps ==
    ASSUME IInv, InitializeEnds
    PROVE  IInv'
  <1>1. /\ main = "initializes" /\ unread = {} /\ main' = "resumes"
        /\ UNCHANGED <<worldVars, watchVars, messageVars, preVars, paused, terminated, task,
                       unread, tcFiles, indexerFiles, indexerReady>>
    BY DEF InitializeEnds
  <1>2. /\ tasks' \in Seq(Tasks)
        /\ tasks'[1].kind = "indexerInitialization" /\ tasks'[1].files = tcFiles
        /\ IsTask(tasks'[1]) /\ tasks'[1] # NoTask
    BY PushFacts DEF IInv, Types, WorldTypes
  <1>3. Len(tasks) \in Nat /\ Len(tasks') = Len(tasks) + 1
    BY PushFacts DEF IInv, Types, WorldTypes
  <1>4. \A i \in 2 .. Len(tasks') : i - 1 \in 1 .. Len(tasks) /\ tasks'[i] = tasks[i - 1]
    BY PushFacts DEF IInv, Types, WorldTypes
  <1>5. \A i \in 1 .. Len(tasks) : i + 1 \in 2 .. Len(tasks') /\ tasks'[i + 1] = tasks[i]
    BY PushFacts DEF IInv, Types, WorldTypes
  <1> USE DEF IInv, worldVars, watchVars, messageVars, preVars
  <1>6. Types'
    <2>1. \A i \in 1 .. Len(tasks') : IsTask(tasks'[i]) /\ tasks'[i] # NoTask
      <3>1. \A i \in 1 .. Len(tasks') : i = 1 \/ i \in 2 .. Len(tasks')
        BY <1>3, SMT
      <3>2. QED
        BY <1>2, <1>4, <3>1 DEF Types, TaskTypes
    <2>2. TaskTypes'
      BY <1>1, <1>2, <2>1 DEF Types, TaskTypes, IsTask
    <2>3. QED
      BY <1>1, <2>2, MessageTypesFrame DEF Types, WorldTypes
  <1>7. Handshake'
    BY <1>1, HandshakeFrame
  <1>8. Running
    BY <1>1 DEF Stage, BeforeIt, Enqueued, Waiting, Pushed, Giving, Given, NotInitializing
  <1>9. Stage'
    <2>1. tasks' # <<>>
      BY <1>2, <1>3, SMT
    <2>2. \A i \in 2 .. Len(tasks') : Later(tasks'[i])
      BY <1>4, <1>8 DEF Running
    <2>3. QED
      BY <1>1, <1>2, <1>8, <2>1, <2>2 DEF Stage, Running, Pushed, Later
  <1>10. Ending'
    BY <1>1 DEF Ending
  <1>11. Sent'
    BY <1>1, SentFrame
  <1>12. Texts'
    <2>1. ASSUME NEW f \in Files, NEW file, Known(f, file)
          PROVE  Known(f, file)'
      BY <1>1, <2>1, KnownKeeps, PendingFrame
    <2>2. UNCHANGED <<openFiles, unread, tcFiles, preTask, task>>
      BY <1>1
    <2>3. SUFFICES ASSUME NEW f \in Files
          PROVE  /\ f \in unread => ~tcFiles[f].open
                 /\ Has(preTask, f) => Known(f, preTask.files[f])'
                 /\ ~Has(preTask, f) =>
                       /\ \A i \in 1 .. Len(tasks') :
                             /\ Has(tasks'[i], f)
                             /\ \A j \in i + 1 .. Len(tasks') : ~Has(tasks'[j], f)
                             => Known(f, tasks[i].files[f])'
                       /\ (\A i \in 1 .. Len(tasks') : ~Has(tasks'[i], f)) =>
                             \/ f \in unread /\ openFiles[f] = None
                             \/ Known(f, tcFiles[f])'
      BY <1>1, <2>2 DEF Texts, Has
    <2>4. /\ f \in unread => ~tcFiles[f].open
          /\ Has(preTask, f) => Known(f, preTask.files[f])'
      BY <2>1, <2>2 DEF Texts
    <2>5. ASSUME ~Has(preTask, f), NEW i \in 1 .. Len(tasks'), Has(tasks'[i], f),
                 \A j \in i + 1 .. Len(tasks') : ~Has(tasks'[j], f)
          PROVE  Known(f, tasks[i].files[f])'
      <3>1. i # 1
        BY <1>2, <2>5 DEF Has
      <3>2. PICK k \in 1 .. Len(tasks) : k = i - 1 /\ tasks'[i] = tasks[k]
        BY <1>3, <1>4, <3>1, SMT
      <3>3. ASSUME NEW j \in k + 1 .. Len(tasks)
            PROVE  ~Has(tasks[j], f)
        <4>1. j \in 1 .. Len(tasks) /\ j + 1 \in i + 1 .. Len(tasks')
          BY <1>3, <3>2, SMT
        <4>2. QED
          BY <1>5, <2>5, <4>1
      <3>4. Known(f, tasks[k].files[f])
        BY <2>5, <3>2, <3>3 DEF Texts
      <3>5. QED
        BY <2>1, <3>2, <3>4
    <2>6. ASSUME ~Has(preTask, f), \A i \in 1 .. Len(tasks') : ~Has(tasks'[i], f)
          PROVE  \/ f \in unread /\ openFiles[f] = None
                 \/ Known(f, tcFiles[f])'
      <3>1. \A j \in 1 .. Len(tasks) : ~Has(tasks[j], f)
        BY <1>3, <1>5, <2>6, SMT
      <3>2. (f \in unread /\ openFiles[f] = None) \/ Known(f, tcFiles[f])
        BY <1>1, <2>6, <3>1 DEF Texts
      <3>3. QED
        BY <2>1, <2>2, <3>2
    <2>7. QED
      BY <2>4, <2>5, <2>6
  <1>13. QED
    BY <1>6, <1>7, <1>9, <1>10, <1>11, <1>12

\* The queue is resumed.
LEMMA ResumeTaskQueueKeeps ==
    ASSUME IInv, ResumeTaskQueue
    PROVE  IInv'
  <1>1. /\ main = "resumes" /\ main' = "after"
        /\ UNCHANGED <<worldVars, watchVars, messageVars, preVars, tasks, terminated, task,
                       unread, tcFiles, indexerFiles, indexerReady>>
    BY DEF ResumeTaskQueue
  <1> USE DEF IInv, worldVars, watchVars, messageVars, preVars
  <1>2. Types'
    <2>1. TaskTypes'
      BY <1>1 DEF Types, TaskTypes, IsTask
    <2>2. QED
      BY <1>1, <2>1, MessageTypesFrame DEF Types, WorldTypes
  <1>3. Handshake'
    BY <1>1, HandshakeFrame
  <1>4. Stage'
    BY <1>1 DEF Stage, BeforeIt, Enqueued, Waiting, Running, Pushed, Giving, Given, Later,
                NotInitializing
  <1>5. Ending'
    BY <1>1 DEF Ending
  <1>6. Sent'
    BY <1>1, SentFrame
  <1>7. Texts'
    <2>1. ASSUME NEW f \in Files, NEW file, Known(f, file)
          PROVE  Known(f, file)'
      BY <1>1, <2>1, KnownKeeps, PendingFrame
    <2>2. UNCHANGED <<openFiles, unread, tcFiles, preTask, tasks, task>>
      BY <1>1
    <2>3. QED
      BY <1>1, <2>1, <2>2 DEF Texts, Has
  <1>8. QED
    BY <1>2, <1>3, <1>4, <1>5, <1>6, <1>7

\* The indexer takes the typechecker's files over.
LEMMA RunIndexerInitializationKeeps ==
    ASSUME IInv, RunIndexerInitialization
    PROVE  IInv'
  <1>1. /\ main = "runs" /\ task.kind = "indexerInitialization" /\ main' = "after"
        /\ indexerFiles' = task.files /\ indexerReady'
        /\ UNCHANGED <<worldVars, watchVars, messageVars, preVars, queueVars, task, unread,
                       tcFiles>>
    BY DEF RunIndexerInitialization, Runs
  <1>2. Giving
    BY <1>1 DEF IInv, Stage, BeforeIt, Enqueued, Waiting, Running, Pushed, Given, Early, Later
  <1>3. indexerFiles' = tcFiles /\ indexerFiles' \in FileTable
    BY <1>1, <1>2 DEF Giving, IInv, Types, WorldTypes
  <1> USE DEF IInv, worldVars, watchVars, messageVars, preVars, queueVars
  <1>4. Types'
    <2>1. TaskTypes'
      BY <1>1 DEF Types, TaskTypes, IsTask
    <2>2. QED
      BY <1>1, <1>3, <2>1, MessageTypesFrame DEF Types, WorldTypes
  <1>5. Handshake'
    BY <1>1, HandshakeFrame
  <1>6. Stage'
    BY <1>1, <1>2, <1>3 DEF Stage, Giving, Given, Later, NotInitializing
  <1>7. Ending'
    BY <1>1 DEF Ending
  <1>8. Sent'
    BY <1>1, SentFrame
  <1>9. Texts'
    <2>1. ASSUME NEW f \in Files, NEW file, Known(f, file)
          PROVE  Known(f, file)'
      BY <1>1, <2>1, KnownKeeps, PendingFrame
    <2>2. UNCHANGED <<openFiles, unread, tcFiles, preTask, tasks, task>>
      BY <1>1
    <2>3. QED
      BY <1>1, <2>1, <2>2 DEF Texts, Has
  <1>10. QED
    BY <1>4, <1>5, <1>6, <1>7, <1>8, <1>9

\* An edit changes the files of indexer and typechecker alike.
LEMMA RunEditKeeps ==
    ASSUME IInv, RunEdit
    PROVE  IInv'
  <1>1. /\ main = "runs" /\ task.kind = "edit" /\ main' = "after"
        /\ indexerFiles' = Over(task.files, indexerFiles)
        /\ tcFiles' = Over(task.files, tcFiles)
        /\ UNCHANGED <<worldVars, watchVars, messageVars, preVars, queueVars, task, unread,
                       indexerReady>>
    BY DEF RunEdit, Runs
  <1>2. Given
    BY <1>1 DEF IInv, Stage, BeforeIt, Enqueued, Waiting, Running, Pushed, Giving, Early
  <1>3. indexerFiles' = tcFiles' /\ unread = {}
    BY <1>1, <1>2 DEF Given
  <1>4. /\ tcFiles' \in FileTable
        /\ \A f \in Files : tcFiles'[f] = IF Has(task, f) THEN task.files[f] ELSE tcFiles[f]
    <2>1. /\ task \in Tasks
          /\ tcFiles \in [Files -> File] /\ DOMAIN tcFiles = Files
      BY DEF IInv, Types, TaskTypes, WorldTypes, IsTask, FileTable
    <2>2. DOMAIN task.files \subseteq Files /\ task.files \in [DOMAIN task.files -> File]
      BY <2>1, TaskFields
    <2>3. \A f \in Files : Has(task, f) <=> f \in DOMAIN task.files
      BY <1>1 DEF Has
    <2>4. QED
      BY <1>1, <2>1, <2>2, <2>3 DEF Over, FileTable
  <1> USE DEF IInv, worldVars, watchVars, messageVars, preVars, queueVars
  <1>5. Types'
    <2>1. TaskTypes'
      BY <1>1 DEF Types, TaskTypes, IsTask
    <2>2. QED
      BY <1>1, <1>3, <1>4, <2>1, MessageTypesFrame DEF Types, WorldTypes
  <1>6. Handshake'
    BY <1>1, HandshakeFrame
  <1>7. Stage'
    <2>1. UNCHANGED <<initialized, indexerReady, preTask, tasks, unread>> /\ main' = "after"
      BY <1>1
    <2>2. QED
      BY <1>2, <1>3, <2>1 DEF Stage, Given, Later, NotInitializing
  <1>8. Ending'
    BY <1>1 DEF Ending
  <1>9. Sent'
    BY <1>1, SentFrame
  <1>10. Texts'
    <2>1. ASSUME NEW f \in Files, NEW file, Known(f, file)
          PROVE  Known(f, file)'
      BY <1>1, <2>1, KnownKeeps, PendingFrame
    <2>2. UNCHANGED <<openFiles, unread, preTask, tasks, task>> /\ main = "runs" /\ main' = "after"
      BY <1>1
    <2>3. \A f \in Files : /\ Has(task, f) => tcFiles'[f] = task.files[f]
                           /\ ~Has(task, f) => tcFiles'[f] = tcFiles[f]
      BY <1>4
    <2>4. Texts /\ unread = {}
      BY <1>3
    <2>5. QED
      BY <2>1, <2>2, <2>3, <2>4 DEF Texts, Has
  <1>11. QED
    BY <1>5, <1>6, <1>7, <1>8, <1>9, <1>10

\* The rest of the loop's body changes no file.
LEMMA AfterTaskKeeps ==
    ASSUME IInv, AfterTask
    PROVE  IInv'
  <1>1. /\ main = "after" /\ main' = "idle" /\ task' = NoTask
        /\ notified' <=> (notified \/ initialized)
        /\ UNCHANGED <<worldVars, watchVars, reader, messages, terminate, preVars, queueVars,
                       unread, tcFiles, indexerFiles, indexerReady>>
    BY DEF AfterTask
  <1>2. IsTask(NoTask)
    BY HandshakeTask DEF NoTask
  <1> USE DEF IInv, worldVars, watchVars, preVars, queueVars
  <1>3. Types'
    <2>1. TaskTypes'
      BY <1>1, <1>2 DEF Types, TaskTypes, IsTask
    <2>2. QED
      BY <1>1, <2>1, MessageTypesFrame DEF Types, WorldTypes
  <1>4. Handshake'
    <2>1. /\ UNCHANGED <<messages, initialized, client, pre>>
          /\ notified' => notified \/ initialized
      BY <1>1
    <2>2. QED
      BY <2>1, HandshakeFrame
  <1>5. Stage'
    <2>1. UNCHANGED <<initialized, indexerReady, preTask, tasks, tcFiles, indexerFiles, unread>>
      BY <1>1
    <2>2. main = "after" /\ main' = "idle" /\ task'.kind = "none"
      BY <1>1, SMT DEF NoTask
    <2>3. Stage
      OBVIOUS
    <2>4. CASE BeforeIt
      BY <2>1, <2>2, <2>4 DEF Stage, BeforeIt, Early, Later, NotInitializing
    <2>5. CASE Enqueued
      BY <2>1, <2>2, <2>5 DEF Stage, Enqueued, Early, Later, NotInitializing
    <2>6. CASE Waiting
      BY <2>1, <2>2, <2>6 DEF Stage, Waiting, Early, Later, NotInitializing
    <2>7. CASE Pushed
      BY <2>1, <2>2, <2>7 DEF Stage, Pushed, Early, Later, NotInitializing
    <2>8. CASE Given
      BY <2>1, <2>2, <2>8 DEF Stage, Given, Early, Later, NotInitializing
    <2>9. QED
      BY <2>2, <2>3, <2>4, <2>5, <2>6, <2>7, <2>8 DEF Stage, Running, Giving
  <1>6. Ending'
    BY <1>1 DEF Ending
  <1>7. Sent'
    BY <1>1, SentFrame
  <1>8. Texts'
    <2>1. ASSUME NEW f \in Files, NEW file, Known(f, file)
          PROVE  Known(f, file)'
      BY <1>1, <2>1, KnownKeeps, PendingFrame
    <2>2. UNCHANGED <<openFiles, unread, tcFiles, preTask, tasks>>
      BY <1>1
    <2>3. QED
      BY <1>1, <2>1, <2>2 DEF Texts, Has
  <1>9. QED
    BY <1>3, <1>4, <1>5, <1>6, <1>7, <1>8

\* The loop ends when the preprocessor has, with no task left, and the threads are
\* joined.
LEMMA LeaveLoopKeeps ==
    ASSUME IInv, LeaveLoop \/ Join
    PROVE  IInv'
  <1>1. /\ main \in {"idle", "joinPreprocessor", "joinReader", "joinWatchman"}
        /\ main' \in {"joinPreprocessor", "joinReader", "joinWatchman", "done"}
        /\ UNCHANGED <<worldVars, watchVars, reader, messages, preVars, queueVars, task,
                       unread, tcFiles, indexerFiles, indexerReady>>
        /\ pre = "ended" /\ tasks = <<>> /\ terminated
    BY DEF LeaveLoop, Join, messageVars, IInv, Ending
  <1> USE DEF IInv, worldVars, watchVars, preVars, queueVars
  <1>2. Types'
    <2>1. TaskTypes /\ UNCHANGED <<tasks, task, preTask, pre>>
      BY <1>1 DEF Types
    <2>2. task = NoTask
      BY <1>1, <2>1, SMT DEF TaskTypes
    <2>3. main' \in {"idle", "runs", "initializes", "resumes", "after", "joinPreprocessor",
                    "joinReader", "joinWatchman", "done"}
      BY <1>1, SMT
    <2>4. TaskTypes'
      BY <2>1, <2>2, <2>3 DEF TaskTypes, IsTask
    <2>5. QED
      BY <1>1, <2>4, MessageTypesFrame DEF Types, WorldTypes
  <1>3. Handshake'
    <2>1. UNCHANGED <<messages, initialized, client, pre>> /\ pre = "ended"
      BY <1>1
    <2>2. QED
      BY <2>1, HandshakeFrame
  <1>4. Stage'
    <2>1. UNCHANGED <<initialized, indexerReady, preTask, tasks, tcFiles, indexerFiles, unread,
                      task>>
      BY <1>1
    <2>2. /\ main \notin {"runs", "initializes", "resumes", "after"}
          /\ main' \notin {"runs", "initializes", "resumes", "after"}
          /\ tasks = <<>> /\ Stage
      BY <1>1, SMT
    <2>3. CASE BeforeIt
      BY <2>1, <2>2, <2>3 DEF Stage, BeforeIt, Early, Later, NotInitializing
    <2>4. CASE Enqueued
      BY <2>1, <2>2, <2>4 DEF Stage, Enqueued, Early, Later, NotInitializing
    <2>5. CASE Waiting
      BY <2>1, <2>2, <2>5 DEF Stage, Waiting, Early, Later, NotInitializing
    <2>6. CASE Pushed
      BY <2>1, <2>2, <2>6 DEF Stage, Pushed, Early, Later, NotInitializing
    <2>7. CASE Given
      BY <2>1, <2>2, <2>7 DEF Stage, Given, Early, Later, NotInitializing
    <2>8. QED
      BY <2>2, <2>3, <2>4, <2>5, <2>6, <2>7 DEF Stage, Running, Giving
  <1>5. Ending'
    BY <1>1 DEF Ending
  <1>6. Sent'
    BY <1>1, SentFrame
  <1>7. Texts'
    <2>1. ASSUME NEW f \in Files, NEW file, Known(f, file)
          PROVE  Known(f, file)'
      BY <1>1, <2>1, KnownKeeps, PendingFrame
    <2>2. UNCHANGED <<openFiles, unread, tcFiles, preTask, tasks, task>>
      BY <1>1
    <2>3. main # "runs" /\ main' # "runs"
      BY <1>1
    <2>4. Texts
      OBVIOUS
    <2>5. QED
      BY <2>1, <2>2, <2>3, <2>4 DEF Texts, Has
  <1>8. QED
    BY <1>2, <1>3, <1>4, <1>5, <1>6, <1>7

-----------------------------------------------------------------------------
(* The invariant and what follows from it                                  *)

\* The invariant holds at first.
LEMMA InitKeeps == Init => IInv
  <1> SUFFICES ASSUME Init
               PROVE  IInv
    OBVIOUS
  <1>1. IsTask(NoTask)
    BY HandshakeTask DEF NoTask
  <1>2. NoFile \in File
    BY DEF NoFile, File
  <1>3. Types
    <2>1. WorldTypes
      BY <1>2 DEF Init, WorldTypes, FileTable
    <2>2. MessageTypes /\ TaskTypes
      BY <1>1, SMT DEF Init, MessageTypes, TaskTypes
    <2>3. QED
      BY <2>1, <2>2 DEF Types
  <1>4. Handshake
    BY SMT DEF Init, Handshake
  <1>5. Stage
    BY SMT DEF Init, Stage, BeforeIt, Early, NotInitializing, NoTask
  <1>6. Ending
    BY DEF Init, Ending
  <1>7. Sent
    <2>1. 1 .. Len(messages) = {} /\ \A f \in Files : openFiles[f] = buffer[f]
      BY SMT DEF Init
    <2>2. QED
      BY <2>1 DEF Sent
  <1>8. Texts
    <2> SUFFICES ASSUME NEW f \in Files
                 PROVE  /\ ~tcFiles[f].open
                        /\ ~Has(preTask, f)
                        /\ 1 .. Len(tasks) = {} /\ main # "runs"
                        /\ (f \in unread /\ openFiles[f] = None) \/ Known(f, tcFiles[f])
      BY DEF Texts
    <2>1. /\ 1 .. Len(tasks) = {} /\ preTask = NoTask /\ main = "idle"
          /\ tcFiles[f] = NoFile /\ openFiles[f] = None
          /\ f \notin unread => disk[f] = None
      BY SMT DEF Init
    <2>2. f \in unread \/ Known(f, tcFiles[f])
      BY <2>1, SMTT(30) DEF Known, NoFile
    <2>3. ~Has(preTask, f) /\ ~tcFiles[f].open
      BY <2>1, SMT DEF Has, NoTask, NoFile
    <2>4. QED
      BY <2>1, <2>2, <2>3
  <1>9. QED
    BY <1>3, <1>4, <1>5, <1>6, <1>7, <1>8 DEF IInv

\* Every step keeps the invariant.
LEMMA NextKeeps == IInv /\ [Next]_vars => IInv'
  <1> SUFFICES ASSUME IInv, [Next]_vars
               PROVE  IInv'
    OBVIOUS
  <1>1. CASE World
    BY <1>1, ClientSendsKeeps, ClientVanishesKeeps, ClientEditsKeeps, DiskChangesKeeps,
       WatchmanKeeps DEF World
  <1>2. CASE ReaderEnds
    BY <1>2, ClientVanishesKeeps
  <1>3. CASE WatchmanThread
    BY <1>3, WatchmanKeeps, WatchmanEnqueuesKeeps DEF WatchmanThread
  <1>4. CASE Preprocessor
    BY <1>4, EarlyMessagesKeep, PreprocessHandshakeKeeps, PreprocessEditKeeps,
       PreprocessExitKeeps, PreprocessorEndsKeeps, PreprocessorEnqueuesKeeps DEF Preprocessor
  <1>5. CASE Processing
    BY <1>5, PopKeeps, RunInitializeKeeps, IndexInitializedKeeps, InitializeReadsKeeps,
       InitializeEndsKeeps, ResumeTaskQueueKeeps, RunIndexerInitializationKeeps, RunEditKeeps,
       AfterTaskKeeps, LeaveLoopKeeps DEF Processing
  <1>6. CASE UNCHANGED vars
    <2>1. UNCHANGED <<worldVars, watchVars, messageVars, preVars, queueVars, mainVars>>
      BY <1>6 DEF vars
    <2> USE DEF worldVars, watchVars, messageVars, preVars, queueVars, mainVars, IInv
    <2>2. Types'
      BY <2>1, MessageTypesFrame, TaskTypesFrame DEF Types, WorldTypes
    <2>3. Handshake' /\ Stage'
      BY <2>1, HandshakeFrame, StageFrame
    <2>4. Ending' /\ Sent'
      BY <2>1, EndingFrame, SentFrame
    <2>5. Texts'
      BY <2>1, PendingFrame, TextsFrame
    <2>6. QED
      BY <2>2, <2>3, <2>4, <2>5
  <1>7. QED
    BY <1>1, <1>2, <1>3, <1>4, <1>5, <1>6 DEF Next

\* The inductive invariant holds in every state: the threads of the server hand
\* `initialized` and the texts of the files on in the order in which they came.
THEOREM Invariant == Spec => []IInv
  BY InitKeeps, NextKeeps, PTL DEF Spec

\* The flags of the threads and the number of events are of their types.
Flags ==
    /\ {failed, terminate, notified, initialized, paused, terminated, indexerReady}
          \subseteq BOOLEAN
    /\ events \in 0 .. MaxEvents

\* ... and they are set to nothing else.
LEMMA FlagsKeep == Flags /\ [Next]_vars => Flags'
  <1> SUFFICES ASSUME Flags, [Next]_vars
               PROVE  Flags'
    OBVIOUS
  <1> USE DEF Flags, worldVars, watchVars, messageVars, preVars, queueVars, mainVars
  <1>1. CASE ClientInitializes
    BY <1>1 DEF ClientInitializes, Read
  <1>2. CASE ClientIsInitialized
    BY <1>2 DEF ClientIsInitialized, Read
  <1>3. CASE ClientExits
    BY <1>3 DEF ClientExits, Read
  <1>4. CASE ClientVanishes
    BY <1>4 DEF ClientVanishes
  <1>5. CASE \E kind \in {"open", "change", "close"}, f \in Files, text \in Contents :
               ClientEdits(kind, f, text)
    <2>1. /\ events < MaxEvents /\ events' = events + 1
          /\ UNCHANGED <<failed, terminate, notified, initialized, paused, terminated,
                         indexerReady>>
      BY <1>5 DEF ClientEdits, Read
    <2>2. QED
      BY <2>1, SessionAssumption, SMT
  <1>6. CASE \E kind \in {"pause", "resume"} : ClientPauses(kind)
    <2>1. /\ events < MaxEvents /\ events' = events + 1
          /\ UNCHANGED <<failed, terminate, notified, initialized, paused, terminated,
                         indexerReady>>
      BY <1>6 DEF ClientPauses, Read
    <2>2. QED
      BY <2>1, SessionAssumption, SMT
  <1>7. CASE \E f \in Files, text \in (Contents \ {Empty}) \cup {None} : DiskChanges(f, text)
    <2>1. /\ events < MaxEvents /\ events' = events + 1
          /\ UNCHANGED <<failed, terminate, notified, initialized, paused, terminated,
                         indexerReady>>
      BY <1>7 DEF DiskChanges
    <2>2. QED
      BY <2>1, SessionAssumption, SMT
  <1>8. CASE WatchmanSubscribes
    BY <1>8 DEF WatchmanSubscribes
  <1>9. CASE WatchmanFails
    BY <1>9 DEF WatchmanFails
  <1>10. CASE ReaderEnds
    BY <1>10 DEF ReaderEnds
  <1>11. CASE WatchmanTells
    BY <1>11 DEF WatchmanTells
  <1>12. CASE WatchmanEnqueues
    BY <1>12 DEF WatchmanEnqueues
  <1>13. CASE WatchmanStops
    BY <1>13 DEF WatchmanStops
  <1>14. CASE PreprocessTooEarly
    BY <1>14 DEF PreprocessTooEarly
  <1>15. CASE PreprocessHandshake
    BY <1>15 DEF PreprocessHandshake
  <1>16. CASE PreprocessEdit
    BY <1>16 DEF PreprocessEdit
  <1>17. CASE PreprocessPause
    BY <1>17 DEF PreprocessPause
  <1>18. CASE PreprocessExit
    BY <1>18 DEF PreprocessExit
  <1>19. CASE PreprocessorEnds
    BY <1>19 DEF PreprocessorEnds
  <1>20. CASE PreprocessorEnqueues
    BY <1>20 DEF PreprocessorEnqueues
  <1>21. CASE Pop
    BY <1>21 DEF Pop
  <1>22. CASE RunInitialize
    BY <1>22 DEF RunInitialize
  <1>23. CASE IndexInitialized
    BY <1>23 DEF IndexInitialized
  <1>24. CASE \E f \in Files : InitializeReads(f)
    BY <1>24 DEF InitializeReads
  <1>25. CASE InitializeEnds
    BY <1>25 DEF InitializeEnds
  <1>26. CASE ResumeTaskQueue
    BY <1>26 DEF ResumeTaskQueue
  <1>27. CASE RunIndexerInitialization
    BY <1>27 DEF RunIndexerInitialization
  <1>28. CASE RunEdit
    BY <1>28 DEF RunEdit
  <1>29. CASE AfterTask
    BY <1>29 DEF AfterTask
  <1>30. CASE LeaveLoop
    BY <1>30 DEF LeaveLoop, NotifiedAtEnd
  <1>31. CASE Join
    BY <1>31 DEF Join
  <1>32. CASE UNCHANGED vars
    BY <1>32 DEF vars
  <1> HIDE DEF Flags
  <1>33. QED
    BY <1>1, <1>2, <1>3, <1>4, <1>5, <1>6, <1>7, <1>8, <1>9, <1>10, <1>11, <1>12, <1>13,
       <1>14, <1>15, <1>16, <1>17, <1>18, <1>19, <1>20, <1>21, <1>22, <1>23, <1>24,
       <1>25, <1>26, <1>27, <1>28, <1>29, <1>30, <1>31, <1>32
    DEF Next, World, WatchmanThread, Preprocessor, Processing

\* Type correctness: messages, tasks, tables and flags keep their types, whatever
\* the client, the disk and Watchman do.
THEOREM TypeCorrect == Spec => []TypeOK
  <1>1. ASSUME Init
        PROVE  Flags
    <2>1. /\ failed = FALSE /\ terminate = FALSE /\ notified = FALSE /\ initialized = FALSE
          /\ paused = FALSE /\ terminated = FALSE /\ indexerReady = FALSE
      BY <1>1 DEF Init
    <2>2. {failed, terminate, notified, initialized, paused, terminated, indexerReady} = {FALSE}
      BY <2>1
    <2>3. events \in 0 .. MaxEvents
      BY <1>1, SessionAssumption, SMT DEF Init
    <2>4. QED
      BY <2>2, <2>3 DEF Flags
  <1>2. Spec => []Flags
    BY <1>1, FlagsKeep, PTL DEF Spec
  <1>3. ASSUME IInv, Flags
        PROVE  TypeOK
    <2>1. WorldTypes /\ MessageTypes /\ TaskTypes /\ Flags
      BY <1>3 DEF IInv, Types
    <2>2. /\ {openFiles, buffer, disk} \subseteq [Files -> Contents \cup {None}]
          /\ {tcFiles, indexerFiles} \subseteq FileTable
          /\ {changed, told, unseen, unread} \subseteq SUBSET Files
      BY <2>1 DEF WorldTypes
    <2>3. QED
      BY <2>1, <2>2 DEF WorldTypes, MessageTypes, TaskTypes, Flags, TypeOK
  <1>4. QED
    BY <1>2, <1>3, Invariant, PTL

\* runEdit finds an initialized indexer whose files are those of the typechecker:
\* an edit runs after the task that InitializedTask pushes to the front of the queue.
THEOREM IndexerHasTheFilesHolds == Spec => []IndexerHasTheFiles
  <1>1. IInv => IndexerHasTheFiles
    BY DEF IInv, Stage, BeforeIt, Enqueued, Waiting, Running, Pushed, Giving, Given, Early,
           IndexerHasTheFiles, Runs
  <1>2. QED
    BY <1>1, Invariant, PTL

\* runLSP leaves its loop and joins the threads only when no task is left, and no
\* message of the client unless Watchman failed.
THEOREM NothingLeftBehindHolds == Spec => []NothingLeftBehind
  <1>1. IInv => NothingLeftBehind
    BY DEF IInv, Types, TaskTypes, Ending, NothingLeftBehind
  <1>2. QED
    BY <1>1, Invariant, PTL

\* When every queue is empty the typechecker has, of each file, the text in the
\* editor if it is open there and the one on disk if not, for a file that did not
\* change before Watchman was there.
THEOREM ServerHasTheTextHolds == Spec => []ServerHasTheText
  <1>1. ASSUME IInv, Quiet, NEW f \in Files
        PROVE  IF buffer[f] # None
               THEN tcFiles[f] = [text |-> buffer[f], open |-> TRUE]
               ELSE /\ ~tcFiles[f].open
                    /\ \/ f \in unseen
                       \/ tcFiles[f].text = ReadFile(f)
                       \/ tcFiles[f].text = None /\ disk[f] = None
    <2>1. Len(messages) = 0 /\ Len(tasks) = 0
      BY <1>1 DEF Quiet
    <2>2. buffer[f] = openFiles[f]
      BY <1>1, <2>1, SMT DEF IInv, Sent
    <2>3. unread = {}
      BY <1>1 DEF Quiet, IInv, Stage, BeforeIt, Enqueued, Waiting, Running, Pushed, Giving, Given
    <2>4. preTask = NoTask /\ task = NoTask
      BY <1>1 DEF Quiet, IInv, Types, TaskTypes
    <2>5. Known(f, tcFiles[f])
      BY <1>1, <2>1, <2>3, <2>4, SMTT(30) DEF IInv, Texts, Has, NoTask
    <2>6. Pending(f) => f \in unseen
      BY <1>1, <2>1, SMT DEF Quiet, Pending
    <2>7. CASE buffer[f] # None
      <3>1. tcFiles[f].text = buffer[f] /\ tcFiles[f].open
        BY <2>2, <2>5, <2>7 DEF Known
      <3>2. tcFiles[f] \in File
        BY <1>1 DEF IInv, Types, WorldTypes, FileTable
      <3>3. QED
        BY <2>7, <3>1, <3>2 DEF File
    <2>8. CASE buffer[f] = None
      BY <2>2, <2>5, <2>6, <2>8 DEF Known
    <2>9. QED
      BY <2>7, <2>8
  <1>2. IInv => ServerHasTheText
    BY <1>1 DEF ServerHasTheText
  <1>3. QED
    BY <1>2, Invariant, PTL
=============================================================================
