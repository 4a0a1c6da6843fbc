--------------------------- MODULE AtellaConfigFiles ---------------------------
(***************************************************************************)
(* The loading of the files of the configuration (LoadConfig, addChannel   *)
(* and LoadDirectory in AtellaConfig.go) before the agent looks for its    *)
(* neighbours as in AtellaSectors.  The files are read one after the other *)
(* into the one configuration there is: a setting a file names replaces    *)
(* the old one, a channel replaces the channel of that name, the sectors   *)
(* are appended, and nothing is ever taken away.                           *)
(***************************************************************************)
EXTENDS AtellaSectors

CONSTANTS
  ChannelNames,
  Timeouts,        \* values of net_timeout
  DefaultTimeout, DefaultCount,
  Unnamed,         \* the file does not name it
  Disks            \* what the files may say: sequences of File, in the order of
                   \* the walk through the directory, the main file first

File == [timeout  : Timeouts \cup {Unnamed},
         hostCnt  : 0 .. MaxHostCnt \cup {Unnamed},
         channels : UNION {[C -> Timeouts \cup {Unnamed}] : C \in SUBSET ChannelNames},
         sectors  : Seq(Sector),
         broken   : BOOLEAN]

ASSUME DefaultAssumption ==
  DefaultTimeout \in Timeouts /\ DefaultCount \in 0 .. MaxHostCnt /\ Unnamed \notin Timeouts \cup Nat
ASSUME DiskAssumption == Disks \subseteq Seq(File)

VARIABLES
  disk,      \* the files there are
  next,      \* the file to be read, 0 if none is
  timeout,   \* Agent.NetTimeout
  count,     \* Agent.HostCnt, hostCnt once the client is made with it
  channels,  \* NetTimeout of each of Config.Channels, or Unnamed
  added,     \* sectors appended in this load
  failed,    \* LoadConfig has returned an error, and the process ended
  before     \* history: the files, settings and neighbours of the load before

loaderVars == <<disk, next, timeout, count, channels, added, failed, before>>

Result == [files |-> disk, timeout |-> timeout, count |-> count, channels |-> channels,
           neighbours |-> neighbours, vector |-> vector]

LoaderInit ==
  /\ Init /\ hostCnt = DefaultCount
  /\ disk \in Disks /\ next = 0
  /\ timeout = DefaultTimeout /\ count = DefaultCount
  /\ channels = [c \in ChannelNames |-> Unnamed]
  /\ added = <<>> /\ failed = FALSE /\ before = <<>>

-----------------------------------------------------------------------------
\* The daemon starts, or is told to reload the files as they are by now.
LoadBegin ==
  /\ pc = "run" /\ next = 0 /\ loads < MaxLoads
  /\ disk' \in Disks /\ next' = 1
  /\ added' = <<>> /\ before' = IF loads = 0 THEN <<>> ELSE Result
  /\ UNCHANGED <<vars, timeout, count, channels, failed>>

Named(value, old) == IF value = Unnamed THEN old ELSE value

\* addChannel: the timeout of a channel that does not name one is t.
Channels(f, t) ==
  [c \in ChannelNames |-> IF c \in DOMAIN f.channels THEN Named(f.channels[c], t) ELSE channels[c]]

LoadFileWith(t) ==
  /\ next \in DOMAIN disk /\ ~failed
  /\ LET f == disk[next] IN
       /\ failed' = f.broken
       /\ timeout' = Named(f.timeout, timeout)
       /\ count' = Named(f.hostCnt, count)
       /\ channels' = Channels(f, t)
       /\ added' = added \o f.sectors
  /\ next' = next + 1
  /\ UNCHANGED <<vars, disk, before>>

\* Variant: the channels of a file are read before its agent.
LoadFileChannelsFirst == LoadFileWith(timeout)

\* LoadConfig: the agent of a file is read before its channels.
LoadFile == LoadFileWith(timeout')

\* All files are read: Init of the configuration, and init of the client.
LoadEnd ==
  /\ next > Len(disk) /\ ~failed
  /\ ReloadWith(added, count)
  /\ next' = 0
  /\ UNCHANGED <<disk, timeout, count, channels, added, failed, before>>

Select == (NextSector \/ NotMe \/ IsMe \/ Ready \/ Ring \/ RingEnd \/ Add) /\ UNCHANGED loaderVars

LoaderNext == LoadBegin \/ LoadFile \/ LoadEnd \/ Select

LoaderSpec == LoaderInit /\ [][LoaderNext]_<<vars, loaderVars>>

-----------------------------------------------------------------------------
(***************************************************************************)
(* Properties.                                                             *)
(***************************************************************************)
Loaded == loads > 0 /\ next = 0

\* If only the main file names net_timeout, every channel of the files that does
\* not name its own has the timeout of the agent, whatever was loaded before.
OnlyMainNamesTimeout == \A k \in DOMAIN disk : k > 1 => disk[k].timeout = Unnamed

ChannelsFollowAgent ==
  Loaded /\ OnlyMainNamesTimeout =>
    \A c \in ChannelNames :
      (\E k \in DOMAIN disk : c \in DOMAIN disk[k].channels)
        /\ (\A k \in DOMAIN disk : c \in DOMAIN disk[k].channels => disk[k].channels[c] = Unnamed)
      => channels[c] = timeout

\* A reload of unchanged files changes nothing: the settings are the same, and
\* although the sectors are there twice by now, so are the neighbours and the
\* slots.  It takes one more load for a channel to follow a net_timeout that a
\* file after it names.
ReloadIsStable ==
  Loaded /\ pc = "run" /\ before # <<>> /\ disk = before.files =>
    /\ timeout = before.timeout /\ count = before.count
    /\ OnlyMainNamesTimeout => channels = before.channels
    /\ neighbours = before.neighbours /\ vector = before.vector

=============================================================================
