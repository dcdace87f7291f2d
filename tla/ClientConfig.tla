----------------------------- MODULE ClientConfig -----------------------------
(***************************************************************************)
(* From what a user asks for to the native client that is built: a config  *)
(* (s3client_config.py) and direct arguments are merged by the dataset or  *)
(* checkpoint, once more by the S3Client (_s3client.py), and handed to     *)
(* MountpointS3Client (mountpoint_s3_client.rs), which validates them once *)
(* more and is rebuilt from its arguments wherever it is unpickled.        *)
(*                                                                         *)
(* Every value is a string; None is "None".                                *)
(***************************************************************************)
EXTENDS Integers, Sequences

CONSTANTS
  Endpoints, Keys, Secrets, PartSizes, Flags, Profiles, Attempts, \* of a config
  Direct,      \* the direct arguments: a set of records
  BadPartSizes,\* the part sizes that are not between 5MiB and 5GiB
  MaxPickles   \* bound on the times the native client is unpickled

None == "None"
BadUri == "no uri"

VARIABLES
  given,   \* s3client_config, or None's equivalent, the default config
  direct,  \* the direct arguments
  stage,   \* "asked", "resolved", "client", "native", or how it ended
  config,  \* the merged config, of the dataset and then of the S3Client
  native,  \* the arguments MountpointS3Client keeps, in order
  pickles  \* how often it was unpickled

cvars == <<given, direct, stage, config, native, pickles>>

Configs ==
  [endpoint_url : Endpoints, access_key_id : Keys, secret_access_key : Secrets,
   part_size : PartSizes, force_path_style : Flags, unsigned : Flags,
   profile : Profiles, max_attempts : Attempts]

Static(c) == c.access_key_id # None \/ c.secret_access_key # None

(* Faulty variant: signing with static keys is not excluded. *)
ValidWhenUnsigned(c) ==
  /\ (c.access_key_id = None) <=> (c.secret_access_key = None)
  /\ Static(c) => "" \notin {c.access_key_id, c.secret_access_key} /\ c.profile = None

(* S3ClientConfig.__post_init__ does not raise. *)
Valid(c) ==
  /\ (c.access_key_id = None) <=> (c.secret_access_key = None)
  /\ Static(c) =>
       /\ "" \notin {c.access_key_id, c.secret_access_key}
       /\ c.profile = None /\ c.unsigned = "False"

Init ==
  /\ given \in {c \in Configs : Valid(c)} /\ direct \in Direct
  /\ stage = "asked" /\ config = given /\ native = <<>> /\ pickles = 0

OrNone(s) == IF s = "" THEN None ELSE s       \* s or None
Override(d, c) == IF d # None THEN d ELSE c   \* d if d is not None else c

(* Faulty variant: the legacy name of the endpoint wins over the config's  *)
(* only when the config has none.                                          *)
MergedKeepsEndpoint(c, d) ==
  [c EXCEPT
     !.endpoint_url = Override(OrNone(d.endpoint_url), Override(@, OrNone(d.endpoint))),
     !.access_key_id = Override(d.access_key_id, @),
     !.secret_access_key = Override(d.secret_access_key, @),
     !.part_size = Override(d.part_size, @),
     !.force_path_style = Override(d.force_path_style, @)]

(* resolve_s3client_config *)
Conflict(d) ==
  /\ OrNone(d.endpoint) # None /\ OrNone(d.endpoint_url) # None
  /\ d.endpoint # d.endpoint_url
Merged(c, d) ==
  [c EXCEPT
     !.endpoint_url = Override(OrNone(d.endpoint_url), Override(OrNone(d.endpoint), @)),
     !.access_key_id = Override(d.access_key_id, @),
     !.secret_access_key = Override(d.secret_access_key, @),
     !.part_size = Override(d.part_size, @),
     !.force_path_style = Override(d.force_path_style, @)]

Resolve(d, next) ==
  IF Conflict(d) \/ ~Valid(Merged(config, d))
  THEN stage' = "rejected" /\ config' = config
  ELSE stage' = next /\ config' = Merged(config, d)

NoArguments ==
  [endpoint |-> None, endpoint_url |-> None, access_key_id |-> None,
   secret_access_key |-> None, part_size |-> None, force_path_style |-> None]

(* The constructor of a dataset, a checkpoint or a file system.            *)
Construct ==
  /\ stage = "asked" /\ Resolve(direct, "resolved")
  /\ UNCHANGED <<given, direct, native, pickles>>

(* S3Client.__init__, by one of these: no endpoint besides the config's.   *)
MakeClient ==
  /\ stage = "resolved" /\ Resolve(NoArguments, "client")
  /\ UNCHANGED <<given, direct, native, pickles>>

(* auth_config does not return an error. *)
AuthConfig(key, secret, profile, unsigned) ==
  /\ (key = None) <=> (secret = None)
  /\ key # None \/ secret # None => profile = None /\ unsigned = "False"

(* MountpointS3Client(...), in the order of new_s3_client: a malformed     *)
(* endpoint or no attempts panics, what auth_config returns is raised, and *)
(* so is what S3CrtClient::new finds: a part size out of its limits, or a  *)
(* profile that is not configured where the client is built.               *)
Endpoint(n) == OrNone(n[5])
SignsWithProfile(profile, unsigned) == profile # None /\ unsigned = "False"
Fails(how) == stage' = how /\ native' = <<>>
New(args) ==
  IF Endpoint(args) = BadUri THEN Fails("panicked")
  ELSE IF ~AuthConfig(args[8], args[9], args[3], args[4]) THEN Fails("rejected late")
  ELSE IF args[7] = "0" THEN Fails("panicked")
  ELSE \/ args[2] \notin BadPartSizes /\ stage' = "native" /\ native' = args
       \/ /\ args[2] \in BadPartSizes \/ SignsWithProfile(args[3], args[4])
          /\ Fails("rejected late")

(* _client_builder *)
Build ==
  /\ stage = "client"
  /\ New(<<"user agent", config.part_size, config.profile, config.unsigned,
           config.endpoint_url, config.force_path_style, config.max_attempts,
           config.access_key_id, config.secret_access_key>>)
  /\ UNCHANGED <<given, direct, config, pickles>>

(* Faulty variant: two flags in the other order. *)
GetNewArgsSwapped ==
  <<native[1], native[2], native[3], native[6], native[5], native[4], native[7],
    native[8], native[9]>>

(* __getnewargs__ *)
GetNewArgs ==
  <<native[1], native[2], native[3], native[4], native[5], native[6], native[7],
    native[8], native[9]>>

Unpickle ==
  /\ stage = "native" /\ pickles < MaxPickles /\ pickles' = pickles + 1
  /\ New(GetNewArgs)
  /\ UNCHANGED <<given, direct, config>>

Next == Construct \/ MakeClient \/ Build \/ Unpickle

Spec == Init /\ [][Next]_cvars
-----------------------------------------------------------------------------
(* "Direct arguments override matching fields", and "endpoint is a         *)
(* backwards-compatible alias for endpoint_url": so it is of the client    *)
(* that makes the requests, in every process.                              *)
AskedEndpoint ==
  LET named == {direct.endpoint_url, direct.endpoint} \ {None, ""}
  IN  IF named = {} THEN {given.endpoint_url} ELSE named

ClientIsAsAsked ==
  stage = "native" =>
    /\ Endpoint(native) \in {OrNone(e) : e \in AskedEndpoint}
    /\ native[2] = Override(direct.part_size, given.part_size)
    /\ native[6] = Override(direct.force_path_style, given.force_path_style)
    /\ native[8] = Override(direct.access_key_id, given.access_key_id)
    /\ native[9] = Override(direct.secret_access_key, given.secret_access_key)
    /\ <<native[3], native[4], native[7]>> =
         <<given.profile, given.unsigned, given.max_attempts>>

(* A mistake is reported where it is made, by the constructor of a dataset *)
(* or checkpoint, but for four: the client that is built at the first      *)
(* request, in a worker perhaps, raises only for a part size that is out of*)
(* its limits and a profile that is missing there, and panics only at a    *)
(* malformed endpoint and at no attempts.  A client that is built has none *)
(* of these mistakes: a profile, if it signs with one, is configured.      *)
LateFailuresAreUnchecked ==
  /\ stage = "rejected late" =>
       config.part_size \in BadPartSizes \/ SignsWithProfile(config.profile, config.unsigned)
  /\ stage = "panicked" => config.max_attempts = "0" \/ config.endpoint_url = BadUri
  /\ stage = "native" =>
       /\ config.part_size \notin BadPartSizes
       /\ config.max_attempts # "0" /\ config.endpoint_url # BadUri
=============================================================================
