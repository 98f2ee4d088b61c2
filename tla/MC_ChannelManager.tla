-------------------------- MODULE MC_ChannelManager --------------------------
(* Instances of the channel manager for TLC.                               *)
EXTENDS ChannelManager

(* CHANNEL_DEF arrays of one or two channels: a plugin can fill the       *)
(* CHANNEL_MAX_COUNT = 2 slots, collide with another plugin's name, or    *)
(* ask for a slot that is no longer there.                                *)
MC_Defs == {<<"n1">>, <<"n2">>, <<"n1", "n2">>, <<"n3">>}

(* For three plugins: one fills both slots, the next asks for a third.    *)
MC_CrowdedDefs == {<<"n1", "n2">>, <<"n3">>}

(* Two plugins; a third one for a loader that runs past the array.        *)
MC_Plugins == {"p1", "p2"}
MC_ManyPlugins == {"p1", "p2", "p3"}
=============================================================================
