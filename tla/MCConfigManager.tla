-------------------------- MODULE MCConfigManager --------------------------
(* Configurations of one domain whose patterns all match the same book. *)
EXTENDS ConfigManager

MCCovers == [c \in Configs |-> Urls]
=============================================================================
