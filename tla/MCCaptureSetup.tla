--------------------------- MODULE MCCaptureSetup ---------------------------
(***************************************************************************)
(* Sizes and settings for the run of CaptureSetup.                         *)
(***************************************************************************)
EXTENDS CaptureSetup

SensorSizes == {<<4, 3>>, <<9, 5>>}

Setting(dma, mode, pos, crop, ds) ==
  [data_idx |-> dma, img_process |-> mode, pos |-> pos, crop |-> crop, ds |-> ds]

\* set_v4l2_config() uses MODE_DS; the interface offers the other three, also
\* for a place and a size whose sum wraps.
Settings ==
  {Setting("CNN_MODE", "MODE_DS", <<0, 0>>, <<0, 0>>, <<2, 1>>),
   Setting("CNN_MODE", "MODE_CROP", <<1, 1>>, <<4, 3>>, <<2, 1>>),
   Setting("CODA_MODE", "MODE_CROP", <<14, 1>>, <<4, 2>>, <<2, 1>>),
   Setting("CODA_MODE", "MODE_CROP_TO_DS", <<0, 1>>, <<4, 2>>, <<1, 1>>),
   Setting("CODA_MODE", "MODE_BYPASS", <<0, 0>>, <<0, 0>>, <<2, 1>>),
   Setting("CSI_MODE", "MODE_DS", <<0, 0>>, <<0, 0>>, <<2, 1>>),
   Setting("invalid", "MODE_DS", <<0, 0>>, <<0, 0>>, <<2, 1>>)}

=============================================================================
