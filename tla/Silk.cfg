SPECIFICATION Spec
CONSTANTS
  b = 2
  B = 4
  MAX_ARITHM_BYTES = 40
  LEVELS = 2
  BLOCKS = 2
  N_RATE_LEVELS = 3
  max_pulses_table <- Limits
  rate_levels_CDF <- RateLevels
  pulses_per_block_CDF <- PulsesPerBlock
  shell_code_table <- ShellCode
  lsb_CDF <- Lsb
  sign_CDF <- Sign
  FRAMES_PER_PACKET = 2
  MAX_BYTES_OUT = 44
  FirstFrames <- First
  LaterFrames <- Later
  Redundancy <- Lbrr
  StrayPayloads <- Strays
  StaleBytes = {0, 3}
  SamplingRates_CDF <- SamplingRates
  type_offset_CDF <- TypeOffset
  type_offset_joint_CDF <- TypeOffsetJoint
  gain_CDF <- Gain
  delta_gain_CDF <- DeltaGain
  NLSF_CDF <- Nlsf
  pitch_lag_CDF <- PitchLag
  Seed_CDF <- Seed
  vadflag_CDF <- VadFlag
  FrameTermination_CDF <- FrameTermination
INVARIANTS
  IntervalIsNormal
  CarryStaysInside
  RedundancyFound
PROPERTY
  PipeSpec
